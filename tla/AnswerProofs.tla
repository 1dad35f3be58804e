---------------------------- MODULE AnswerProofs ----------------------------
(***************************************************************************)
(* Proofs about the answers of the dispatcher, for conversations of any    *)
(* kind: the client reads back what was sent.                              *)
(***************************************************************************)
EXTENDS DispatcherProofs

(***************************************************************************)
(* Numbers as they are written by str() and read by int().                 *)
(***************************************************************************)

\* The characters there are.  The literals are strings too, which the provers do not know.
Symbols == STRING \cup {"0", "1", "2", "3", "4", "5", "6", "7", "8", "9"}
                  \cup {" ", "S", "E", "t"}

\* The ten digits are different, so each has the value it stands for.
LEMMA DigitsDiffer ==
    ASSUME NEW d \in 0..9
    PROVE  /\ IsDigit(Digits[d + 1]) /\ DigitValue(Digits[d + 1]) = d
           /\ Digits[d + 1] \in Symbols
<1>1. DOMAIN Digits = 1..10 /\ d + 1 \in 1..10
    BY DEF Digits
<1>2. \A e, g \in 1..10 : Digits[e] = Digits[g] => e = g
    BY DEF Digits
<1>3. PICK e : e = CHOOSE g \in DOMAIN Digits : Digits[g] = Digits[d + 1]
    OBVIOUS
<1>4. e \in DOMAIN Digits /\ Digits[e] = Digits[d + 1]
    BY <1>1, <1>3, Zenon
<1>5. e = d + 1
    BY <1>1, <1>2, <1>4
<1>6. DigitValue(Digits[d + 1]) = e - 1
    BY <1>3 DEF DigitValue
<1>7. Digits[d + 1] \in Symbols
  <2>1. d \in {0, 1, 2, 3, 4, 5, 6, 7, 8, 9}
    OBVIOUS
  <2>2. Digits[d + 1] \in {"0", "1", "2", "3", "4", "5", "6", "7", "8", "9"}
    BY <2>1 DEF Digits
  <2> QED
    BY <2>2, Zenon DEF Symbols
<1> QED
    BY <1>1, <1>5, <1>6, <1>7 DEF IsDigit

\* The first n elements of h are digits.
AllDigits(h, n) == \A i \in 1..n : IsDigit(h[i])

\* Decimal of no digits, and of one digit more.
LEMMA DecimalStep ==
    ASSUME NEW h, NEW n \in Nat, AllDigits(h, n + 1)
    PROVE  /\ Decimal(h, n) \in Nat
           /\ Decimal(h, n + 1) = Decimal(h, n) * 10 + DigitValue(h[n + 1])
<1>1. \A i \in 1..n : i \in 1..(n + 1)
    OBVIOUS
<1>2. /\ \A i \in 1..n : IsDigit(h[i])
      /\ \A i \in 1..(n + 1) : IsDigit(h[i])
    BY <1>1 DEF AllDigits
<1>3. PICK f \in [0..n -> Nat] : Follows(f, 0, DigitStep(h, n), n) /\ Decimal(h, n) = f[n]
    BY <1>2, DecimalFollows
<1>4. PICK g \in [0..(n + 1) -> Nat] :
        Follows(g, 0, DigitStep(h, n + 1), n + 1) /\ Decimal(h, n + 1) = g[n + 1]
    BY <1>2, DecimalFollows
<1>5. \A v \in Nat, i \in 1..n : DigitStep(h, n)[<<v, i>>] = v * 10 + DigitValue(h[i])
    BY <1>2, DigitStepType
<1>6. \A v \in Nat, i \in 1..(n + 1) : DigitStep(h, n + 1)[<<v, i>>] = v * 10 + DigitValue(h[i])
  <2>1. PICK k \in Nat : k = n + 1
    OBVIOUS
  <2>2. \A v \in Nat, i \in 1..k : DigitStep(h, k)[<<v, i>>] = v * 10 + DigitValue(h[i])
    BY <1>2, <2>1, DigitStepType
  <2> QED
    BY <2>1, <2>2
<1>7. Follows(f, 0, DigitStep(h, n + 1), n)
  <2>1. \A i \in 1..n : f[i - 1] \in Nat
    BY <1>3
  <2> QED
    BY <1>1, <1>3, <1>5, <1>6, <2>1 DEF Follows
<1>8. f[n] = g[n]
  <2>1. n + 1 \in Nat /\ n <= n + 1 /\ n \in 0..n
    OBVIOUS
  <2> QED
    BY <1>4, <1>7, <2>1, RecursionUnique
<1>9. g[n + 1] = DigitStep(h, n + 1)[<<g[n], n + 1>>]
  <2>1. n + 1 \in 1..(n + 1) /\ (n + 1) - 1 = n
    OBVIOUS
  <2> QED
    BY <1>4, <2>1 DEF Follows
<1>10. g[n] \in Nat /\ n + 1 \in 1..(n + 1) /\ f[n] \in Nat
    BY <1>3, <1>4
<1> QED
    BY <1>3, <1>4, <1>6, <1>8, <1>9, <1>10

\* Decimal looks at the first n characters only.
LEMMA DecimalSame ==
    ASSUME NEW h, NEW g, NEW n \in Nat, \A i \in 1..n : h[i] = g[i]
    PROVE  Decimal(h, n) = Decimal(g, n)
<1>1. PICK H : H = [i \in 1..n |-> h[i]]
    OBVIOUS
<1>2. ASSUME NEW x, \A i \in 1..n : x[i] = H[i]
      PROVE  Decimal(x, n) = Decimal(H, n)
  <2> DEFINE F(y) == CHOOSE f : f = [i \in 0..n |-> IF i = 0 THEN 0
                                                  ELSE f[i - 1] * 10 + DigitValue(y[i])]
  <2>1. \A f : [i \in 0..n |-> IF i = 0 THEN 0 ELSE f[i - 1] * 10 + DigitValue(x[i])]
             = [i \in 0..n |-> IF i = 0 THEN 0 ELSE f[i - 1] * 10 + DigitValue(H[i])]
    <3>1. \A i \in 0..n : i # 0 => x[i] = H[i]
      BY <1>2
    <3> QED
      BY <3>1
  <2>2. F(x) = F(H)
    BY <2>1, Zenon
  <2> QED
    BY <2>2 DEF Decimal
<1>3. \A i \in 1..n : h[i] = H[i] /\ g[i] = H[i]
    BY <1>1
<1>4. Decimal(h, n) = Decimal(H, n)
    BY <1>2, <1>3
<1>5. Decimal(g, n) = Decimal(H, n)
    BY <1>2, <1>3
<1> QED
    BY <1>4, <1>5

\* What str() does with one number, given what it did with smaller ones.
Written(f, m) == IF m < 10 THEN <<Digits[m + 1]>>
                 ELSE f[m \div 10] \o <<Digits[(m % 10) + 1]>>

\* The last digit, and what is left of a number without it.
LEMMA LastDigit ==
    ASSUME NEW m \in Nat, ~(m < 10)
    PROVE  /\ m \div 10 \in Nat /\ m % 10 \in 0..9 /\ m \div 10 < m
           /\ m = (m \div 10) * 10 + (m % 10)
    OBVIOUS

\* There is a function that writes the numbers up to k, each from smaller ones.
LEMMA WrittenExists ==
    ASSUME NEW k \in Nat
    PROVE  \E f : f = [m \in 0..k |-> Written(f, m)]
<1> DEFINE T == {n \in Nat : \E f : f = [m \in 0..n |-> Written(f, m)]}
<1>1. 0 \in T
  <2>1. PICK f : f = [m \in 0..0 |-> <<Digits[m + 1]>>]
    OBVIOUS
  <2>2. \A m \in 0..0 : Written(f, m) = <<Digits[m + 1]>>
    BY DEF Written
  <2>3. f = [m \in 0..0 |-> Written(f, m)]
    BY <2>1, <2>2
  <2> QED
    BY <2>3
<1>2. ASSUME NEW n \in Nat, n \in T PROVE n + 1 \in T
  <2>1. PICK f : f = [m \in 0..n |-> Written(f, m)]
    BY <1>2
  <2>2. PICK g : g = [m \in 0..(n + 1) |-> Written(f, m)]
    OBVIOUS
  <2>3. \A m \in 0..n : g[m] = f[m]
    <3>1. \A m \in 0..n : m \in 0..(n + 1)
      OBVIOUS
    <3>2. \A m \in 0..n : f[m] = Written(f, m)
      BY <2>1
    <3>3. \A m \in 0..(n + 1) : g[m] = Written(f, m)
      BY <2>2
    <3> QED
      BY <3>1, <3>2, <3>3, Zenon
  <2>4. ASSUME NEW m \in 0..(n + 1) PROVE Written(g, m) = Written(f, m)
    <3>1. CASE m < 10
      BY <3>1 DEF Written
    <3>2. CASE ~(m < 10)
      <4>1. m \in Nat /\ m <= n + 1
        OBVIOUS
      <4>2. PICK q \in Nat : q = m \div 10 /\ q < m
        BY <3>2, <4>1, LastDigit
      <4>3. q \in 0..n
        BY <4>1, <4>2
      <4>4. g[m \div 10] = f[m \div 10]
        BY <2>3, <4>2, <4>3
      <4> QED
        BY <3>2, <4>4, Zenon DEF Written
    <3> QED
      BY <3>1, <3>2
  <2>5. g = [m \in 0..(n + 1) |-> Written(g, m)]
    BY <2>2, <2>4, Zenon
  <2> QED
    BY <2>5
<1>3. \A n \in Nat : n \in T
  <2> HIDE DEF T
  <2> QED
    BY <1>1, <1>2, SetInduction, Zenon
<1> QED
    BY <1>3

\* h writes the number m: int() gives m for it.
Writes(h, m) ==
    h \in Seq(Symbols) /\ Len(h) >= 1 /\ AllDigits(h, Len(h)) /\ Decimal(h, Len(h)) = m

\* Decimal of no digits.
LEMMA DecimalZero ==
    ASSUME NEW h
    PROVE  Decimal(h, 0) = 0
<1>1. 0 \in Nat /\ \A i \in 1..0 : IsDigit(h[i])
    OBVIOUS
<1> QED
    BY <1>1, DecimalFollows DEF Follows

\* A digit writes a number below ten ...
LEMMA WritesOne ==
    ASSUME NEW d \in 0..9
    PROVE  Writes(<<Digits[d + 1]>>, d)
<1>1. PICK c \in Symbols : c = Digits[d + 1] /\ IsDigit(c) /\ DigitValue(c) = d
    BY DigitsDiffer, Zenon
<1>2. PICK h : h = <<c>>
    OBVIOUS
<1>3. h \in Seq(Symbols) /\ Len(h) = 1 /\ h[1] = c
    BY <1>2
<1>4. AllDigits(h, 1)
  <2>1. \A i \in 1..1 : i = 1
    OBVIOUS
  <2> QED
    BY <1>1, <1>3, <2>1 DEF AllDigits
<1>5. Decimal(h, 1) = d
  <2>1. 0 \in Nat /\ 0 + 1 = 1
    OBVIOUS
  <2>2. Decimal(h, 0 + 1) = Decimal(h, 0) * 10 + DigitValue(h[0 + 1])
    BY <1>4, <2>1, DecimalStep
  <2>3. Decimal(h, 0) = 0
    BY DecimalZero
  <2> QED
    BY <1>1, <1>3, <2>2, <2>3
<1> QED
    BY <1>1, <1>2, <1>3, <1>4, <1>5 DEF Writes

\* ... and one more digit ten times as much and the digit.
LEMMA WritesMore ==
    ASSUME NEW h, NEW q \in Nat, Writes(h, q), NEW d \in 0..9
    PROVE  Writes(h \o <<Digits[d + 1]>>, q * 10 + d)
<1>1. PICK c \in Symbols : c = Digits[d + 1] /\ IsDigit(c) /\ DigitValue(c) = d
    BY DigitsDiffer, Zenon
<1>2. h \in Seq(Symbols) /\ AllDigits(h, Len(h)) /\ Decimal(h, Len(h)) = q
    BY DEF Writes
<1>3. PICK n \in Nat : n = Len(h)
    BY <1>2
<1>4. PICK g : g = h \o <<c>>
    OBVIOUS
<1>5. g \in Seq(Symbols) /\ Len(g) = n + 1 /\ g[n + 1] = c /\ \A i \in 1..n : g[i] = h[i]
    BY <1>2, <1>3, <1>4
<1>6. AllDigits(g, n + 1)
  <2>1. \A i \in 1..(n + 1) : i \in 1..n \/ i = n + 1
    OBVIOUS
  <2>2. \A i \in 1..n : IsDigit(h[i])
    BY <1>2, <1>3, Zenon DEF AllDigits
  <2>3. \A i \in 1..(n + 1) : IsDigit(g[i])
    BY <1>1, <1>5, <2>1, <2>2, Zenon
  <2> QED
    BY <2>3 DEF AllDigits
<1>7. Decimal(g, n) = q
  <2>1. Decimal(g, n) = Decimal(h, n)
    BY <1>5, DecimalSame
  <2> QED
    BY <1>2, <1>3, <2>1
<1>8. Decimal(g, n + 1) = Decimal(g, n) * 10 + DigitValue(g[n + 1])
    BY <1>6, DecimalStep
<1>9. Decimal(g, n + 1) = q * 10 + d
    BY <1>1, <1>5, <1>7, <1>8
<1>10. n + 1 >= 1
    OBVIOUS
<1> QED
    BY <1>1, <1>4, <1>5, <1>6, <1>9, <1>10 DEF Writes

\* What str() writes, int() reads.
LEMMA StrIs ==
    ASSUME NEW n \in Nat
    PROVE  Writes(Str(n), n)
<1> DEFINE F == CHOOSE g : g = [m \in 0..n |-> Written(g, m)]
<1>1. F = [m \in 0..n |-> Written(F, m)]
    BY WrittenExists, Zenon
<1>2. Str(n) = F[n]
    BY DEF Str, Written
<1> HIDE DEF F
<1>3. \A m \in 0..n : F[m] = Written(F, m)
    BY <1>1
<1> DEFINE T == {m \in 0..n : ~Writes(F[m], m)}
<1>4. T = {}
  <2> SUFFICES ASSUME T # {} PROVE FALSE
    OBVIOUS
  <2>1. T \subseteq Nat
    OBVIOUS
  <2>2. PICK m \in T : \A k \in T : m <= k
    <3> HIDE DEF T
    <3> QED
      BY <2>1, LeastOf, Zenon
  <2>3. m \in 0..n /\ m \in Nat /\ m <= n /\ ~Writes(F[m], m)
    OBVIOUS
  <2>4. CASE m < 10
    <3>1. F[m] = <<Digits[m + 1]>>
      BY <1>3, <2>3, <2>4 DEF Written
    <3>2. m \in 0..9
      BY <2>3, <2>4
    <3> QED
      BY <2>3, <3>1, <3>2, WritesOne
  <2>5. CASE ~(m < 10)
    <3>1. PICK q \in Nat, d \in 0..9 : q = m \div 10 /\ d = m % 10 /\ q < m /\ m = q * 10 + d
      BY <2>3, <2>5, LastDigit
    <3>2. F[m] = F[q] \o <<Digits[d + 1]>>
      BY <1>3, <2>3, <2>5, <3>1, Zenon DEF Written
    <3>3. q \in 0..n /\ ~(m <= q)
      BY <2>3, <3>1
    <3>4. Writes(F[q], q)
      BY <2>2, <3>3
    <3>5. Writes(F[q] \o <<Digits[d + 1]>>, q * 10 + d)
      BY <3>4, WritesMore
    <3> QED
      BY <2>3, <3>1, <3>2, <3>5
  <2> QED
    BY <2>4, <2>5
<1>5. n \in 0..n
    OBVIOUS
<1> QED
    BY <1>2, <1>4, <1>5

-----------------------------------------------------------------------------
(***************************************************************************)
(* One response, as the client reads it.                                   *)
(***************************************************************************)

\* The part that has the elements of u is u.
LEMMA PartIs ==
    ASSUME NEW S, NEW s \in Seq(S), NEW a \in Nat, NEW b \in Nat, a <= b, b <= Len(s),
           NEW u \in Seq(S), Len(u) = b - a, \A i \in 1..(b - a) : s[a + i] = u[i]
    PROVE  SubSeq(s, a + 1, b) = u
<1>1. PICK x \in Seq(S) : x = SubSeq(s, a + 1, b)
    BY Part, Zenon
<1>2. Len(x) = b - a /\ \A i \in 1..(b - a) : x[i] = s[a + i]
    BY <1>1, Part
<1>3. Len(x) = Len(u) /\ \A i \in 1..Len(x) : x[i] = u[i]
    BY <1>2
<1>4. x = u
    BY <1>3, SeqEqual, Zenon
<1> QED
    BY <1>1, <1>4

\* z is the a elements of x and then the b elements of y.
Joined(z, x, y, a, b) ==
    /\ Len(z) = a + b
    /\ \A i \in 1..a : z[i] = x[i]
    /\ \A i \in 1..b : z[a + i] = y[i]

\* Two sequences, one after the other.
LEMMA Join ==
    ASSUME NEW S, NEW x \in Seq(S), NEW y \in Seq(S)
    PROVE  x \o y \in Seq(S) /\ Joined(x \o y, x, y, Len(x), Len(y))
<1>1. PICK z \in Seq(S) : z = x \o y
    BY ConcatProperties, Zenon
<1>2. PICK a \in Nat, b \in Nat : a = Len(x) /\ b = Len(y)
    OBVIOUS
<1>3. Len(z) = a + b /\ \A i \in 1..(a + b) : z[i] = IF i <= a THEN x[i] ELSE y[i - a]
    BY <1>1, <1>2, ConcatProperties
<1>4. Joined(z, x, y, a, b)
  <2>1. \A i \in 1..a : i \in 1..(a + b) /\ i <= a
    OBVIOUS
  <2>2. \A i \in 1..b : a + i \in 1..(a + b) /\ ~(a + i <= a) /\ (a + i) - a = i
    OBVIOUS
  <2>3. \A i \in 1..a : z[i] = x[i]
    BY <1>3, <2>1, Zenon
  <2>4. \A i \in 1..b : z[a + i] = y[i]
    BY <1>3, <2>2
  <2> QED
    BY <1>3, <2>3, <2>4, Zenon DEF Joined
<1> QED
    BY <1>1, <1>2, <1>4

\* The character that ends a length or an id.
Blank(c) == c = " "

\* A digit does not.
LEMMA DigitIsNoBlank ==
    ASSUME NEW c, IsDigit(c)
    PROVE  ~Blank(c)
    BY DigitIsNoSpace DEF Blank

\* find(" "): the first space is where everything before it is something else.
LEMMA UptoIs ==
    ASSUME NEW s \in Seq(Symbols), NEW p \in 1..Len(s), Blank(s[p]),
           \A j \in 1..(p - 1) : ~Blank(s[j])
    PROVE  Upto(s) = p
<1>1. DOMAIN s = 1..Len(s)
    OBVIOUS
<1> DEFINE First(i) == Blank(s[i]) /\ \A j \in 1..(i - 1) : ~Blank(s[j])
<1>2. p \in DOMAIN s /\ First(p)
    BY <1>1
<1>3. PICK q : q = CHOOSE i \in DOMAIN s : First(i)
    OBVIOUS
<1>4. q \in DOMAIN s /\ First(q)
    BY <1>2, <1>3, Zenon
<1>5. Upto(s) = q
    BY <1>3, Zenon DEF Upto, Blank
<1>6. q \in Nat /\ p \in Nat /\ 1 <= q /\ 1 <= p
    BY <1>1, <1>4
<1>7. ~(p < q) /\ ~(q < p)
  <2>1. p < q => p \in 1..(q - 1)
    BY <1>6
  <2>2. q < p => q \in 1..(p - 1)
    BY <1>6
  <2> QED
    BY <1>2, <1>4, <2>1, <2>2
<1> QED
    BY <1>5, <1>6, <1>7

\* s begins with a response under id, h characters of length, a space and the n characters
\* that the length counts, and goes on with r.
Framed(s, id, r, h, n) ==
    /\ s \in Seq(Symbols) /\ id \in Seq(Symbols) /\ r \in Seq(Symbols)
    /\ Len(s) = h + 1 + n + Len(r) /\ Len(id) + 1 <= n
    /\ AllDigits(s, h) /\ Decimal(s, h) = n /\ Blank(s[h + 1])
    /\ \A i \in 1..Len(id) : s[h + 1 + i] = id[i] /\ ~Blank(id[i])
    /\ Blank(s[h + 1 + Len(id) + 1])
    /\ \A i \in 1..Len(r) : s[h + 1 + n + i] = r[i]

\* The client takes it from the stream, with its id, and has the rest left.
LEMMA FramedRead ==
    ASSUME NEW s, NEW id, NEW r, NEW h \in Nat, NEW n \in Nat, Framed(s, id, r, h, n)
    PROVE  ReadId(s) = id /\ ReadRest(s) = r
<1>1. s \in Seq(Symbols) /\ id \in Seq(Symbols) /\ r \in Seq(Symbols)
    BY DEF Framed
<1>2. PICK L \in Nat, c \in Nat, e \in Nat : L = Len(s) /\ c = Len(id) /\ e = Len(r)
    BY <1>1
<1>3. L = h + 1 + n + e /\ c + 1 <= n
    BY <1>2 DEF Framed
<1>4. /\ Decimal(s, h) = n /\ Blank(s[h + 1]) /\ Blank(s[h + 1 + c + 1])
      /\ \A i \in 1..c : s[h + 1 + i] = id[i] /\ ~Blank(id[i])
      /\ \A i \in 1..e : s[h + 1 + n + i] = r[i]
    BY <1>2 DEF Framed
<1>5. Upto(s) = h + 1
  <2>1. h + 1 \in 1..Len(s) /\ \A j \in 1..((h + 1) - 1) : j \in 1..h
    BY <1>2, <1>3
  <2>2. \A j \in 1..h : IsDigit(s[j])
    BY DEF Framed, AllDigits
  <2>3. \A j \in 1..((h + 1) - 1) : ~Blank(s[j])
    BY <2>1, <2>2, DigitIsNoBlank, Zenon
  <2> QED
    BY <1>1, <1>4, <2>1, <2>3, UptoIs
<1>6. ReadLength(s) = n
  <2>1. (h + 1) - 1 = h
    OBVIOUS
  <2> QED
    BY <1>4, <1>5, <2>1 DEF ReadLength
<1>7. PICK a \in Nat, b \in Nat : a = h + 1 /\ b = h + 1 + n
    OBVIOUS
<1>8. a <= b /\ b <= L /\ b - a = n /\ L - b = e
    BY <1>3, <1>7
<1>9. PICK m : m = ReadMessage(s)
    OBVIOUS
<1>10. m = SubSeq(s, a + 1, b)
    BY <1>5, <1>6, <1>7, <1>9 DEF ReadMessage
<1>11. m \in Seq(Symbols) /\ Len(m) = n /\ \A i \in 1..n : m[i] = s[a + i]
    BY <1>1, <1>2, <1>8, <1>10, Part
<1>12. /\ Blank(m[c + 1]) /\ \A i \in 1..c : m[i] = id[i] /\ ~Blank(id[i])
  <2>1. c + 1 \in 1..n /\ \A i \in 1..c : i \in 1..n
    BY <1>3
  <2>2. a + (c + 1) = h + 1 + c + 1 /\ \A i \in 1..c : a + i = h + 1 + i
    BY <1>7
  <2> QED
    BY <1>4, <1>11, <2>1, <2>2, SMTT(30)
<1>13. Upto(m) = c + 1
  <2>1. c + 1 \in 1..Len(m) /\ \A j \in 1..((c + 1) - 1) : j \in 1..c
    BY <1>3, <1>11
  <2>2. \A j \in 1..((c + 1) - 1) : ~Blank(m[j])
    BY <1>12, <2>1
  <2> QED
    BY <1>11, <1>12, <2>1, <2>2, UptoIs
<1>14. ReadId(s) = id
  <2>1. ReadId(s) = SubSeq(m, 0 + 1, c)
    <3>1. (c + 1) - 1 = c /\ 0 + 1 = 1
      OBVIOUS
    <3> QED
      BY <1>9, <1>13, <3>1 DEF ReadId
  <2>2. 0 \in Nat /\ 0 <= c /\ c <= Len(m) /\ Len(id) = c - 0
    BY <1>2, <1>3, <1>11
  <2>3. \A i \in 1..(c - 0) : m[0 + i] = id[i]
    BY <1>12
  <2> QED
    BY <1>1, <1>11, <2>1, <2>2, <2>3, PartIs
<1>15. ReadRest(s) = r
  <2>1. ReadRest(s) = SubSeq(s, b + 1, L)
    BY <1>2, <1>5, <1>6, <1>7 DEF ReadRest
  <2>2. \A i \in 1..(L - b) : s[b + i] = r[i]
    BY <1>4, <1>7, <1>8
  <2>3. L <= Len(s) /\ Len(r) = L - b
    BY <1>2, <1>8
  <2> QED
    BY <1>1, <1>8, <2>1, <2>2, <2>3, PartIs
<1> QED
    BY <1>14, <1>15

\* More answers after it change nothing about the first.
LEMMA FramedMore ==
    ASSUME NEW s, NEW id, NEW r, NEW h \in Nat, NEW n \in Nat, Framed(s, id, r, h, n),
           NEW t \in Seq(Symbols)
    PROVE  Framed(s \o t, id, r \o t, h, n)
<1>1. s \in Seq(Symbols) /\ id \in Seq(Symbols) /\ r \in Seq(Symbols)
    BY DEF Framed
<1>2. PICK L \in Nat, c \in Nat, e \in Nat, d \in Nat :
        L = Len(s) /\ c = Len(id) /\ e = Len(r) /\ d = Len(t)
    BY <1>1
<1>3. L = h + 1 + n + e /\ c + 1 <= n
    BY <1>2 DEF Framed
<1>4. PICK x \in Seq(Symbols) : x = s \o t
    BY <1>1, ConcatProperties, Zenon
<1>5. PICK y \in Seq(Symbols) : y = r \o t
    BY <1>1, ConcatProperties, Zenon
<1>6. Len(x) = L + d /\ \A i \in 1..(L + d) : x[i] = IF i <= L THEN s[i] ELSE t[i - L]
    BY <1>1, <1>2, <1>4, ConcatProperties
<1>7. Len(y) = e + d /\ \A i \in 1..(e + d) : y[i] = IF i <= e THEN r[i] ELSE t[i - e]
    BY <1>1, <1>2, <1>5, ConcatProperties
<1>8. \A i \in 1..L : x[i] = s[i]
    BY <1>6
<1>9. /\ AllDigits(s, h) /\ Decimal(s, h) = n /\ Blank(s[h + 1]) /\ Blank(s[h + 1 + c + 1])
      /\ \A i \in 1..c : s[h + 1 + i] = id[i] /\ ~Blank(id[i])
      /\ \A i \in 1..e : s[h + 1 + n + i] = r[i]
    BY <1>2 DEF Framed
<1>10. Len(x) = h + 1 + n + (e + d)
    BY <1>3, <1>6
<1>11. \A i \in 1..h : x[i] = s[i]
    BY <1>3, <1>8
<1>12. AllDigits(x, h)
    BY <1>9, <1>11 DEF AllDigits
<1>13. Decimal(x, h) = n
    BY <1>9, <1>11, DecimalSame
<1>14. Blank(x[h + 1]) /\ Blank(x[h + 1 + c + 1])
    BY <1>3, <1>8, <1>9
<1>15. \A i \in 1..c : x[h + 1 + i] = id[i] /\ ~Blank(id[i])
  <2>1. \A i \in 1..c : h + 1 + i \in 1..L
    BY <1>3
  <2> QED
    BY <1>8, <1>9, <2>1
<1>16. \A i \in 1..(e + d) : x[h + 1 + n + i] = y[i]
  <2> SUFFICES ASSUME NEW i \in 1..(e + d) PROVE x[h + 1 + n + i] = y[i]
    OBVIOUS
  <2>1. PICK j \in 1..(L + d) : j = h + 1 + n + i /\ (j <= L <=> i <= e) /\ j - L = i - e
    BY <1>3
  <2>2. CASE i <= e
    <3>1. x[j] = s[j] /\ y[i] = r[i] /\ i \in 1..e
      BY <1>6, <1>7, <2>1, <2>2, SMTT(30)
    <3> QED
      BY <1>9, <2>1, <3>1
  <2>3. CASE ~(i <= e)
    BY <1>6, <1>7, <2>1, <2>3
  <2> QED
    BY <2>2, <2>3
<1> QED
    BY <1>1, <1>2, <1>3, <1>4, <1>5, <1>7, <1>10, <1>12, <1>13, <1>14, <1>15, <1>16, Zenon
    DEF Framed

\* What send_msg_response sends is such a response, with nothing after it.
LEMMA FrameFramed ==
    ASSUME NEW id \in Seq(Symbols), NEW status \in Symbols, NEW payload \in Seq(Symbols),
           \A i \in 1..Len(id) : ~Blank(id[i])
    PROVE  /\ Frame(id, status, payload) \in Seq(Symbols)
           /\ \E h, n \in Nat : Framed(Frame(id, status, payload), id, <<>>, h, n)
<1>1. PICK c \in Nat, p \in Nat : c = Len(id) /\ p = Len(payload)
    OBVIOUS
<1>2. PICK sp \in Symbols : sp = " " /\ Blank(sp)
    BY Zenon DEF Symbols, Blank
<1>3. PICK x \in Seq(Symbols) : /\ x = <<sp>> \o id /\ Len(x) = c + 1 /\ x[1] = sp
                                /\ \A i \in 1..c : x[1 + i] = id[i]
  <2>1. <<sp>> \in Seq(Symbols) /\ Len(<<sp>>) = 1 /\ <<sp>>[1] = sp
    OBVIOUS
  <2>2. PICK y \in Seq(Symbols) : y = <<sp>> \o id /\ Joined(y, <<sp>>, id, 1, c)
    BY <1>1, <2>1, Join, Zenon
  <2>3. Len(y) = 1 + c /\ y[1] = <<sp>>[1] /\ \A i \in 1..c : y[1 + i] = id[i]
    BY <2>2 DEF Joined
  <2>4. y[1] = sp /\ Len(y) = c + 1
    BY <2>1, <2>3
  <2> QED
    BY <2>2, <2>3, <2>4, Zenon
<1>4. PICK u \in Seq(Symbols) : u = <<sp, status>> /\ Len(u) = 2 /\ u[1] = sp
  <2>1. <<sp, status>> \in Seq(Symbols) /\ Len(<<sp, status>>) = 2 /\ <<sp, status>>[1] = sp
    OBVIOUS
  <2> QED
    BY <2>1, Zenon
<1>5. PICK y \in Seq(Symbols) : y = x \o u /\ Joined(y, x, u, c + 1, 2)
    BY <1>3, <1>4, Join, Zenon
<1>6. /\ Len(y) = c + 3 /\ y[c + 2] = sp
      /\ \A i \in 1..(c + 1) : y[i] = x[i]
  <2>1. /\ Len(y) = (c + 1) + 2 /\ y[(c + 1) + 1] = u[1]
        /\ \A i \in 1..(c + 1) : y[i] = x[i]
    BY <1>5, SMTT(30) DEF Joined
  <2>2. (c + 1) + 2 = c + 3 /\ (c + 1) + 1 = c + 2
    OBVIOUS
  <2> QED
    BY <1>4, <2>1, <2>2, Zenon
<1>7. PICK b \in Seq(Symbols) : b = y \o payload /\ Joined(b, y, payload, c + 3, p)
    BY <1>1, <1>6, Join, Zenon
<1>8. Len(b) = c + 3 + p /\ \A i \in 1..(c + 3) : b[i] = y[i]
    BY <1>7 DEF Joined
<1>9. PICK n \in Nat : n = c + 2 + p
    OBVIOUS
<1>10. Len(b) = n + 1 /\ Len(b) - 1 = n
    BY <1>8, <1>9
<1>11. /\ Blank(b[1]) /\ Blank(b[c + 2])
       /\ \A i \in 1..c : b[1 + i] = id[i]
  <2>1. b[1] = sp
    BY <1>3, <1>6, <1>8
  <2>2. b[c + 2] = sp
    BY <1>6, <1>8
  <2>3. \A i \in 1..c : b[1 + i] = id[i]
    BY <1>3, <1>6, <1>8
  <2> QED
    BY <1>2, <2>1, <2>2, <2>3, Zenon
<1>12. PICK w : w = Str(n) /\ Writes(w, n)
    BY StrIs
<1>13. w \in Seq(Symbols) /\ AllDigits(w, Len(w)) /\ Decimal(w, Len(w)) = n
    BY <1>12 DEF Writes
<1>14. PICK h \in Nat : h = Len(w)
    BY <1>13
<1>15. PICK f \in Seq(Symbols) : f = w \o b /\ Joined(f, w, b, h, n + 1)
    BY <1>10, <1>13, <1>14, Join, Zenon
<1>16. Frame(id, status, payload) = f
    BY <1>2, <1>3, <1>4, <1>5, <1>7, <1>10, <1>12, <1>15, Zenon DEF Frame
<1>17. Len(f) = h + (n + 1)
    BY <1>15 DEF Joined
<1>18. \A i \in 1..h : f[i] = w[i]
    BY <1>15 DEF Joined
<1>19. \A i \in 1..(n + 1) : f[h + i] = b[i]
    BY <1>15 DEF Joined
<1>20. AllDigits(f, h)
    BY <1>13, <1>14, <1>18 DEF AllDigits
<1>21. Decimal(f, h) = n
  <2>1. Decimal(f, h) = Decimal(w, h)
    BY <1>18, DecimalSame
  <2> QED
    BY <1>13, <1>14, <2>1
<1>22. Blank(f[h + 1]) /\ Blank(f[h + 1 + c + 1])
  <2>1. 1 \in 1..(n + 1) /\ c + 2 \in 1..(n + 1) /\ h + (c + 2) = h + 1 + c + 1
    BY <1>9
  <2> QED
    BY <1>11, <1>19, <2>1
<1>23. \A i \in 1..c : f[h + 1 + i] = id[i] /\ ~Blank(id[i])
  <2>1. \A i \in 1..c : 1 + i \in 1..(n + 1) /\ h + (1 + i) = h + 1 + i
    BY <1>9
  <2> QED
    BY <1>1, <1>11, <1>19, <2>1
<1>24. <<>> \in Seq(Symbols) /\ Len(<<>>) = 0 /\ c + 1 <= n /\ Len(f) = h + 1 + n + 0
    BY <1>9, <1>17
<1>25. \A i \in 1..0 : f[h + 1 + n + i] = <<>>[i]
    OBVIOUS
<1>26. Framed(f, id, <<>>, h, n)
    BY <1>1, <1>20, <1>21, <1>22, <1>23, <1>24, <1>25, Zenon DEF Framed
<1> QED
    BY <1>16, <1>26

-----------------------------------------------------------------------------
(***************************************************************************)
(* Responses one after another, as the client reads them.                  *)
(***************************************************************************)

\* y is the n elements of x and then e.
Grown(y, x, e, n) == Len(y) = n + 1 /\ y[n + 1] = e /\ \A i \in 1..n : y[i] = x[i]

\* A sequence with one element more.
LEMMA Grows ==
    ASSUME NEW S, NEW x \in Seq(S), NEW e \in S
    PROVE  Append(x, e) \in Seq(S) /\ Grown(Append(x, e), x, e, Len(x))
    BY DEF Grown

\* s begins with a response under id and goes on with r.
Goes(s, id, r) == \E h, n \in Nat : Framed(s, id, r, h, n)

\* The client's way through s, which is n responses: what it has left after each, and
\* nothing after the last.
Walk(s, ids, n, w) ==
    /\ n \in Nat /\ ids \in Seq(Seq(Symbols)) /\ Len(ids) = n
    /\ w \in [0..n -> Seq(Symbols)] /\ w[0] = s /\ w[n] = <<>>
    /\ \A k \in 1..n : Goes(w[k - 1], ids[k], w[k])

\* No response, to begin with.
LEMMA WalkNone == \E w : Walk(<<>>, <<>>, 0, w)
<1>1. PICK w : w = [k \in 0..0 |-> <<>>]
    OBVIOUS
<1>2. w \in [0..0 -> Seq(Symbols)] /\ w[0] = <<>>
  <2>1. <<>> \in Seq(Symbols)
    OBVIOUS
  <2> QED
    BY <1>1, <2>1
<1>3. 0 \in Nat /\ <<>> \in Seq(Seq(Symbols)) /\ Len(<<>>) = 0
    OBVIOUS
<1>4. \A k \in 1..0 : Goes(w[k - 1], <<>>[k], w[k])
  <2>1. 1..0 = {}
    OBVIOUS
  <2> QED
    BY <2>1, Zenon
<1>5. Walk(<<>>, <<>>, 0, w)
    BY <1>2, <1>3, <1>4, Zenon DEF Walk
<1> QED
    BY <1>5

\* One response more.
LEMMA WalkMore ==
    ASSUME NEW s, NEW ids, NEW n, NEW w, Walk(s, ids, n, w),
           NEW f \in Seq(Symbols), NEW id \in Seq(Symbols), Goes(f, id, <<>>)
    PROVE  \E v : Walk(s \o f, Append(ids, id), n + 1, v)
<1>1. /\ n \in Nat /\ ids \in Seq(Seq(Symbols)) /\ Len(ids) = n
      /\ w \in [0..n -> Seq(Symbols)] /\ w[0] = s /\ w[n] = <<>>
    BY DEF Walk
<1>2. \A k \in 1..n : Goes(w[k - 1], ids[k], w[k])
    BY DEF Walk
<1>3. \A k \in 0..n : w[k] \o f \in Seq(Symbols)
    BY <1>1, ConcatProperties
<1>4. PICK v : v = [k \in 0..(n + 1) |-> IF k = n + 1 THEN <<>> ELSE w[k] \o f]
    OBVIOUS
<1>5. v[n + 1] = <<>> /\ \A k \in 0..n : v[k] = w[k] \o f
  <2>1. n + 1 \in 0..(n + 1) /\ \A k \in 0..n : k \in 0..(n + 1) /\ k # n + 1
    BY <1>1
  <2> QED
    BY <1>4, <2>1, Zenon
<1>6. v \in [0..(n + 1) -> Seq(Symbols)]
  <2>1. \A k \in 0..(n + 1) : k = n + 1 \/ k \in 0..n
    BY <1>1
  <2>2. <<>> \in Seq(Symbols)
    OBVIOUS
  <2> QED
    BY <1>3, <1>4, <2>1, <2>2
<1>7. PICK j \in Seq(Seq(Symbols)) : j = Append(ids, id) /\ Grown(j, ids, id, n)
    BY <1>1, Grows, Zenon
<1>8. Len(j) = n + 1 /\ j[n + 1] = id /\ \A k \in 1..n : j[k] = ids[k]
    BY <1>7 DEF Grown
<1>9. \A k \in 1..n : Goes(v[k - 1], j[k], v[k])
  <2> SUFFICES ASSUME NEW k \in 1..n PROVE Goes(v[k - 1], j[k], v[k])
    OBVIOUS
  <2>1. k \in 0..n /\ k - 1 \in 0..n
    BY <1>1
  <2>2. PICK h \in Nat, m \in Nat : Framed(w[k - 1], ids[k], w[k], h, m)
    BY <1>2, Zenon DEF Goes
  <2>3. Framed(w[k - 1] \o f, ids[k], w[k] \o f, h, m)
    BY <2>2, FramedMore, Zenon
  <2> QED
    BY <1>5, <1>8, <2>1, <2>3, Zenon DEF Goes
<1>10. Goes(v[(n + 1) - 1], j[n + 1], v[n + 1])
  <2>1. (n + 1) - 1 = n /\ n \in 0..n
    BY <1>1
  <2>2. v[n] = f
    BY <1>1, <1>5, <2>1, ConcatEmptySeq, Zenon
  <2> QED
    BY <1>5, <1>8, <2>1, <2>2, Zenon
<1>11. \A k \in 1..(n + 1) : Goes(v[k - 1], j[k], v[k])
  <2>1. \A k \in 1..(n + 1) : k \in 1..n \/ k = n + 1
    BY <1>1
  <2> QED
    BY <1>9, <1>10, <2>1, Zenon
<1>12. v[0] = s \o f /\ n + 1 \in Nat
  <2>1. 0 \in 0..n
    BY <1>1
  <2>2. n + 1 \in Nat
    BY <1>1
  <2> QED
    BY <1>1, <1>5, <2>1, <2>2, Zenon
<1>13. Walk(s \o f, j, n + 1, v)
    BY <1>5, <1>6, <1>8, <1>11, <1>12, Zenon DEF Walk
<1> QED
    BY <1>7, <1>13

\* check() once: the id goes to the ids read, and the rest is left.
Reads1(g) == [ids |-> Append(g.ids, ReadId(g.rest)), rest |-> ReadRest(g.rest)]

\* The client reads the ids on its way.
LEMMA WalkReads ==
    ASSUME NEW ids, NEW n, NEW w, Walk(out, ids, n, w)
    PROVE  ReadBack(n) = [ids |-> ids, rest |-> <<>>]
<1>1. /\ n \in Nat /\ ids \in Seq(Seq(Symbols)) /\ Len(ids) = n
      /\ w[0] = out /\ w[n] = <<>>
    BY DEF Walk
<1>2. \A k \in 1..n : ReadId(w[k - 1]) = ids[k] /\ ReadRest(w[k - 1]) = w[k]
    BY FramedRead, Zenon DEF Walk, Goes
<1>3. PICK g : g = [k \in 0..n |-> [ids |-> SubSeq(ids, 1, k), rest |-> w[k]]]
    OBVIOUS
<1>4. \A k \in 0..n : g[k] = [ids |-> SubSeq(ids, 1, k), rest |-> w[k]]
    BY <1>3
<1>5. \A k \in 1..n : g[k] = Reads1(g[k - 1])
  <2> SUFFICES ASSUME NEW k \in 1..n PROVE g[k] = Reads1(g[k - 1])
    OBVIOUS
  <2>1. k \in Nat /\ k \in 0..n /\ k - 1 \in 0..n /\ k - 1 \in Nat /\ k <= n
    BY <1>1
  <2>2. PICK x \in Seq(Seq(Symbols)) :
          x = SubSeq(ids, 1, k - 1) /\ Len(x) = k - 1 /\ \A i \in 1..(k - 1) : x[i] = ids[i]
    <3>1. 0 \in Nat /\ 0 <= k - 1 /\ k - 1 <= Len(ids) /\ 0 + 1 = 1 /\ (k - 1) - 0 = k - 1
          /\ \A i \in 1..(k - 1) : 0 + i = i
      BY <1>1, <2>1
    <3>2. PICK x : x = SubSeq(ids, 0 + 1, k - 1)
      OBVIOUS
    <3>3. x \in Seq(Seq(Symbols)) /\ Len(x) = (k - 1) - 0
          /\ \A i \in 1..((k - 1) - 0) : x[i] = ids[0 + i]
      BY <1>1, <2>1, <3>1, <3>2, Part
    <3> QED
      BY <3>1, <3>2, <3>3
  <2>3. PICK y \in Seq(Seq(Symbols)) : y = Append(x, ids[k]) /\ Grown(y, x, ids[k], k - 1)
    <3>1. ids[k] \in Seq(Symbols)
      <4>1. k \in 1..Len(ids)
        BY <1>1
      <4> QED
        BY <1>1, <4>1, ElementOfSeq, Zenon
    <3> QED
      BY <2>2, <3>1, Grows, Zenon
  <2>4. Len(y) = k /\ \A i \in 1..k : y[i] = ids[i]
    <3>1. /\ Len(y) = (k - 1) + 1 /\ y[(k - 1) + 1] = ids[k]
          /\ \A i \in 1..(k - 1) : y[i] = x[i]
      BY <2>3 DEF Grown
    <3>2. (k - 1) + 1 = k /\ \A i \in 1..k : i \in 1..(k - 1) \/ i = k
      BY <2>1
    <3> QED
      BY <2>2, <3>1, <3>2, Zenon
  <2>5. SubSeq(ids, 1, k) = y
    <3>1. 0 \in Nat /\ 0 <= k /\ k <= Len(ids) /\ Len(y) = k - 0
      BY <1>1, <2>1, <2>4
    <3>2. \A i \in 1..(k - 0) : ids[0 + i] = y[i]
      BY <2>1, <2>4
    <3>3. SubSeq(ids, 0 + 1, k) = y
      BY <1>1, <2>1, <3>1, <3>2, PartIs
    <3>4. 0 + 1 = 1
      OBVIOUS
    <3> QED
      BY <3>3, <3>4
  <2>6. g[k - 1].ids = x /\ g[k - 1].rest = w[k - 1]
    <3>1. g[k - 1] = [ids |-> x, rest |-> w[k - 1]]
      BY <1>4, <2>1, <2>2, Zenon
    <3> QED
      BY <3>1
  <2>7. Reads1(g[k - 1]) = [ids |-> y, rest |-> w[k]]
    BY <1>2, <2>3, <2>6 DEF Reads1
  <2>8. g[k] = [ids |-> y, rest |-> w[k]]
    BY <1>4, <2>1, <2>5
  <2> QED
    BY <2>7, <2>8
<1>6. g[0] = [ids |-> <<>>, rest |-> out]
  <2>1. SubSeq(ids, 1, 0) = <<>>
    <3>1. 1 \in Int /\ 0 \in Int /\ 0 < 1
      OBVIOUS
    <3> QED
      BY <3>1, SubSeqEmpty
  <2>2. 0 \in 0..n
    BY <1>1
  <2> QED
    BY <1>1, <1>4, <2>1, <2>2
<1> DEFINE Base == [ids |-> <<>>, rest |-> out]
           F == CHOOSE f : f = [k \in 0..n |-> IF k = 0 THEN Base ELSE Reads1(f[k - 1])]
<1>7. ReadBack(n) = F[n]
    BY DEF ReadBack, Reads1
<1>8. g = [k \in 0..n |-> IF k = 0 THEN Base ELSE Reads1(g[k - 1])]
  <2>1. PICK z : z = Base /\ g[0] = z
    BY <1>6
  <2>2. \A k \in 0..n : g[k] = IF k = 0 THEN z ELSE Reads1(g[k - 1])
    <3>1. \A k \in 0..n : k # 0 => k \in 1..n
      BY <1>1
    <3> QED
      BY <1>5, <2>1, <3>1
  <2>3. g = [k \in 0..n |-> g[k]]
    BY <1>3
  <2> QED
    BY <2>1, <2>2, <2>3
<1>9. F = [k \in 0..n |-> IF k = 0 THEN Base ELSE Reads1(F[k - 1])]
    BY <1>8, Zenon
<1> HIDE DEF F, Base
<1> DEFINE T == {k \in Nat : k <= n => F[k] = g[k]}
<1>10. 0 \in T
  <2>1. 0 \in 0..n
    BY <1>1
  <2>2. F[0] = Base /\ g[0] = Base
    BY <1>8, <1>9, <2>1
  <2> QED
    BY <2>2
<1>11. ASSUME NEW k \in Nat, k \in T PROVE k + 1 \in T
  <2> SUFFICES ASSUME k + 1 <= n PROVE F[k + 1] = g[k + 1]
    OBVIOUS
  <2>1. k + 1 \in 0..n /\ k + 1 # 0 /\ (k + 1) - 1 = k /\ F[k] = g[k]
    BY <1>1, <1>11
  <2>2. F[k + 1] = Reads1(F[(k + 1) - 1])
    BY <1>9, <2>1
  <2>3. g[k + 1] = Reads1(g[(k + 1) - 1])
    BY <1>8, <2>1
  <2> QED
    BY <2>1, <2>2, <2>3
<1>12. \A k \in Nat : k \in T
  <2> HIDE DEF T
  <2> QED
    BY <1>10, <1>11, SetInduction, Zenon
<1>13. F[n] = g[n]
    BY <1>1, <1>12
<1>14. g[n] = [ids |-> ids, rest |-> <<>>]
  <2>1. n \in 0..n
    BY <1>1
  <2>2. SubSeq(ids, 1, n) = ids
    BY <1>1, SubSeqFull
  <2> QED
    BY <1>1, <1>4, <2>1, <2>2
<1> QED
    BY <1>7, <1>13, <1>14

-----------------------------------------------------------------------------
(***************************************************************************)
(* The ids of the messages that are answered at once.                      *)
(***************************************************************************)

\* The ids v and, if it is answered at once, that of entry e.
AddId(v, e) == IF e.what \in {"version", "error"} THEN Append(v, e.id) ELSE v

\* f is the function that AnsweredIds defines on the first n entries of l.
IsIds(f, l, n) == f = [k \in 0..n |-> IF k = 0 THEN <<>> ELSE AddId(f[k - 1], l[k])]

\* It exists.
LEMMA IdsExist ==
    ASSUME NEW l, NEW n \in Nat
    PROVE  \E f : IsIds(f, l, n)
<1> DEFINE T == {k \in Nat : \E f : IsIds(f, l, k)}
<1>1. 0 \in T
  <2>1. PICK f : f = [k \in 0..0 |-> <<>>]
    OBVIOUS
  <2>2. \A k \in 0..0 : k = 0
    OBVIOUS
  <2>3. f = [k \in 0..0 |-> IF k = 0 THEN <<>> ELSE AddId(f[k - 1], l[k])]
    BY <2>1, <2>2
  <2> QED
    BY <2>3 DEF IsIds
<1>2. ASSUME NEW k \in Nat, k \in T PROVE k + 1 \in T
  <2>1. PICK f : IsIds(f, l, k)
    BY <1>2
  <2>2. PICK g : g = [i \in 0..(k + 1) |-> IF i = 0 THEN <<>> ELSE AddId(f[i - 1], l[i])]
    OBVIOUS
  <2>3. \A i \in 0..k : g[i] = f[i]
    <3>1. \A i \in 0..k : i \in 0..(k + 1)
      OBVIOUS
    <3>2. \A i \in 0..k : f[i] = IF i = 0 THEN <<>> ELSE AddId(f[i - 1], l[i])
      BY <2>1, Zenon DEF IsIds
    <3>3. \A i \in 0..(k + 1) : g[i] = IF i = 0 THEN <<>> ELSE AddId(f[i - 1], l[i])
      BY <2>2, Zenon
    <3> QED
      BY <3>1, <3>2, <3>3, Zenon
  <2>4. \A i \in 0..(k + 1) : i # 0 => i - 1 \in 0..k
    OBVIOUS
  <2>5. \A i \in 0..(k + 1) : i # 0 => g[i - 1] = f[i - 1]
    BY <2>3, <2>4, Zenon
  <2>6. g = [i \in 0..(k + 1) |-> IF i = 0 THEN <<>> ELSE AddId(g[i - 1], l[i])]
    BY <2>2, <2>5, Zenon
  <2> QED
    BY <2>6 DEF IsIds
<1>3. \A k \in Nat : k \in T
  <2> HIDE DEF T
  <2> QED
    BY <1>1, <1>2, SetInduction, Zenon
<1> QED
    BY <1>3

\* AnsweredIds is its last value.
LEMMA IdsAre ==
    ASSUME NEW l, NEW n \in Nat
    PROVE  \E f : IsIds(f, l, n) /\ AnsweredIds(l, n) = f[n]
<1> DEFINE F == CHOOSE f : f = [k \in 0..n |-> IF k = 0 THEN <<>> ELSE AddId(f[k - 1], l[k])]
<1>1. F = [k \in 0..n |-> IF k = 0 THEN <<>> ELSE AddId(F[k - 1], l[k])]
    BY IdsExist, Zenon DEF IsIds
<1>2. AnsweredIds(l, n) = F[n]
    BY DEF AnsweredIds, AddId
<1>3. IsIds(F, l, n)
    BY <1>1 DEF IsIds
<1> QED
    BY <1>2, <1>3, Zenon

\* Two logs that begin alike have the same ids as far as they do.
LEMMA IdsAgree ==
    ASSUME NEW f, NEW l, NEW n \in Nat, IsIds(f, l, n),
           NEW g, NEW m, NEW p \in Nat, IsIds(g, m, p),
           n <= p, \A i \in 1..n : l[i] = m[i]
    PROVE  \A k \in 0..n : f[k] = g[k]
<1> DEFINE T == {k \in Nat : k <= n => f[k] = g[k]}
<1>1. /\ \A i \in 0..n : f[i] = IF i = 0 THEN <<>> ELSE AddId(f[i - 1], l[i])
      /\ \A i \in 0..p : g[i] = IF i = 0 THEN <<>> ELSE AddId(g[i - 1], m[i])
    BY Zenon DEF IsIds
<1>2. 0 \in T
  <2>1. 0 \in 0..n /\ 0 \in 0..p
    OBVIOUS
  <2>2. f[0] = <<>> /\ g[0] = <<>>
    BY <1>1, <2>1, Zenon
  <2> QED
    BY <2>2
<1>3. ASSUME NEW k \in Nat, k \in T PROVE k + 1 \in T
  <2> SUFFICES ASSUME k + 1 <= n PROVE f[k + 1] = g[k + 1]
    OBVIOUS
  <2>1. /\ k + 1 \in 0..n /\ k + 1 \in 0..p /\ k + 1 \in 1..n /\ k + 1 # 0 /\ (k + 1) - 1 = k
        /\ f[k] = g[k]
    BY <1>3
  <2>2. f[k + 1] = AddId(f[k], l[k + 1]) /\ g[k + 1] = AddId(g[k], m[k + 1])
    BY <1>1, <2>1, Zenon
  <2>3. l[k + 1] = m[k + 1]
    BY <2>1
  <2> QED
    BY <2>1, <2>2, <2>3, Zenon
<1>4. \A k \in Nat : k \in T
  <2> HIDE DEF T
  <2> QED
    BY <1>2, <1>3, SetInduction, Zenon
<1> QED
    BY <1>4

\* No message, no id.
LEMMA IdsZero ==
    ASSUME NEW l
    PROVE  AnsweredIds(l, 0) = <<>>
<1>1. 0 \in Nat /\ 0 \in 0..0
    OBVIOUS
<1>2. PICK f : IsIds(f, l, 0) /\ AnsweredIds(l, 0) = f[0]
    BY <1>1, IdsAre, Zenon
<1> QED
    BY <1>1, <1>2, Zenon DEF IsIds

\* One message more.
LEMMA IdsMore ==
    ASSUME NEW l \in Seq(Entries), NEW e \in Entries
    PROVE  AnsweredIds(Append(l, e), Len(Append(l, e))) = AddId(AnsweredIds(l, Len(l)), e)
<1>1. PICK m \in Seq(Entries) : m = Append(l, e) /\ Grown(m, l, e, Len(l))
    BY Grows, Zenon
<1>2. PICK n \in Nat : n = Len(l)
    OBVIOUS
<1>3. Len(m) = n + 1 /\ m[n + 1] = e /\ \A i \in 1..n : m[i] = l[i]
    BY <1>1, <1>2, Zenon DEF Grown
<1>4. PICK p \in Nat : p = n + 1 /\ n <= p /\ n \in 0..n /\ p \in 0..p /\ p # 0 /\ p - 1 = n
    OBVIOUS
<1>5. PICK f : IsIds(f, l, n) /\ AnsweredIds(l, n) = f[n]
    BY IdsAre, Zenon
<1>6. PICK g : IsIds(g, m, p) /\ AnsweredIds(m, p) = g[p]
    BY IdsAre, Zenon
<1>7. f[n] = g[n]
  <2>1. \A i \in 1..n : l[i] = m[i]
    BY <1>3, Zenon
  <2>2. \A k \in 0..n : f[k] = g[k]
    BY <1>4, <1>5, <1>6, <2>1, IdsAgree
  <2> QED
    BY <1>4, <2>2, Zenon
<1>8. g[p] = AddId(g[p - 1], m[p])
    BY <1>4, <1>6, Zenon DEF IsIds
<1> QED
    BY <1>1, <1>2, <1>3, <1>4, <1>5, <1>6, <1>7, <1>8, Zenon

-----------------------------------------------------------------------------
(***************************************************************************)
(* The invariant and the theorem.                                          *)
(***************************************************************************)

\* No protocol error was found so far.
NoFatal(l) == \A k \in DOMAIN l : l[k].what # "fatal"

\* While there is none, the client has a way through the answers o to the messages of log l.
Answered(l, o) ==
    NoFatal(l) => \E n, w : Walk(o, AnsweredIds(l, Len(l)), n, w)

\* The inductive invariant behind AnswersReadBack.
AnswerInv == Answered(log, out)

\* A message that is not refused has an id without a space.
LEMMA RoutedId ==
    ASSUME buf \in Seq(STRING), NEW p \in Nat, NEW n \in Nat, p + n <= Size,
           Routed(p, n).what # "fatal"
    PROVE  \A k \in 1..Len(Routed(p, n).id) : ~Blank(Routed(p, n).id[k])
<1>0. Size = Len(buf) /\ Size \in Nat
    BY DEF Size
<1>1. PICK i : i = Find({" "}, p)
    OBVIOUS
<1>2. PICK j : j = Find({" "}, i + 1)
    OBVIOUS
<1>3. ~(Beyond(i, p + n) \/ Beyond(j, p + n))
  <2> SUFFICES ASSUME Beyond(i, p + n) \/ Beyond(j, p + n) PROVE FALSE
    OBVIOUS
  <2>1. Routed(p, n) = [what |-> "fatal", id |-> <<>>, payload |-> <<>>, at |-> base + p]
    BY <1>1, <1>2 DEF Routed
  <2> QED
    BY <2>1
<1>4. Routed(p, n) = [what |-> Destination(SubSeq(buf, i + 2, j)), id |-> SubSeq(buf, p + 1, i),
                      payload |-> SubSeq(buf, j + 2, p + n), at |-> base + p]
    BY <1>1, <1>2, <1>3 DEF Routed
<1>5. i # -1
    BY <1>3 DEF Beyond
<1>6. i \in p..(Size - 1) /\ \A q \in p..(i - 1) : At(q) \notin {" "}
    BY <1>1, <1>5, FindIs
<1>7. i \in Nat /\ p <= i /\ i <= Len(buf)
  <2>1. i \in p..(Size - 1)
    BY <1>6, Zenon
  <2> QED
    BY <1>0, <2>1
<1>8. PICK u \in Seq(STRING) : /\ u = SubSeq(buf, p + 1, i) /\ Len(u) = i - p
                               /\ \A k \in 1..(i - p) : u[k] = buf[p + k]
    BY <1>7, Cut
<1>9. \A q \in p..(i - 1) : ~Blank(At(q))
    BY <1>6, Zenon DEF Blank
<1>10. \A k \in 1..(i - p) : ~Blank(u[k])
  <2> SUFFICES ASSUME NEW k \in 1..(i - p) PROVE ~Blank(u[k])
    OBVIOUS
  <2>1. PICK q \in p..(i - 1) : q + 1 = p + k
    <3>1. p + k - 1 \in p..(i - 1) /\ (p + k - 1) + 1 = p + k
      BY <1>7
    <3> QED
      BY <3>1
  <2>2. u[k] = At(q)
    BY <1>8, <2>1 DEF At
  <2> QED
    BY <1>9, <2>2
<1>11. Routed(p, n).id = u
    BY <1>4, <1>8, SMTT(30)
<1> QED
    BY <1>8, <1>10, <1>11, Zenon

\* Text is text.
LEMMA TextType ==
    ASSUME NEW n \in Nat
    PROVE  Text(n) \in Seq(Symbols)
<1>1. PICK t \in Symbols : t = "t"
    BY Zenon DEF Symbols
<1>2. [i \in 1..n |-> t] \in Seq(Symbols)
    OBVIOUS
<1> QED
    BY <1>1, <1>2, Zenon DEF Text

\* The answer to a message that was not refused: a response under its id, or none yet.
LEMMA AnswerIs ==
    ASSUME NEW r \in Entries, r.what # "fatal", \A k \in 1..Len(r.id) : ~Blank(r.id[k])
    PROVE  \/ /\ r.what \in {"version", "error"} /\ r.id \in Seq(Symbols)
              /\ Answer(r) \in Seq(Symbols) /\ Goes(Answer(r), r.id, <<>>)
           \/ r.what \notin {"version", "error"} /\ Answer(r) = <<>>
<1>1. r.id \in Seq(STRING) /\ r.what \in {"version", "search", "indexer", "error", "fatal"}
    BY DEF Entries
<1>2. r.id \in Seq(Symbols)
  <2>1. STRING \subseteq Symbols
    BY Zenon DEF Symbols
  <2> QED
    BY <1>1, <2>1, SeqMonotonic, Zenon
<1>3. ASSUME NEW st \in Symbols, NEW n \in Nat, Answer(r) = Frame(r.id, st, Text(n))
      PROVE  Answer(r) \in Seq(Symbols) /\ Goes(Answer(r), r.id, <<>>)
  <2>1. Text(n) \in Seq(Symbols)
    BY TextType, Zenon
  <2>2. PICK x : x = Frame(r.id, st, Text(n))
    OBVIOUS
  <2>3. x \in Seq(Symbols) /\ \E h, m \in Nat : Framed(x, r.id, <<>>, h, m)
    BY <1>2, <2>1, <2>2, FrameFramed
  <2> QED
    BY <1>3, <2>2, <2>3, Zenon DEF Goes
<1>4. VersionSize \in Nat /\ JsonSize \in Nat
    BY DispatcherAssumption
<1>5. CASE r.what = "version"
  <2>1. Answer(r) = Frame(r.id, "S", Text(VersionSize))
    BY <1>5 DEF Answer
  <2>2. PICK st \in Symbols : st = "S"
    BY Zenon DEF Symbols
  <2>3. Answer(r) \in Seq(Symbols) /\ Goes(Answer(r), r.id, <<>>)
    BY <1>3, <1>4, <2>1, <2>2, Zenon
  <2> QED
    BY <1>2, <1>5, <2>3, Zenon
<1>6. CASE r.what = "error"
  <2>1. Answer(r) = Frame(r.id, "E", Text(JsonSize))
    BY <1>6 DEF Answer
  <2>2. PICK st \in Symbols : st = "E"
    BY Zenon DEF Symbols
  <2>3. Answer(r) \in Seq(Symbols) /\ Goes(Answer(r), r.id, <<>>)
    BY <1>3, <1>4, <2>1, <2>2, Zenon
  <2> QED
    BY <1>2, <1>6, <2>3, Zenon
<1>7. CASE r.what \in {"search", "indexer"}
  <2>1. r.what \notin {"version", "error"}
    BY <1>7
  <2>2. Answer(r) = <<>>
    BY <1>7 DEF Answer
  <2> QED
    BY <2>1, <2>2, Zenon
<1> QED
    BY <1>1, <1>5, <1>6, <1>7

\* Nothing is answered to begin with.
LEMMA AnswerInit ==
    ASSUME Init
    PROVE  AnswerInv
<1>1. log = <<>> /\ Len(log) = 0 /\ out = <<>>
    BY DEF Init
<1>2. AnsweredIds(log, Len(log)) = <<>>
    BY <1>1, IdsZero
<1> QED
    BY <1>1, <1>2, WalkNone, Zenon DEF AnswerInv, Answered

\* A message more in the log, and its answer.
LEMMA AnswerMore ==
    ASSUME NEW l \in Seq(Entries), NEW o, Answered(l, o), NEW r \in Entries,
           r.what # "fatal" => \A k \in 1..Len(r.id) : ~Blank(r.id[k])
    PROVE  Answered(Append(l, r), o \o Answer(r))
<1>1. PICK m \in Seq(Entries) : m = Append(l, r) /\ Grown(m, l, r, Len(l))
    BY Grows, Zenon
<1> SUFFICES ASSUME NoFatal(m)
             PROVE  \E n, w : Walk(o \o Answer(r), AnsweredIds(m, Len(m)), n, w)
    BY <1>1, Zenon DEF Answered
<1>2. PICK z \in Nat : z = Len(l)
    OBVIOUS
<1>3. Len(m) = z + 1 /\ m[z + 1] = r /\ \A i \in 1..z : m[i] = l[i]
    BY <1>1, <1>2, Zenon DEF Grown
<1>4. NoFatal(l) /\ r.what # "fatal"
  <2>1. DOMAIN m = 1..(z + 1) /\ DOMAIN l = 1..z
    BY <1>2, <1>3
  <2>2. z + 1 \in 1..(z + 1) /\ \A i \in 1..z : i \in 1..(z + 1)
    OBVIOUS
  <2> QED
    BY <1>3, <2>1, <2>2, Zenon DEF NoFatal
<1>5. PICK ids : ids = AnsweredIds(l, Len(l))
    OBVIOUS
<1>6. PICK n, w : Walk(o, ids, n, w)
    BY <1>4, <1>5, Zenon DEF Answered
<1>7. AnsweredIds(m, Len(m)) = AddId(ids, r)
    BY <1>1, <1>5, IdsMore, Zenon
<1>8. \/ /\ r.what \in {"version", "error"} /\ r.id \in Seq(Symbols)
         /\ Answer(r) \in Seq(Symbols) /\ Goes(Answer(r), r.id, <<>>)
      \/ r.what \notin {"version", "error"} /\ Answer(r) = <<>>
    BY <1>4, AnswerIs
<1>9. CASE /\ r.what \in {"version", "error"} /\ r.id \in Seq(Symbols)
           /\ Answer(r) \in Seq(Symbols) /\ Goes(Answer(r), r.id, <<>>)
  <2>1. \E v : Walk(o \o Answer(r), Append(ids, r.id), n + 1, v)
    BY <1>6, <1>9, WalkMore, Zenon
  <2>2. AddId(ids, r) = Append(ids, r.id)
    BY <1>9, Zenon DEF AddId
  <2> QED
    BY <1>7, <2>1, <2>2, Zenon
<1>10. CASE r.what \notin {"version", "error"} /\ Answer(r) = <<>>
  <2>1. AddId(ids, r) = ids
    BY <1>10, Zenon DEF AddId
  <2>2. o \in Seq(Symbols)
    <3>1. n \in Nat /\ w \in [0..n -> Seq(Symbols)] /\ w[0] = o
      BY <1>6, Zenon DEF Walk
    <3>2. 0 \in 0..n
      BY <3>1
    <3> QED
      BY <3>1, <3>2
  <2>3. o \o Answer(r) = o
    BY <1>10, <2>2, ConcatEmptySeq, Zenon
  <2> QED
    BY <1>6, <1>7, <2>1, <2>3, Zenon
<1> QED
    BY <1>8, <1>9, <1>10

\* Every step keeps a way through the answers.
LEMMA AnswerStep ==
    ASSUME TypeOK, AnswerInv, [Next]_vars
    PROVE  AnswerInv'
<1>0. /\ buf \in Seq(STRING) /\ Size \in Nat /\ base \in Nat /\ log \in Seq(Entries)
    BY DEF TypeOK, Size, Entries
<1>1. ASSUME UNCHANGED <<log, out>> PROVE AnswerInv'
    BY <1>1 DEF AnswerInv
<1>2. ASSUME NEW s, NEW d, s = SkipSpace(pos), d = DigitsEnd(s),
             NoLength(s, d) \/ Resync(s, d) \/ Incomplete(s, d) \/ Route(s, d)
      PROVE  AnswerInv'
  <2>1. /\ s \in Nat /\ d \in Nat /\ d <= Size /\ Number(s, d) \in Nat
    BY <1>2, ScanAt
  <2>2. CASE Finish(s)
    BY <1>1, <2>2 DEF Finish
  <2>3. CASE log' = Append(log, Skipped(s)) /\ out' = out \o FatalFrame
    <3>1. Skipped(s) \in Entries
      BY <1>0, <2>1 DEF Skipped, Entries
    <3>2. PICK r \in Entries : r = Skipped(s) /\ r.what = "fatal"
      BY <3>1 DEF Skipped
    <3>3. Answer(r) = FatalFrame
      BY <3>2 DEF Answer
    <3>4. Answered(log, out)
      BY DEF AnswerInv
    <3>5. Answered(Append(log, r), out \o Answer(r))
      BY <1>0, <3>2, <3>4, AnswerMore
    <3> QED
      BY <2>3, <3>2, <3>3, <3>5 DEF AnswerInv
  <2>4. CASE Route(s, d)
    <3>1. PICK n \in Nat : n = Number(s, d)
      BY <2>1
    <3>2. /\ Whole(d, n) /\ log' = Append(log, Routed(d + 1, n))
          /\ out' = out \o Answer(Routed(d + 1, n))
      BY <2>4, <3>1 DEF Route
    <3>3. d + 1 \in Nat /\ (d + 1) + n <= Size
      BY <1>0, <2>1, <3>2 DEF Whole
    <3>4. PICK r \in Entries : r = Routed(d + 1, n)
      BY <1>0, <3>3, RoutedType
    <3>5. r.what # "fatal" => \A k \in 1..Len(r.id) : ~Blank(r.id[k])
      BY <1>0, <3>3, <3>4, RoutedId
    <3>6. Answered(log, out)
      BY DEF AnswerInv
    <3>7. Answered(Append(log, r), out \o Answer(r))
      BY <1>0, <3>5, <3>6, AnswerMore
    <3> QED
      BY <3>2, <3>4, <3>7 DEF AnswerInv
  <2> QED
    BY <1>2, <2>2, <2>3, <2>4 DEF NoLength, Resync, Incomplete
<1>3. ASSUME NEW n, Receive(n) PROVE AnswerInv'
    BY <1>1, <1>3 DEF Receive
<1>4. CASE UNCHANGED vars
    BY <1>1, <1>4 DEF vars
<1> QED
    BY <1>2, <1>3, <1>4 DEF Next, Scan, Done

\* Until a protocol error breaks the framing, the client reads back exactly the answers
\* that the dispatcher sent, each under the id of the message it answers, and has nothing
\* left over: what str() and send_msg_response write, check() and _handle_message take
\* apart, for ids and payloads of any size and any way of cutting what the client sent.
THEOREM AnswersCorrect == Spec => []AnswersReadBack
<1>1. Init => AnswerInv
    BY AnswerInit
<1>2. TypeOK /\ AnswerInv /\ [Next]_vars => AnswerInv'
    BY AnswerStep
<1>3. AnswerInv => AnswersReadBack
  <2> SUFFICES ASSUME Answered(log, out), NoFatal(log) PROVE AnswersReadBack
    BY DEF AnswerInv, AnswersReadBack, NoFatal
  <2>1. PICK ids : ids = AnsweredIds(log, Len(log))
    OBVIOUS
  <2>2. PICK n, w : Walk(out, ids, n, w)
    BY <2>1, Zenon DEF Answered
  <2>3. ReadBack(n) = [ids |-> ids, rest |-> <<>>]
    BY <2>2, WalkReads, Zenon
  <2>4. n = Len(ids)
    BY <2>2 DEF Walk
  <2> QED
    BY <2>1, <2>3, <2>4, Zenon DEF AnswersReadBack
<1> QED
    BY <1>1, <1>2, <1>3, TypeCorrect, PTL DEF Spec
=============================================================================
