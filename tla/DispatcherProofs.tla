-------------------------- MODULE DispatcherProofs --------------------------
(***************************************************************************)
(* Proofs about Dispatcher, for conversations of any length, messages of   *)
(* any size, and any way of cutting the stream.                            *)
(***************************************************************************)
EXTENDS Dispatcher, WellFoundedInduction, SequenceTheorems, TLAPS

(***************************************************************************)
(* The inductive invariant behind InStepRoutedAsSent and                   *)
(* InStepRoutedPromptly.                                                   *)
(***************************************************************************)
Stream == Chars(conv, Len(conv))

\* The buffer and what is still to arrive are the stream from base on.
StreamInv ==
    /\ \A i \in DOMAIN buf : buf[i] = Stream[base + i]
    /\ \A i \in DOMAIN todo : todo[i] = Stream[base + Size + i]

\* As far as the parser may be before message Len(log) + 1: its separator passed.
SepEnd == IF Len(log) = Len(conv) THEN BodyEnd(Len(log))
          ELSE BodyEnd(Len(log)) + Len(conv[Len(log) + 1].sep)

\* The parser is between the messages it has routed and the length of the next one; it
\* is past the start of the buffer only if it has found something, so that the last call
\* of dispatch_request begins at 0, where the limit on the digits does no harm; and it
\* goes back to select only if the next message is not complete.
PlaceInv ==
    /\ BodyEnd(Len(log)) <= base + pos /\ base + pos <= SepEnd
    /\ ~found => pos = 0
    /\ pc = "idle" => /\ pos = 0
                      /\ Len(log) < Len(conv) => base + Size < BodyEnd(Len(log) + 1)

IInv == TypeOK /\ StreamInv /\ (InStep => RoutedAsSent /\ PlaceInv)

-----------------------------------------------------------------------------
(***************************************************************************)
(* Induction over the naturals, with a set where the library's theorems    *)
(* have a predicate.                                                       *)
(***************************************************************************)

\* A set of naturals that is not empty has a least element.
LEMMA LeastOf ==
    ASSUME NEW T, T \subseteq Nat, T # {}
    PROVE  \E m \in T : \A k \in T : m <= k
<1>1. PICK R : R = OpToRel(<, Nat) /\ IsWellFoundedOn(R, Nat)
    BY NatLessThanWellFounded, Zenon
<1>2. PICK m \in T : \A k \in T : ~(<<k, m>> \in R)
    BY <1>1, WFMin, Zenon
<1>3. \A k \in T : ~(k < m)
    BY <1>1, <1>2 DEF OpToRel
<1> QED
    BY <1>3

\* A set that has 0 and the successor of each of its members has every natural.
LEMMA SetInduction ==
    ASSUME NEW T, 0 \in T, \A n \in Nat : n \in T => n + 1 \in T
    PROVE  \A n \in Nat : n \in T
<1> SUFFICES ASSUME Nat \ T # {} PROVE FALSE
    OBVIOUS
<1>1. PICK m \in Nat \ T : \A k \in Nat \ T : m <= k
  <2>1. Nat \ T \subseteq Nat
    OBVIOUS
  <2> QED
    BY <2>1, LeastOf, Zenon
<1>2. m # 0
    OBVIOUS
<1>3. m - 1 \in Nat /\ m - 1 \in T
    BY <1>1, <1>2
<1>4. (m - 1) + 1 \in T
    BY <1>3
<1> QED
    BY <1>4

\* f follows the recursion that begins with c and goes on with G, up to k.
Follows(f, c, G, k) == f[0] = c /\ \A n \in 1..k : f[n] = G[<<f[n - 1], n>>]

\* There is a function defined by recursion, as far as one likes.
LEMMA RecursionExists ==
    ASSUME NEW V, NEW c \in V, NEW G \in [V \X Nat -> V], NEW k \in Nat
    PROVE  \E f \in [0..k -> V] : Follows(f, c, G, k)
<1> DEFINE T == {n \in Nat : \E f \in [0..n -> V] : Follows(f, c, G, n)}
<1>1. 0 \in T
  <2>1. [i \in 0..0 |-> c] \in [0..0 -> V] /\ Follows([i \in 0..0 |-> c], c, G, 0)
    BY DEF Follows
  <2> QED
    BY <2>1
<1>2. ASSUME NEW n \in Nat, n \in T PROVE n + 1 \in T
  <2>1. PICK f \in [0..n -> V] : Follows(f, c, G, n)
    BY <1>2
  <2>2. PICK v \in V : v = G[<<f[n], n + 1>>]
    OBVIOUS
  <2>3. PICK g : g = [i \in 0..(n + 1) |-> IF i = n + 1 THEN v ELSE f[i]]
    OBVIOUS
  <2>4. g \in [0..(n + 1) -> V] /\ g[n + 1] = v /\ \A i \in 0..n : g[i] = f[i]
    BY <2>3
  <2>5. \A i \in 1..(n + 1) : i \in 1..n \/ i = n + 1
    OBVIOUS
  <2>6. \A i \in 1..n : g[i] = G[<<g[i - 1], i>>]
    BY <2>1, <2>4 DEF Follows
  <2>7. g[n + 1] = G[<<g[(n + 1) - 1], n + 1>>]
    BY <2>2, <2>4, SMTT(30)
  <2>8. Follows(g, c, G, n + 1)
    BY <2>1, <2>4, <2>5, <2>6, <2>7, SMTT(30) DEF Follows
  <2> QED
    BY <2>4, <2>8
<1>3. \A n \in Nat : n \in T
  <2> HIDE DEF T
  <2> QED
    BY <1>1, <1>2, SetInduction, Zenon
<1> QED
    BY <1>3

\* Two functions that follow the same recursion agree as far as both go.
LEMMA RecursionUnique ==
    ASSUME NEW c, NEW G, NEW k \in Nat, NEW m \in Nat, k <= m, NEW f, NEW g,
           Follows(f, c, G, k), Follows(g, c, G, m)
    PROVE  \A n \in 0..k : f[n] = g[n]
<1> DEFINE T == {n \in Nat : n <= k => f[n] = g[n]}
<1>1. 0 \in T
    BY DEF Follows
<1>2. ASSUME NEW n \in Nat, n \in T PROVE n + 1 \in T
  <2> SUFFICES ASSUME n + 1 <= k PROVE f[n + 1] = g[n + 1]
    OBVIOUS
  <2>1. n + 1 \in 1..k /\ n + 1 \in 1..m /\ (n + 1) - 1 = n /\ f[n] = g[n]
    BY <1>2
  <2>2. f[n + 1] = G[<<f[(n + 1) - 1], n + 1>>] /\ g[n + 1] = G[<<g[(n + 1) - 1], n + 1>>]
    BY <2>1 DEF Follows
  <2> QED
    BY <2>1, <2>2
<1>3. \A n \in Nat : n \in T
  <2> HIDE DEF T
  <2> QED
    BY <1>1, <1>2, SetInduction, Zenon
<1> QED
    BY <1>3

-----------------------------------------------------------------------------
(***************************************************************************)
(* The stream: Chars.                                                      *)
(***************************************************************************)
Parts == [sep : Seq(STRING), head : Seq(STRING), body : Seq(STRING)]

\* The stream goes on with m, as an operator that the provers leave alone.
Plus(v, m) == v \o m.sep \o m.head \o m.body

\* It stays a stream of characters ...
LEMMA PlusType ==
    ASSUME NEW v \in Seq(STRING), NEW m \in Parts
    PROVE  Plus(v, m) \in Seq(STRING)
    BY DEF Plus, Parts

\* What follows v in it, part by part.
LEMMA PlusElements ==
    ASSUME NEW v \in Seq(STRING), NEW m \in Parts
    PROVE  /\ Len(Plus(v, m)) = Len(v) + Len(m.sep) + Len(m.head) + Len(m.body)
           /\ \A i \in 1..Len(v) : Plus(v, m)[i] = v[i]
           /\ \A i \in 1..Len(m.sep) : Plus(v, m)[Len(v) + i] = m.sep[i]
           /\ \A i \in 1..Len(m.head) : Plus(v, m)[Len(v) + Len(m.sep) + i] = m.head[i]
           /\ \A i \in 1..Len(m.body) :
                 Plus(v, m)[Len(v) + Len(m.sep) + Len(m.head) + i] = m.body[i]
<1>1. m.sep \in Seq(STRING) /\ m.head \in Seq(STRING) /\ m.body \in Seq(STRING)
    BY DEF Parts
<1>2. PICK a \in Nat, b \in Nat, d \in Nat, e \in Nat :
        a = Len(v) /\ b = Len(m.sep) /\ d = Len(m.head) /\ e = Len(m.body)
    BY <1>1
<1>3. PICK x \in Seq(STRING) : x = v \o m.sep
    BY <1>1, ConcatProperties, Zenon
<1>4. /\ Len(x) = a + b /\ \A i \in 1..a : x[i] = v[i]
      /\ \A i \in 1..b : x[a + i] = m.sep[i]
    BY <1>1, <1>2, <1>3, ConcatProperties
<1>5. PICK y \in Seq(STRING) : y = x \o m.head
    BY <1>1, ConcatProperties, Zenon
<1>6. /\ Len(y) = Len(x) + d /\ \A i \in 1..Len(x) : y[i] = x[i]
      /\ \A i \in 1..d : y[Len(x) + i] = m.head[i]
    BY <1>1, <1>2, <1>5, ConcatProperties
<1>7. PICK z \in Seq(STRING) : z = y \o m.body
    BY <1>1, ConcatProperties, Zenon
<1>8. /\ Len(z) = Len(y) + e /\ \A i \in 1..Len(y) : z[i] = y[i]
      /\ \A i \in 1..e : z[Len(y) + i] = m.body[i]
    BY <1>1, <1>2, <1>7, ConcatProperties
<1>9. Plus(v, m) = z
    BY <1>3, <1>5, <1>7 DEF Plus
<1>10. Len(x) = a + b /\ Len(y) = (a + b) + d /\ Len(z) = ((a + b) + d) + e
    BY <1>4, <1>6, <1>8
<1>11. \A i \in 1..a : z[i] = v[i]
    BY <1>4, <1>6, <1>8, <1>10
<1>12. \A i \in 1..b : z[a + i] = m.sep[i]
    BY <1>4, <1>6, <1>8, <1>10
<1>13. \A i \in 1..d : z[(a + b) + i] = m.head[i]
    BY <1>6, <1>8, <1>10
<1>14. \A i \in 1..e : z[((a + b) + d) + i] = m.body[i]
    BY <1>8, <1>10
<1> QED
    BY <1>2, <1>9, <1>10, <1>11, <1>12, <1>13, <1>14

\* ... and does not become shorter.
LEMMA PlusLonger ==
    ASSUME NEW v \in Seq(STRING), NEW m \in Parts
    PROVE  Len(v) \in Nat /\ Len(Plus(v, m)) \in Nat /\ Len(v) <= Len(Plus(v, m))
<1>1. PICK a \in Nat, b \in Nat, d \in Nat, e \in Nat :
        a = Len(v) /\ b = Len(m.sep) /\ d = Len(m.head) /\ e = Len(m.body)
    BY DEF Parts
<1>2. Len(Plus(v, m)) = a + b + d + e
    BY <1>1, PlusElements, Zenon
<1>3. a + b + d + e \in Nat /\ a <= a + b + d + e
    OBVIOUS
<1> QED
    BY <1>1, <1>2, <1>3, Zenon

\* The recursion of Chars.
StepOf(c) == [x \in Seq(STRING) \X Nat |->
                 IF x[2] \in 1..Len(c) THEN Plus(x[1], c[x[2]]) ELSE x[1]]

\* Chars follows it: the definition by CHOOSE has the function it describes.
LEMMA CharsFollows ==
    ASSUME NEW c \in Seq(Parts), NEW k \in 0..Len(c)
    PROVE  \E f \in [0..k -> Seq(STRING)] :
              Follows(f, <<>>, StepOf(c), k) /\ Chars(c, k) = f[k]
<1>0. k \in Nat /\ \A n \in 1..k : n \in 1..Len(c) /\ n \in Nat /\ n - 1 \in 0..k /\ c[n] \in Parts
    OBVIOUS
<1>1. StepOf(c) \in [Seq(STRING) \X Nat -> Seq(STRING)]
  <2>1. \A i \in 1..Len(c) : c[i] \in Parts
    OBVIOUS
  <2>2. \A v \in Seq(STRING), i \in 1..Len(c) : Plus(v, c[i]) \in Seq(STRING)
    BY <2>1, PlusType, Zenon
  <2> QED
    BY <2>2 DEF StepOf
<1>2. PICK f \in [0..k -> Seq(STRING)] : Follows(f, <<>>, StepOf(c), k)
  <2>1. <<>> \in Seq(STRING)
    OBVIOUS
  <2> QED
    BY <1>0, <1>1, <2>1, RecursionExists, Zenon
<1>3. \A v \in Seq(STRING), n \in 1..k : StepOf(c)[<<v, n>>] = Plus(v, c[n])
    BY <1>0 DEF StepOf
<1>4. f = [n \in 0..k |-> IF n = 0 THEN <<>> ELSE Plus(f[n - 1], c[n])]
  <2>1. \A n \in 1..k : f[n] = Plus(f[n - 1], c[n])
    BY <1>0, <1>2, <1>3 DEF Follows
  <2>2. \A n \in 0..k : n = 0 \/ n \in 1..k
    BY <1>0
  <2> QED
    BY <1>2, <2>1, <2>2 DEF Follows
<1> DEFINE F == CHOOSE g : g = [n \in 0..k |-> IF n = 0 THEN <<>> ELSE Plus(g[n - 1], c[n])]
<1>5. F = [n \in 0..k |-> IF n = 0 THEN <<>> ELSE Plus(F[n - 1], c[n])]
    BY <1>4, Zenon
<1>6. Chars(c, k) = F[k]
    BY DEF Chars, Plus
<1> HIDE DEF F
<1> DEFINE T == {n \in Nat : n <= k => F[n] = f[n]}
<1>7. 0 \in T
  <2>1. F[0] = <<>> /\ f[0] = <<>>
    BY <1>0, <1>4, <1>5
  <2> QED
    BY <2>1
<1>8. ASSUME NEW n \in Nat, n \in T PROVE n + 1 \in T
  <2> SUFFICES ASSUME n + 1 <= k PROVE F[n + 1] = f[n + 1]
    OBVIOUS
  <2>1. n + 1 \in 0..k /\ n + 1 # 0 /\ (n + 1) - 1 = n /\ F[n] = f[n]
    BY <1>0, <1>8
  <2>2. F[n + 1] = Plus(F[(n + 1) - 1], c[n + 1])
    BY <1>5, <2>1
  <2>3. f[n + 1] = Plus(f[(n + 1) - 1], c[n + 1])
    BY <1>4, <2>1
  <2> QED
    BY <2>1, <2>2, <2>3
<1>9. \A n \in Nat : n \in T
  <2> HIDE DEF T
  <2> QED
    BY <1>7, <1>8, SetInduction, Zenon
<1>10. F[k] = f[k]
    BY <1>0, <1>9
<1> QED
    BY <1>2, <1>6, <1>10

\* Chars is a stream of characters.
LEMMA CharsType ==
    ASSUME NEW c \in Seq(Parts), NEW k \in 0..Len(c)
    PROVE  Chars(c, k) \in Seq(STRING)
<1>1. k \in 0..k
    OBVIOUS
<1> QED
    BY <1>1, CharsFollows

\* Chars of no item.
LEMMA CharsZero ==
    ASSUME NEW c \in Seq(Parts)
    PROVE  Chars(c, 0) = <<>>
<1>1. 0 \in 0..Len(c)
    OBVIOUS
<1> QED
    BY <1>1, CharsFollows DEF Follows

\* Chars of one item more.
LEMMA CharsStep ==
    ASSUME NEW c \in Seq(Parts), NEW k \in Nat, k < Len(c)
    PROVE  Chars(c, k + 1) = Plus(Chars(c, k), c[k + 1])
<1>0. Len(c) \in Nat
    OBVIOUS
<1>1. k \in 0..Len(c) /\ k + 1 \in 0..Len(c) /\ k + 1 \in 1..(k + 1) /\ (k + 1) - 1 = k
      /\ k + 1 \in Nat /\ k <= k + 1 /\ k \in 0..k /\ k + 1 \in 1..Len(c)
    BY <1>0
<1>2. PICK f \in [0..k -> Seq(STRING)] :
        Follows(f, <<>>, StepOf(c), k) /\ Chars(c, k) = f[k]
    BY <1>1, CharsFollows
<1>3. PICK g \in [0..(k + 1) -> Seq(STRING)] :
        Follows(g, <<>>, StepOf(c), k + 1) /\ Chars(c, k + 1) = g[k + 1]
    BY <1>1, CharsFollows
<1>4. f[k] = g[k]
    BY <1>1, <1>2, <1>3, RecursionUnique
<1>5. g[k + 1] = StepOf(c)[<<g[k], k + 1>>]
    BY <1>1, <1>3 DEF Follows
<1>6. g[k] \in Seq(STRING)
    BY <1>1, <1>3
<1>7. StepOf(c)[<<g[k], k + 1>>] = Plus(g[k], c[k + 1])
    BY <1>1, <1>6 DEF StepOf
<1> QED
    BY <1>2, <1>3, <1>4, <1>5, <1>7

\* Chars of fewer items are the beginning of Chars of more.
LEMMA CharsPrefix ==
    ASSUME NEW c \in Seq(Parts), NEW j \in Nat, j <= Len(c)
    PROVE  \A m \in j..Len(c) :
              /\ Len(Chars(c, j)) <= Len(Chars(c, m))
              /\ \A i \in 1..Len(Chars(c, j)) : Chars(c, m)[i] = Chars(c, j)[i]
<1> DEFINE P(m) == /\ Len(Chars(c, j)) <= Len(Chars(c, m))
                   /\ \A i \in 1..Len(Chars(c, j)) : Chars(c, m)[i] = Chars(c, j)[i]
           T == {m \in Nat : j <= m /\ m <= Len(c) => P(m)}
<1>0. Len(c) \in Nat /\ Chars(c, j) \in Seq(STRING)
  <2>1. Len(c) \in Nat
    OBVIOUS
  <2>2. j \in 0..Len(c)
    BY <2>1
  <2> QED
    BY <2>1, <2>2, CharsType
<1>1. P(j)
  <2>1. Len(Chars(c, j)) \in Nat
    BY <1>0
  <2> QED
    BY <2>1
<1>2. 0 \in T
  <2>1. j <= 0 => j = 0
    OBVIOUS
  <2> QED
    BY <1>1, <2>1
<1>3. ASSUME NEW n \in Nat, n \in T PROVE n + 1 \in T
  <2> SUFFICES ASSUME j <= n + 1, n + 1 <= Len(c) PROVE P(n + 1)
    OBVIOUS
  <2>1. CASE j = n + 1
    BY <1>1, <2>1
  <2>2. CASE j # n + 1
    <3>1. j <= n /\ n < Len(c) /\ n \in 0..Len(c) /\ n + 1 \in 1..Len(c)
      BY <1>0, <2>2
    <3>2. P(n)
      BY <1>3, <3>1
    <3>3. Chars(c, n + 1) = Plus(Chars(c, n), c[n + 1])
      BY <3>1, CharsStep
    <3>4. PICK v \in Seq(STRING) : v = Chars(c, n)
      BY <3>1, CharsType
    <3>5. PICK m \in Parts : m = c[n + 1]
      BY <3>1
    <3>6. \A i \in 1..Len(v) : Plus(v, m)[i] = v[i]
      BY PlusElements, Zenon
    <3>8. PICK L \in Nat : L = Len(Chars(c, j))
      BY <1>0
    <3>9. L <= Len(v) /\ \A i \in 1..L : v[i] = Chars(c, j)[i]
      BY <3>2, <3>4, <3>8
    <3>10. PICK M \in Nat, N \in Nat : M = Len(v) /\ N = Len(Plus(v, m)) /\ M <= N
      BY PlusLonger, Zenon
    <3>11. L <= N /\ \A i \in 1..L : i \in 1..M
      BY <3>9, <3>10
    <3>12. \A i \in 1..L : Plus(v, m)[i] = Chars(c, j)[i]
      BY <3>6, <3>9, <3>10, <3>11
    <3> QED
      BY <3>3, <3>4, <3>5, <3>8, <3>10, <3>11, <3>12
  <2> QED
    BY <2>1, <2>2
<1>4. \A n \in Nat : n \in T
  <2> HIDE DEF T
  <2> QED
    BY <1>2, <1>3, SetInduction, Zenon
<1> QED
    BY <1>0, <1>4

\* Item k + 1 is m, which begins at e of the stream S with a characters of separator, h of
\* length and b of body.
LaidOut(c, k, m, e, a, h, b, S) ==
    /\ m = c[k + 1] /\ e = Len(Chars(c, k))
    /\ a = Len(m.sep) /\ h = Len(m.head) /\ b = Len(m.body)
    /\ S = Chars(c, Len(c))
    /\ Len(Chars(c, k + 1)) = e + a + h + b
    /\ Len(Chars(c, k + 1)) <= Len(S)
    /\ \A i \in 1..a : S[e + i] = m.sep[i]
    /\ \A i \in 1..h : S[e + a + i] = m.head[i]
    /\ \A i \in 1..b : S[e + a + h + i] = m.body[i]

\* Where the parts of item k + 1 are in the stream.
LEMMA Layout ==
    ASSUME NEW c \in Seq(Parts), NEW k \in Nat, k < Len(c)
    PROVE  \E m \in Parts : \E e, a, h, b \in Nat : \E S : LaidOut(c, k, m, e, a, h, b, S)
<1>0. Len(c) \in Nat
    OBVIOUS
<1>1. k \in 0..Len(c) /\ k + 1 \in 1..Len(c) /\ k + 1 \in Nat /\ Len(c) \in (k + 1)..Len(c)
      /\ k + 1 <= Len(c)
    BY <1>0
<1>2. PICK S : S = Chars(c, Len(c))
    OBVIOUS
<1>3. PICK v \in Seq(STRING) : v = Chars(c, k)
    BY <1>1, CharsType
<1>4. PICK m \in Parts : m = c[k + 1]
    BY <1>1
<1>5. Chars(c, k + 1) = Plus(v, m)
    BY <1>3, <1>4, CharsStep
<1>6. /\ Len(Plus(v, m)) <= Len(S)
      /\ \A i \in 1..Len(Plus(v, m)) : S[i] = Plus(v, m)[i]
    BY <1>1, <1>2, <1>5, CharsPrefix
<1>7. PICK a \in Nat, b \in Nat, d \in Nat, e \in Nat :
        a = Len(v) /\ b = Len(m.sep) /\ d = Len(m.head) /\ e = Len(m.body)
    BY DEF Parts
<1>8. PICK u : u = Plus(v, m)
    OBVIOUS
<1>9. /\ Len(u) = a + b + d + e
      /\ \A i \in 1..b : u[a + i] = m.sep[i]
      /\ \A i \in 1..d : u[a + b + i] = m.head[i]
      /\ \A i \in 1..e : u[a + b + d + i] = m.body[i]
    BY <1>7, <1>8, PlusElements, Zenon
<1>10. Len(u) <= Len(S) /\ \A i \in 1..(a + b + d + e) : S[i] = u[i]
    BY <1>6, <1>8, <1>9
<1>11. /\ \A i \in 1..b : S[a + i] = m.sep[i]
       /\ \A i \in 1..d : S[a + b + i] = m.head[i]
       /\ \A i \in 1..e : S[a + b + d + i] = m.body[i]
    BY <1>9, <1>10, SMTT(30)
<1>12. LaidOut(c, k, m, a, b, d, e, S)
    BY <1>2, <1>3, <1>4, <1>5, <1>7, <1>8, <1>9, <1>10, <1>11, Zenon DEF LaidOut
<1> QED
    BY <1>12, Zenon

-----------------------------------------------------------------------------
(***************************************************************************)
(* The parser's operators.                                                 *)
(***************************************************************************)
\* startpos: only whitespace is skipped, and all of it.
LEMMA SkipSpaceIs ==
    ASSUME buf \in Seq(STRING), NEW p \in 0..Size
    PROVE  /\ SkipSpace(p) \in p..Size
           /\ \A i \in p..(SkipSpace(p) - 1) : IsSpace(At(i))
           /\ SkipSpace(p) = Size \/ ~IsSpace(At(SkipSpace(p)))
<1>1. Size \in Nat /\ Size \in p..Size
    BY DEF Size
<1> HIDE DEF Size
<1> DEFINE T == {q \in p..Size : q = Size \/ ~IsSpace(At(q))}
<1>2. T \subseteq Nat /\ T # {}
    BY <1>1
<1>3. PICK q \in T : \A k \in T : q <= k
    BY <1>2, LeastOf, Zenon
<1>4. \A i \in p..(q - 1) : IsSpace(At(i))
  <2> SUFFICES ASSUME NEW i \in p..(q - 1), ~IsSpace(At(i)) PROVE FALSE
    OBVIOUS
  <2>1. i \in p..Size /\ i < q
    BY <1>1
  <2> QED
    BY <1>1, <1>3, <2>1
<1>5. \E r \in p..Size : /\ \A i \in p..(r - 1) : IsSpace(At(i))
                         /\ r = Size \/ ~IsSpace(At(r))
    BY <1>4
<1> QED
    BY <1>5, Zenon DEF SkipSpace

\* The end of the digits: only digits before it, and none there unless the limit or the
\* end of the buffer stops the loop.
LEMMA DigitsEndIs ==
    ASSUME buf \in Seq(STRING), NEW p \in 0..Size
    PROVE  LET q == DigitsEnd(p)
           IN /\ q \in p..Size
              /\ \A i \in p..(q - 1) : IsDigit(At(i))
              /\ q >= MaxMsgLenLen \/ q = Size \/ ~IsDigit(At(q))
<1>1. Size \in Nat /\ Size \in p..Size /\ MaxMsgLenLen \in Nat
    BY DispatcherAssumption DEF Size
<1> HIDE DEF Size
<1>2. PICK limit \in Nat : /\ limit = (IF Size < MaxMsgLenLen THEN Size ELSE MaxMsgLenLen)
                           /\ limit <= Size
                           /\ \A r \in p..Size : r >= limit => r >= MaxMsgLenLen \/ r = Size
    BY <1>1
<1> DEFINE T == {q \in p..Size : q >= limit \/ ~IsDigit(At(q))}
<1>3. T \subseteq Nat /\ T # {}
  <2>1. Size \in T
    BY <1>1, <1>2
  <2> QED
    BY <1>1, <2>1
<1>4. PICK q \in T : \A k \in T : q <= k
    BY <1>3, LeastOf, Zenon
<1>5. \A i \in p..(q - 1) : i < limit /\ IsDigit(At(i))
  <2> SUFFICES ASSUME NEW i \in p..(q - 1), ~(i < limit /\ IsDigit(At(i))) PROVE FALSE
    OBVIOUS
  <2>1. i \in p..Size /\ i < q
    BY <1>1
  <2> QED
    BY <1>1, <1>2, <1>4, <2>1
<1> DEFINE End(r) == /\ \A i \in p..(r - 1) : i < limit /\ IsDigit(At(i))
                     /\ r >= limit \/ ~IsDigit(At(r))
<1>6. \E r \in p..Size : End(r)
    BY <1>5
<1>7. PICK d : d = CHOOSE r \in p..Size : End(r)
    OBVIOUS
<1>8. d \in p..Size /\ End(d)
    BY <1>6, <1>7, Zenon
<1>9. DigitsEnd(p) = d
    BY <1>2, <1>7 DEF DigitsEnd
<1> QED
    BY <1>2, <1>8, <1>9

\* find and find_first_of: npos if there is none, otherwise the first one.
LEMMA FindIs ==
    ASSUME buf \in Seq(STRING), NEW C, NEW p \in Nat
    PROVE  \/ Find(C, p) = -1 /\ \A q \in p..(Size - 1) : At(q) \notin C
           \/ /\ Find(C, p) \in p..(Size - 1) /\ At(Find(C, p)) \in C
              /\ \A i \in p..(Find(C, p) - 1) : At(i) \notin C
<1>1. Size \in Nat
    BY DEF Size
<1> HIDE DEF Size
<1>2. CASE ~\E q \in p..(Size - 1) : At(q) \in C
    BY <1>2 DEF Find
<1>3. CASE \E q \in p..(Size - 1) : At(q) \in C
  <2> DEFINE T == {q \in p..(Size - 1) : At(q) \in C}
  <2>1. T \subseteq Nat /\ T # {}
    BY <1>1, <1>3
  <2>2. PICK q \in T : \A k \in T : q <= k
    BY <2>1, LeastOf, Zenon
  <2>3. \A i \in p..(q - 1) : At(i) \notin C
    <3> SUFFICES ASSUME NEW i \in p..(q - 1), At(i) \in C PROVE FALSE
      OBVIOUS
    <3>1. i \in p..(Size - 1) /\ i < q
      BY <1>1
    <3> QED
      BY <1>1, <2>2, <3>1
  <2> DEFINE First(r) == At(r) \in C /\ \A i \in p..(r - 1) : At(i) \notin C
  <2>4. \E r \in p..(Size - 1) : First(r)
    BY <2>3
  <2>5. PICK d : d = CHOOSE r \in p..(Size - 1) : First(r)
    OBVIOUS
  <2>6. d \in p..(Size - 1) /\ First(d)
    BY <2>4, <2>5, Zenon
  <2>7. Find(C, p) = d
    BY <1>3, <2>5 DEF Find
  <2> QED
    BY <2>6, <2>7
<1> QED
    BY <1>2, <1>3

\* The value of a digit is a number.
LEMMA DigitValueType ==
    ASSUME NEW c, IsDigit(c)
    PROVE  DigitValue(c) \in Nat
<1>1. DOMAIN Digits = 1..10
    BY DEF Digits
<1>2. PICK d : d = CHOOSE e \in DOMAIN Digits : Digits[e] = c
    OBVIOUS
<1>3. d \in DOMAIN Digits
    BY <1>2, Zenon DEF IsDigit
<1>4. DigitValue(c) = d - 1
    BY <1>2 DEF DigitValue
<1> QED
    BY <1>1, <1>3, <1>4

\* The recursion of Decimal and of Number.
DigitStep(h, n) == [x \in Nat \X Nat |->
                       IF x[2] \in 1..n THEN x[1] * 10 + DigitValue(h[x[2]]) ELSE 0]

\* A digit more makes a number of a number.
LEMMA DigitStepType ==
    ASSUME NEW h, NEW n \in Nat, \A i \in 1..n : IsDigit(h[i])
    PROVE  /\ DigitStep(h, n) \in [Nat \X Nat -> Nat]
           /\ \A v \in Nat, i \in 1..n : DigitStep(h, n)[<<v, i>>] = v * 10 + DigitValue(h[i])
<1>1. \A i \in 1..n : DigitValue(h[i]) \in Nat
    BY DigitValueType, Zenon
<1>2. \A v \in Nat, i \in 1..n : v * 10 + DigitValue(h[i]) \in Nat
    BY <1>1
<1>3. \A i \in 1..n : i \in Nat
    OBVIOUS
<1> QED
    BY <1>2, <1>3 DEF DigitStep

\* Decimal follows it ...
LEMMA DecimalFollows ==
    ASSUME NEW h, NEW n \in Nat, \A i \in 1..n : IsDigit(h[i])
    PROVE  \E f \in [0..n -> Nat] : Follows(f, 0, DigitStep(h, n), n) /\ Decimal(h, n) = f[n]
<1>1. PICK f \in [0..n -> Nat] : Follows(f, 0, DigitStep(h, n), n)
    BY DigitStepType, RecursionExists
<1>2. \A i \in 1..n : f[i] = f[i - 1] * 10 + DigitValue(h[i])
  <2>1. \A i \in 1..n : f[i - 1] \in Nat /\ f[i] = DigitStep(h, n)[<<f[i - 1], i>>]
    BY <1>1 DEF Follows
  <2>2. \A v \in Nat, i \in 1..n : DigitStep(h, n)[<<v, i>>] = v * 10 + DigitValue(h[i])
    BY DigitStepType
  <2> QED
    BY <2>1, <2>2
<1>3. f = [i \in 0..n |-> IF i = 0 THEN 0 ELSE f[i - 1] * 10 + DigitValue(h[i])]
    BY <1>1, <1>2 DEF Follows
<1> DEFINE F == CHOOSE g : g = [i \in 0..n |-> IF i = 0 THEN 0
                                               ELSE g[i - 1] * 10 + DigitValue(h[i])]
<1>4. F = [i \in 0..n |-> IF i = 0 THEN 0 ELSE F[i - 1] * 10 + DigitValue(h[i])]
    BY <1>3, Zenon
<1>5. Decimal(h, n) = F[n]
    BY DEF Decimal
<1> HIDE DEF F
<1> DEFINE T == {i \in Nat : i <= n => F[i] = f[i]}
<1>6. 0 \in T
    BY <1>3, <1>4
<1>7. ASSUME NEW i \in Nat, i \in T PROVE i + 1 \in T
  <2> SUFFICES ASSUME i + 1 <= n PROVE F[i + 1] = f[i + 1]
    OBVIOUS
  <2>1. i + 1 \in 0..n /\ i + 1 # 0 /\ (i + 1) - 1 = i /\ F[i] = f[i]
    BY <1>7
  <2>2. F[i + 1] = F[(i + 1) - 1] * 10 + DigitValue(h[i + 1])
    BY <1>4, <2>1
  <2>3. f[i + 1] = f[(i + 1) - 1] * 10 + DigitValue(h[i + 1])
    BY <1>3, <2>1
  <2> QED
    BY <2>1, <2>2, <2>3
<1>8. \A i \in Nat : i \in T
  <2> HIDE DEF T
  <2> QED
    BY <1>6, <1>7, SetInduction, Zenon
<1> QED
    BY <1>1, <1>5, <1>8

\* ... and so does Number on a part of the buffer that has the same digits.
LEMMA NumberFollows ==
    ASSUME NEW h, NEW n \in Nat, NEW p \in Nat, \A i \in 1..n : IsDigit(h[i]),
           \A i \in 1..n : At(p + i - 1) = h[i]
    PROVE  \E f \in [0..n -> Nat] : Follows(f, 0, DigitStep(h, n), n) /\ Number(p, p + n) = f[n]
<1>1. PICK f \in [0..n -> Nat] : Follows(f, 0, DigitStep(h, n), n)
    BY DigitStepType, RecursionExists
<1>2. \A i \in 1..n : f[i] = f[i - 1] * 10 + DigitValue(h[i])
  <2>1. \A i \in 1..n : f[i - 1] \in Nat /\ f[i] = DigitStep(h, n)[<<f[i - 1], i>>]
    BY <1>1 DEF Follows
  <2>2. \A v \in Nat, i \in 1..n : DigitStep(h, n)[<<v, i>>] = v * 10 + DigitValue(h[i])
    BY DigitStepType
  <2> QED
    BY <2>1, <2>2
<1>3. PICK g : g = [i \in p..(p + n) |-> f[i - p]]
    OBVIOUS
<1>4. g = [i \in p..(p + n) |-> IF i = p THEN 0 ELSE g[i - 1] * 10 + DigitValue(At(i - 1))]
  <2>1. ASSUME NEW i \in p..(p + n), i # p
        PROVE  f[i - p] = g[i - 1] * 10 + DigitValue(At(i - 1))
    <3>1. i - p \in 1..n /\ i - 1 \in p..(p + n) /\ (i - 1) - p = (i - p) - 1
          /\ p + (i - p) - 1 = i - 1
      BY <2>1
    <3>2. At(i - 1) = h[i - p]
      BY <3>1
    <3>3. g[i - 1] = f[(i - p) - 1]
      BY <1>3, <3>1
    <3> QED
      BY <1>2, <3>1, <3>2, <3>3
  <2>2. p - p = 0 /\ f[0] = 0
    BY <1>1 DEF Follows
  <2> QED
    BY <1>3, <2>1, <2>2
<1> DEFINE F == CHOOSE e : e = [i \in p..(p + n) |-> IF i = p THEN 0
                                      ELSE e[i - 1] * 10 + DigitValue(At(i - 1))]
<1>5. F = [i \in p..(p + n) |-> IF i = p THEN 0 ELSE F[i - 1] * 10 + DigitValue(At(i - 1))]
    BY <1>4, Zenon
<1>6. Number(p, p + n) = F[p + n]
    BY DEF Number
<1> HIDE DEF F
<1> DEFINE T == {i \in Nat : i <= n => F[p + i] = g[p + i]}
<1>7. 0 \in T
    BY <1>4, <1>5
<1>8. ASSUME NEW i \in Nat, i \in T PROVE i + 1 \in T
  <2> SUFFICES ASSUME i + 1 <= n PROVE F[p + (i + 1)] = g[p + (i + 1)]
    OBVIOUS
  <2>1. PICK q \in p..(p + n) : q = p + (i + 1) /\ q # p /\ q - 1 = p + i
    BY <1>8
  <2>2. F[q - 1] = g[q - 1]
    BY <1>8, <2>1
  <2>3. F[q] = F[q - 1] * 10 + DigitValue(At(q - 1))
    BY <1>5, <2>1
  <2>4. g[q] = g[q - 1] * 10 + DigitValue(At(q - 1))
    BY <1>4, <2>1
  <2> QED
    BY <2>1, <2>2, <2>3, <2>4
<1>9. \A i \in Nat : i \in T
  <2> HIDE DEF T
  <2> QED
    BY <1>7, <1>8, SetInduction, Zenon
<1>10. F[p + n] = g[p + n]
    BY <1>9
<1>11. g[p + n] = f[n]
  <2>1. p + n \in p..(p + n) /\ (p + n) - p = n
    OBVIOUS
  <2> QED
    BY <1>3, <2>1
<1> QED
    BY <1>1, <1>6, <1>10, <1>11

\* Digits write a number ...
LEMMA NumberType ==
    ASSUME NEW p \in Nat, NEW q \in Nat, p <= q, \A i \in p..(q - 1) : IsDigit(At(i))
    PROVE  Number(p, q) \in Nat
<1>1. PICK n \in Nat : q = p + n
  <2>1. q - p \in Nat /\ q = p + (q - p)
    OBVIOUS
  <2> QED
    BY <2>1
<1>2. PICK h : h = [i \in 1..n |-> At(p + i - 1)]
    OBVIOUS
<1>3. \A i \in 1..n : At(p + i - 1) = h[i]
    BY <1>2
<1>4. \A i \in 1..n : p + i - 1 \in p..(q - 1)
    BY <1>1
<1>5. \A i \in 1..n : IsDigit(h[i])
    BY <1>3, <1>4
<1>6. \E f \in [0..n -> Nat] : Number(p, p + n) = f[n]
    BY <1>3, <1>5, NumberFollows
<1> QED
    BY <1>1, <1>6

\* ... the same number wherever in the buffer they are.
LEMMA NumberIs ==
    ASSUME NEW h, NEW n \in Nat, NEW p \in Nat, \A i \in 1..n : IsDigit(h[i]),
           \A i \in 1..n : At(p + i - 1) = h[i]
    PROVE  Number(p, p + n) = Decimal(h, n)
<1>1. PICK f : Follows(f, 0, DigitStep(h, n), n) /\ Decimal(h, n) = f[n]
    BY DecimalFollows
<1>2. PICK g : Follows(g, 0, DigitStep(h, n), n) /\ Number(p, p + n) = g[n]
    BY NumberFollows
<1>3. n <= n /\ n \in 0..n
    OBVIOUS
<1> QED
    BY <1>1, <1>2, <1>3, RecursionUnique

-----------------------------------------------------------------------------
(***************************************************************************)
(* Types, and the buffer as a part of the stream.                          *)
(***************************************************************************)
Entries == [what : {"version", "search", "indexer", "error", "fatal"},
            id : Seq(STRING), payload : Seq(STRING), at : Nat]

\* The part of s from position a up to b.
LEMMA Part ==
    ASSUME NEW S, NEW s \in Seq(S), NEW a \in Nat, NEW b \in Nat, a <= b, b <= Len(s)
    PROVE  /\ SubSeq(s, a + 1, b) \in Seq(S)
           /\ Len(SubSeq(s, a + 1, b)) = b - a
           /\ \A i \in 1..(b - a) : SubSeq(s, a + 1, b)[i] = s[a + i]
<1>1. PICK L \in Nat : L = Len(s)
    OBVIOUS
<1>2. PICK m \in Int : m = a + 1
    OBVIOUS
<1>3. b \in Int /\ \A i \in m..b : i \in 1..L
    BY <1>1, <1>2
<1>4. \A i \in m..b : s[i] \in S
    BY <1>1, <1>3
<1>5. PICK u : u = SubSeq(s, m, b)
    OBVIOUS
<1>6. u \in Seq(S)
  <2>1. SubSeq(s, m, b) \in Seq(S)
    BY <1>3, <1>4, SubSeqProperties
  <2> QED
    BY <1>5, <2>1, Zenon
<1>7. Len(u) = IF m <= b THEN b - m + 1 ELSE 0
  <2>1. Len(SubSeq(s, m, b)) = IF m <= b THEN b - m + 1 ELSE 0
    BY <1>3, <1>4, SubSeqProperties
  <2> QED
    BY <1>5, <2>1, Zenon
<1>8. \A i \in 1..(b - m + 1) : u[i] = s[m + i - 1]
  <2>1. \A i \in 1..(b - m + 1) : SubSeq(s, m, b)[i] = s[m + i - 1]
    BY <1>3, <1>4, SubSeqProperties
  <2> QED
    BY <1>5, <2>1, Zenon
<1>9. Len(u) = b - a
    BY <1>2, <1>7
<1>10. \A i \in 1..(b - a) : u[i] = s[a + i]
  <2>1. b - m + 1 = b - a /\ \A i \in 1..(b - a) : m + i - 1 = a + i
    BY <1>2
  <2> QED
    BY <1>8, <2>1
<1> QED
    BY <1>2, <1>5, <1>6, <1>9, <1>10

\* The same, in a sequence of characters.
LEMMA Cut ==
    ASSUME NEW s \in Seq(STRING), NEW a \in Nat, NEW b \in Nat, a <= b, b <= Len(s)
    PROVE  /\ SubSeq(s, a + 1, b) \in Seq(STRING)
           /\ Len(SubSeq(s, a + 1, b)) = b - a
           /\ \A i \in 1..(b - a) : SubSeq(s, a + 1, b)[i] = s[a + i]
    BY Part

\* u is that part.
IsCut(u, s, a, b) ==
    u \in Seq(STRING) /\ Len(u) = b - a /\ \A i \in 1..(b - a) : u[i] = s[a + i]

\* Cut, as one fact.
LEMMA CutIs ==
    ASSUME NEW s \in Seq(STRING), NEW a \in Nat, NEW b \in Nat, a <= b, b <= Len(s)
    PROVE  IsCut(SubSeq(s, a + 1, b), s, a, b)
    BY Cut DEF IsCut

\* What is logged for a message.
LEMMA RoutedType ==
    ASSUME buf \in Seq(STRING), base \in Nat, NEW p \in Nat, NEW n \in Nat, p + n <= Size
    PROVE  Routed(p, n) \in Entries
<1>0. Size = Len(buf) /\ Size \in Nat
    BY DEF Size
<1>1. PICK i : i = Find({" "}, p)
    OBVIOUS
<1>2. PICK j : j = Find({" "}, i + 1)
    OBVIOUS
<1>3. CASE Beyond(i, p + n) \/ Beyond(j, p + n)
  <2>1. Routed(p, n) = [what |-> "fatal", id |-> <<>>, payload |-> <<>>, at |-> base + p]
    BY <1>1, <1>2, <1>3 DEF Routed
  <2> QED
    BY <2>1 DEF Entries
<1>4. CASE ~(Beyond(i, p + n) \/ Beyond(j, p + n))
  <2>1. i # -1 /\ ~(i >= p + n) /\ j # -1 /\ ~(j >= p + n)
    BY <1>4 DEF Beyond
  <2>2. i \in p..(Size - 1)
    BY <1>1, <2>1, FindIs
  <2>3. i + 1 \in Nat
    BY <1>0, <2>2
  <2>4. j \in (i + 1)..(Size - 1)
    BY <1>2, <2>1, <2>3, FindIs
  <2>5. /\ i \in Nat /\ p <= i /\ i <= Len(buf) /\ j + 1 \in Nat /\ p + n \in Nat
        /\ j + 1 <= p + n /\ p + n <= Len(buf) /\ (j + 1) + 1 = j + 2
    BY <1>0, <2>1, <2>2, <2>4
  <2>6. SubSeq(buf, p + 1, i) \in Seq(STRING)
    BY <2>5, Cut
  <2>7. SubSeq(buf, j + 2, p + n) \in Seq(STRING)
    BY <2>5, Cut
  <2>8. Routed(p, n) = [what |-> Destination(SubSeq(buf, i + 2, j)), id |-> SubSeq(buf, p + 1, i),
                        payload |-> SubSeq(buf, j + 2, p + n), at |-> base + p]
    BY <1>1, <1>2, <1>4 DEF Routed
  <2>9. Destination(SubSeq(buf, i + 2, j)) \in {"version", "search", "indexer", "error", "fatal"}
    BY DEF Destination
  <2> QED
    BY <2>6, <2>7, <2>8, <2>9 DEF Entries
<1> QED
    BY <1>3, <1>4

\* The positions that Scan works with.
LEMMA ScanAt ==
    ASSUME TypeOK, NEW s, s = SkipSpace(pos), NEW d, d = DigitsEnd(s)
    PROVE  /\ s \in Nat /\ d \in Nat /\ pos <= s /\ s <= d /\ d <= Size
           /\ \A i \in s..(d - 1) : IsDigit(At(i))
           /\ Number(s, d) \in Nat
<1>1. buf \in Seq(STRING) /\ pos \in 0..Size /\ Size \in Nat
    BY DEF TypeOK, Size
<1>2. s \in pos..Size
    BY <1>1, SkipSpaceIs
<1>3. s \in 0..Size /\ s \in Nat /\ pos <= s
    BY <1>1, <1>2
<1>4. d \in s..Size /\ \A i \in s..(d - 1) : IsDigit(At(i))
    BY <1>1, <1>3, DigitsEndIs
<1>5. d \in Nat /\ s <= d /\ d <= Size
    BY <1>1, <1>3, <1>4
<1>6. Number(s, d) \in Nat
    BY <1>3, <1>4, <1>5, NumberType
<1> QED
    BY <1>3, <1>4, <1>5, <1>6

\* Erasing the beginning of the buffer.
LEMMA FinishStep ==
    ASSUME TypeOK, StreamInv, NEW s \in Nat, s <= Size, Finish(s)
    PROVE  TypeOK' /\ StreamInv' /\ Size' = Size - s
<1>1. /\ buf \in Seq(STRING) /\ Size = Len(buf) /\ Size \in Nat /\ base \in Nat
      /\ todo \in Seq(STRING) /\ Len(todo) \in Nat /\ Size' = Len(buf')
    BY DEF TypeOK, Size
<1>2. /\ buf' = SubSeq(buf, s + 1, Size) /\ base' = base + s /\ pos' = 0 /\ found' = FALSE
      /\ pc' \in {"idle", "scan"} /\ UNCHANGED <<conv, todo, log>>
    BY DEF Finish
<1>3. /\ buf' \in Seq(STRING) /\ Len(buf') = Size - s
      /\ \A i \in 1..(Size - s) : buf'[i] = buf[s + i]
    BY <1>1, <1>2, Cut
<1>4. Size' = Size - s /\ Size' \in Nat /\ DOMAIN buf' = 1..(Size - s) /\ DOMAIN buf = 1..Size
    BY <1>1, <1>3
<1>7. base' + Size' = base + Size
  <2>1. PICK b \in Nat, z \in Nat : b = base /\ z = Size /\ s <= z
    BY <1>1
  <2>2. (b + s) + (z - s) = b + z
    BY <2>1
  <2> QED
    BY <1>2, <1>4, <2>1, <2>2, Zenon
<1>5. TypeOK'
  <2>1. base' + Size' + Len(todo') = base + Size + Len(todo)
    BY <1>2, <1>7
  <2>2. pos' \in 0..Size' /\ base' \in Nat
    BY <1>1, <1>2, <1>4
  <2> QED
    BY <1>2, <1>3, <2>1, <2>2 DEF TypeOK
<1>6. StreamInv'
  <2>1. ASSUME NEW i \in 1..(Size - s) PROVE buf'[i] = Stream[base' + i]
    <3>1. s + i \in 1..Size /\ base + (s + i) = base' + i
      BY <1>1, <1>2
    <3> QED
      BY <1>3, <1>4, <3>1 DEF StreamInv
  <2>2. ASSUME NEW i \in DOMAIN todo PROVE todo[i] = Stream[base' + Size' + i]
    BY <1>7 DEF StreamInv
  <2>3. Stream' = Stream
    BY <1>2 DEF Stream
  <2> QED
    BY <1>2, <1>4, <2>1, <2>2, <2>3 DEF StreamInv
<1> QED
    BY <1>4, <1>5, <1>6

\* More of the stream arrives.
LEMMA ReceiveStep ==
    ASSUME TypeOK, StreamInv, NEW n \in 1..Len(todo), Receive(n)
    PROVE  TypeOK' /\ StreamInv'
<1>1. /\ buf \in Seq(STRING) /\ Size = Len(buf) /\ Size \in Nat /\ base \in Nat
      /\ todo \in Seq(STRING) /\ Size' = Len(buf')
    BY DEF TypeOK, Size
<1>2. PICK L \in Nat : L = Len(todo)
    BY <1>1
<1>3. n \in Nat /\ n <= L /\ 0 \in Nat /\ 0 <= n /\ 0 + 1 = 1
    BY <1>2
<1>4. PICK x : x = SubSeq(todo, 1, n)
    OBVIOUS
<1>5. x \in Seq(STRING) /\ Len(x) = n /\ \A i \in 1..n : x[i] = todo[i]
  <2>1. /\ SubSeq(todo, 0 + 1, n) \in Seq(STRING) /\ Len(SubSeq(todo, 0 + 1, n)) = n - 0
        /\ \A i \in 1..(n - 0) : SubSeq(todo, 0 + 1, n)[i] = todo[0 + i]
    BY <1>1, <1>2, <1>3, Cut, SMTT(30)
  <2>2. n - 0 = n /\ \A i \in 1..n : 0 + i = i
    BY <1>3
  <2> QED
    BY <1>3, <1>4, <2>1, <2>2
<1>6. /\ todo' = SubSeq(todo, n + 1, L) /\ buf' = buf \o x /\ pos' = 0 /\ found' = FALSE
      /\ pc' = "scan" /\ UNCHANGED <<conv, base, log>>
    BY <1>2, <1>4 DEF Receive
<1>7. todo' \in Seq(STRING) /\ Len(todo') = L - n /\ \A i \in 1..(L - n) : todo'[i] = todo[n + i]
    BY <1>1, <1>2, <1>3, <1>6, Cut
<1>8. /\ buf' \in Seq(STRING) /\ Len(buf') = Size + n
      /\ \A i \in 1..Size : buf'[i] = buf[i]
      /\ \A i \in 1..n : buf'[Size + i] = x[i]
  <2>1. /\ buf \o x \in Seq(STRING) /\ Len(buf \o x) = Len(buf) + Len(x)
        /\ \A i \in 1..(Len(buf) + Len(x)) :
              (buf \o x)[i] = IF i <= Len(buf) THEN buf[i] ELSE x[i - Len(buf)]
    BY <1>1, <1>5, ConcatProperties, Zenon
  <2>0. PICK y : y = buf \o x
    OBVIOUS
  <2>2. PICK z \in Nat : z = Size /\ z = Len(buf)
    BY <1>1
  <2>3. /\ y \in Seq(STRING) /\ Len(y) = z + n
        /\ \A i \in 1..(z + n) : y[i] = IF i <= z THEN buf[i] ELSE x[i - z]
    BY <1>5, <2>0, <2>1, <2>2, Zenon
  <2>4. \A i \in 1..z : y[i] = buf[i]
    BY <1>3, <2>3
  <2>5. \A i \in 1..n : y[z + i] = x[i]
    BY <1>3, <2>3
  <2> QED
    BY <1>6, <2>0, <2>2, <2>3, <2>4, <2>5, Zenon
<1>9. Size' = Size + n /\ DOMAIN buf' = 1..(Size + n) /\ DOMAIN buf = 1..Size
      /\ DOMAIN todo = 1..L /\ DOMAIN todo' = 1..(L - n)
    BY <1>1, <1>2, <1>7, <1>8
<1>10. TypeOK'
  <2>1. base' + Size' + Len(todo') = base + Size + Len(todo)
    <3>1. PICK b \in Nat, z \in Nat : b = base /\ z = Size
      BY <1>1
    <3>2. b + (z + n) + (L - n) = b + z + L
      BY <1>3
    <3> QED
      BY <1>2, <1>6, <1>7, <1>9, <3>1, <3>2, Zenon
  <2>2. pos' \in 0..Size' /\ base' \in Nat
    BY <1>1, <1>3, <1>6, <1>9
  <2> QED
    BY <1>6, <1>7, <1>8, <2>1, <2>2 DEF TypeOK
<1>11. StreamInv'
  <2>1. ASSUME NEW i \in 1..(Size + n) PROVE buf'[i] = Stream[base + i]
    <3>1. CASE i \in 1..Size
      BY <1>8, <1>9, <3>1 DEF StreamInv
    <3>2. CASE i \notin 1..Size
      <4>1. PICK j \in 1..n : i = Size + j /\ j \in 1..L /\ base + i = base + Size + j
        <5>1. i - Size \in 1..n /\ i = Size + (i - Size) /\ i - Size \in 1..L
              /\ base + i = base + Size + (i - Size)
          BY <1>1, <1>3, <3>2
        <5> QED
          BY <5>1, Zenon
      <4>2. buf'[i] = todo[j]
        BY <1>5, <1>8, <4>1
      <4>3. todo[j] = Stream[base + Size + j]
        BY <1>9, <4>1 DEF StreamInv
      <4> QED
        BY <4>1, <4>2, <4>3
    <3> QED
      BY <3>1, <3>2
  <2>2. ASSUME NEW i \in 1..(L - n) PROVE todo'[i] = Stream[base + Size' + i]
    <3>1. n + i \in 1..L /\ base + Size + (n + i) = base + Size' + i
      BY <1>1, <1>2, <1>3, <1>9
    <3>2. todo[n + i] = Stream[base + Size + (n + i)]
      BY <1>9, <3>1 DEF StreamInv
    <3> QED
      BY <1>7, <3>1, <3>2
  <2>3. Stream' = Stream
    BY <1>6 DEF Stream
  <2> QED
    BY <1>6, <1>9, <2>1, <2>2, <2>3 DEF StreamInv
<1> QED
    BY <1>10, <1>11

\* A step that leaves the buffer alone, moves inside it and adds to the log at most.
LEMMA MoveStep ==
    ASSUME TypeOK, StreamInv, UNCHANGED <<conv, todo, buf, pc, base>>,
           pos' \in 0..Size, found' \in BOOLEAN, NEW x \in Entries, log' = Append(log, x)
    PROVE  TypeOK' /\ StreamInv'
<1>1. Size' = Size /\ Stream' = Stream
    BY DEF Size, Stream
<1>2. log' \in Seq(Entries)
    BY DEF TypeOK, Entries
<1>3. base' + Size' + Len(todo') = Len(Chars(conv, Len(conv))) /\ base' \in Nat
    BY <1>1 DEF TypeOK
<1>4. TypeOK'
    BY <1>1, <1>2, <1>3 DEF TypeOK, Entries
<1> QED
    BY <1>1, <1>4 DEF StreamInv

\* Every step keeps the types, and the buffer and what is to come in step with the stream.
LEMMA CoreStep ==
    ASSUME TypeOK, StreamInv, [Next]_vars
    PROVE  TypeOK' /\ StreamInv'
<1>0. /\ buf \in Seq(STRING) /\ Size \in Nat /\ base \in Nat /\ pos \in 0..Size
    BY DEF TypeOK, Size
<1>1. ASSUME NEW n \in 1..Len(todo), Receive(n) PROVE TypeOK' /\ StreamInv'
    BY <1>1, ReceiveStep
<1>2. ASSUME NEW s, s = SkipSpace(pos), NEW d, d = DigitsEnd(s),
             NoLength(s, d) \/ Resync(s, d) \/ Incomplete(s, d) \/ Route(s, d)
      PROVE  TypeOK' /\ StreamInv'
  <2>1. /\ s \in Nat /\ d \in Nat /\ pos <= s /\ s <= d /\ d <= Size
        /\ Number(s, d) \in Nat
    BY <1>2, ScanAt
  <2>2. s <= Size
    BY <1>0, <2>1
  <2>3. CASE Finish(s)
    BY <2>1, <2>2, <2>3, FinishStep
  <2>4. CASE Resync(s, d) /\ Find(LineEnds, d) # -1
    <3>1. pos' = Find(LineEnds, d) /\ log' = Append(log, Skipped(s))
          /\ UNCHANGED <<conv, todo, buf, pc, base, found>>
      BY <2>4 DEF Resync
    <3>2. pos' \in d..(Size - 1)
      BY <1>0, <2>1, <2>4, <3>1, FindIs
    <3>3. pos' \in 0..Size
      BY <1>0, <2>1, <3>2
    <3>4. Skipped(s) \in Entries
      BY <1>0, <2>1 DEF Skipped, Entries
    <3>5. found' \in BOOLEAN
      BY <3>1 DEF TypeOK
    <3> QED
      BY <3>1, <3>3, <3>4, <3>5, MoveStep
  <2>5. CASE Route(s, d)
    <3>1. /\ Whole(d, Number(s, d)) /\ log' = Append(log, Routed(d + 1, Number(s, d)))
          /\ found' = TRUE /\ pos' = d + 1 + Number(s, d)
          /\ UNCHANGED <<conv, todo, buf, pc, base>>
      BY <2>5 DEF Route
    <3>2. PICK n \in Nat : n = Number(s, d)
      BY <2>1
    <3>3. d + 1 \in Nat /\ (d + 1) + n <= Size /\ pos' \in 0..Size
      BY <1>0, <2>1, <3>1, <3>2 DEF Whole
    <3>4. Routed(d + 1, n) \in Entries
      BY <1>0, <3>3, RoutedType
    <3> QED
      BY <3>1, <3>2, <3>3, <3>4, MoveStep
  <2> QED
    BY <1>2, <2>3, <2>4, <2>5 DEF NoLength, Resync, Incomplete
<1>3. CASE UNCHANGED vars
  <2>1. Size' = Size /\ Stream' = Stream
    BY <1>3 DEF vars, Size, Stream
  <2> QED
    BY <1>3, <2>1 DEF vars, TypeOK, StreamInv
<1> QED
    BY <1>1, <1>2, <1>3 DEF Next, Scan, Done

\* The conversation and all that arrives of it.
LEMMA CoreInit ==
    ASSUME Init
    PROVE  TypeOK /\ StreamInv
<1>1. conv \in Seq(Parts)
    BY DispatcherAssumption DEF Init, Parts
<1>2. Len(conv) \in 0..Len(conv)
    BY <1>1
<1>3. Stream \in Seq(STRING) /\ todo = Stream
    BY <1>1, <1>2, CharsType DEF Init, Stream
<1>4. Size = 0 /\ base = 0 /\ DOMAIN buf = {} /\ buf \in Seq(STRING) /\ log \in Seq(Entries)
    BY DEF Init, Size
<1>5. PICK L \in Nat : L = Len(Stream)
    BY <1>3
<1>6. 0 + 0 + L = L /\ 0 \in 0..0
    OBVIOUS
<1>7. base + Size + Len(todo) = Len(Chars(conv, Len(conv))) /\ pos \in 0..Size /\ base \in Nat
    BY <1>3, <1>4, <1>5, <1>6 DEF Init, Stream
<1>8. TypeOK
    BY <1>3, <1>4, <1>7 DEF Init, TypeOK, Entries
<1>9. \A i \in DOMAIN todo : 0 + 0 + i = i
    BY <1>3
<1> QED
    BY <1>3, <1>4, <1>8, <1>9 DEF StreamInv

-----------------------------------------------------------------------------
(***************************************************************************)
(* Conversations in step with the parser.                                  *)
(***************************************************************************)
\* A digit ends no separator and no line.
LEMMA DigitIsNoSpace ==
    ASSUME NEW c, IsDigit(c)
    PROVE  ~IsSpace(c) /\ c # " " /\ c \notin LineEnds
<1>1. PICK d \in DOMAIN Digits : c = Digits[d]
    BY DEF IsDigit
<1>2. d \in {1, 2, 3, 4, 5, 6, 7, 8, 9, 10}
    BY DEF Digits
<1>3. c \in {"0", "1", "2", "3", "4", "5", "6", "7", "8", "9"}
    BY <1>1, <1>2 DEF Digits
<1>4. c # " " /\ c \notin LineEnds
    BY <1>3 DEF LineEnds
<1> QED
    BY <1>3, <1>4 DEF IsSpace

\* No line ends in such a conversation.
LEMMA NoNewline ==
    ASSUME conv \in Seq(Parts), InStep
    PROVE  \A i \in DOMAIN Stream : Stream[i] \notin LineEnds
<1> DEFINE P(k) == \A i \in 1..Len(Chars(conv, k)) : Chars(conv, k)[i] \notin LineEnds
           T == {k \in Nat : k <= Len(conv) => P(k)}
<1>0. Len(conv) \in Nat
    OBVIOUS
<1>1. 0 \in T
  <2>1. Chars(conv, 0) = <<>>
    BY CharsZero
  <2> QED
    BY <2>1
<1>2. ASSUME NEW k \in Nat, k \in T PROVE k + 1 \in T
  <2> SUFFICES ASSUME k + 1 <= Len(conv) PROVE P(k + 1)
    OBVIOUS
  <2>1. k < Len(conv) /\ k \in 0..Len(conv) /\ k + 1 \in DOMAIN conv /\ P(k)
    BY <1>0, <1>2
  <2>2. PICK v \in Seq(STRING) : v = Chars(conv, k)
    BY <2>1, CharsType
  <2>3. PICK m \in Parts : m = conv[k + 1]
    BY <2>1
  <2>4. PICK u : u = Plus(v, m) /\ u = Chars(conv, k + 1)
    BY <2>1, <2>2, <2>3, CharsStep
  <2>5. PICK a \in Nat, b \in Nat, d \in Nat, e \in Nat :
          a = Len(v) /\ b = Len(m.sep) /\ d = Len(m.head) /\ e = Len(m.body)
    BY DEF Parts
  <2>6. /\ Len(u) = a + b + d + e
        /\ \A i \in 1..a : u[i] = v[i]
        /\ \A i \in 1..b : u[a + i] = m.sep[i]
        /\ \A i \in 1..d : u[a + b + i] = m.head[i]
        /\ \A i \in 1..e : u[a + b + d + i] = m.body[i]
    <3>1. u = Plus(v, m)
      BY <2>4
    <3>2. \A i \in 1..a : u[i] = v[i]
      BY <2>5, <3>1, PlusElements, Zenon
    <3>3. /\ Len(u) = a + b + d + e
          /\ \A i \in 1..b : u[a + i] = m.sep[i]
          /\ \A i \in 1..d : u[a + b + i] = m.head[i]
          /\ \A i \in 1..e : u[a + b + d + i] = m.body[i]
      BY <2>5, <3>1, PlusElements, Zenon
    <3> QED
      BY <3>2, <3>3
  <2>7. /\ \A i \in 1..a : v[i] \notin LineEnds
        /\ \A i \in 1..b : m.sep[i] \notin LineEnds
        /\ \A i \in 1..e : m.body[i] \notin LineEnds
    <3>1. \A i \in 1..a : v[i] \notin LineEnds
      BY <2>1, <2>2, <2>5
    <3>2. DOMAIN m.sep = 1..b /\ DOMAIN m.body = 1..e
      BY <2>5 DEF Parts
    <3>3. (\A i \in DOMAIN m.sep : m.sep[i] = " ") /\ IsMessage(m)
      BY <2>1, <2>3 DEF InStep
    <3> QED
      BY <3>1, <3>2, <3>3 DEF IsMessage, LineEnds
  <2>8. \A i \in 1..d : m.head[i] \notin LineEnds
    <3>1. IsMessage(m)
      BY <2>1, <2>3 DEF InStep
    <3>2. m.head[d] = " " /\ \A i \in 1..(d - 1) : IsDigit(m.head[i])
      BY <2>5, <3>1 DEF IsMessage
    <3>3. \A i \in 1..(d - 1) : m.head[i] \notin LineEnds
      BY <3>2, DigitIsNoSpace, Zenon
    <3>4. \A i \in 1..d : i = d \/ i \in 1..(d - 1)
      OBVIOUS
    <3> QED
      BY <3>2, <3>3, <3>4 DEF LineEnds
  <2>9. \A i \in 1..(a + b + d + e) :
           \/ i \in 1..a
           \/ i - a \in 1..b /\ i = a + (i - a)
           \/ i - (a + b) \in 1..d /\ i = a + b + (i - (a + b))
           \/ i - (a + b + d) \in 1..e /\ i = a + b + d + (i - (a + b + d))
    OBVIOUS
  <2>10. \A i \in 1..(a + b + d + e) : u[i] \notin LineEnds
    <3> SUFFICES ASSUME NEW i \in 1..(a + b + d + e) PROVE u[i] \notin LineEnds
      OBVIOUS
    <3>1. CASE i \in 1..a
      BY <2>6, <2>7, <3>1
    <3>2. CASE i - a \in 1..b /\ i = a + (i - a)
      BY <2>6, <2>7, <3>2
    <3>3. CASE i - (a + b) \in 1..d /\ i = a + b + (i - (a + b))
      BY <2>6, <2>8, <3>3
    <3>4. CASE i - (a + b + d) \in 1..e /\ i = a + b + d + (i - (a + b + d))
      BY <2>6, <2>7, <3>4
    <3> QED
      BY <2>9, <3>1, <3>2, <3>3, <3>4
  <2> QED
    BY <2>4, <2>6, <2>10
<1>3. \A k \in Nat : k \in T
  <2> HIDE DEF T
  <2> QED
    BY <1>1, <1>2, SetInduction, Zenon
<1>4. P(Len(conv))
    BY <1>0, <1>3
<1>5. Stream \in Seq(STRING)
  <2>1. Len(conv) \in 0..Len(conv)
    BY <1>0
  <2> QED
    BY <2>1, CharsType DEF Stream
<1>6. DOMAIN Stream = 1..Len(Stream)
    BY <1>5
<1> QED
    BY <1>4, <1>6 DEF Stream

\* F has the first n elements of G behind o.
Has(F, G, o, n) == \A i \in 1..n : F[o + i] = G[i]

\* So they can be read at y.
LEMMA Shift ==
    ASSUME NEW F, NEW G, NEW o \in Nat, NEW n \in Nat, Has(F, G, o, n)
    PROVE  \A y \in Nat : y >= o /\ y < o + n => F[y + 1] = G[y - o + 1]
<1> SUFFICES ASSUME NEW y \in Nat, y >= o, y < o + n PROVE F[y + 1] = G[y - o + 1]
    OBVIOUS
<1>1. y - o + 1 \in 1..n /\ o + (y - o + 1) = y + 1
    OBVIOUS
<1> QED
    BY <1>1 DEF Has

\* m is the next message, which begins at e with a characters of separator, h of length
\* and b of body, and the stream has it so.
Upcoming(k, m, e, a, h, b) ==
    /\ m = conv[k + 1] /\ e = BodyEnd(k)
    /\ a = Len(m.sep) /\ h = Len(m.head) /\ b = Len(m.body)

Reading(m, e, a, h, b) ==
    \A x \in 0..(Size - 1) :
        /\ base + x >= e /\ base + x < e + a
              => At(x) = m.sep[(base + x) - e + 1]
        /\ base + x >= e + a /\ base + x < e + a + h
              => At(x) = m.head[(base + x) - (e + a) + 1]
        /\ base + x >= e + a + h /\ base + x < e + a + h + b
              => At(x) = m.body[(base + x) - (e + a + h) + 1]

\* What the parser reads: the separator, the length and the body of the next message.
LEMMA Reads ==
    ASSUME TypeOK, StreamInv, conv \in Seq(Parts), NEW k \in Nat, k < Len(conv)
    PROVE  \E m \in Parts : \E e, a, h, b \in Nat :
              /\ Upcoming(k, m, e, a, h, b) /\ Reading(m, e, a, h, b)
              /\ BodyEnd(k + 1) = e + a + h + b
<1>0. base \in Nat /\ Size \in Nat /\ DOMAIN buf = 1..Size
    BY DEF TypeOK, Size
<1>1. k + 1 \in 1..Len(conv) /\ k \in 0..Len(conv)
    OBVIOUS
<1>2. PICK m \in Parts : \E e, a, h, b \in Nat : \E S : LaidOut(conv, k, m, e, a, h, b, S)
    BY Layout, Zenon
<1>3. PICK e, a, h, b \in Nat : \E S : LaidOut(conv, k, m, e, a, h, b, S)
    BY <1>2, Zenon
<1>4. PICK S : LaidOut(conv, k, m, e, a, h, b, S)
    BY <1>3, Zenon
<1>5. S = Stream
    BY <1>4 DEF LaidOut, Stream
<1>6. /\ \A i \in 1..a : S[e + i] = m.sep[i]
      /\ \A i \in 1..h : S[e + a + i] = m.head[i]
      /\ \A i \in 1..b : S[e + a + h + i] = m.body[i]
    BY <1>4, Zenon DEF LaidOut
<1>7. PICK o \in Nat, p \in Nat : o = e + a /\ p = e + a + h
    OBVIOUS
<1>8. /\ \A y \in Nat : y >= e /\ y < e + a => S[y + 1] = m.sep[y - e + 1]
      /\ \A y \in Nat : y >= o /\ y < o + h => S[y + 1] = m.head[y - o + 1]
      /\ \A y \in Nat : y >= p /\ y < p + b => S[y + 1] = m.body[y - p + 1]
  <2>0. Has(S, m.sep, e, a)
    BY <1>6 DEF Has
  <2>1. \A y \in Nat : y >= e /\ y < e + a => S[y + 1] = m.sep[y - e + 1]
    BY <2>0, Shift
  <2>2. Has(S, m.head, o, h)
    BY <1>6, <1>7 DEF Has
  <2>3. \A y \in Nat : y >= o /\ y < o + h => S[y + 1] = m.head[y - o + 1]
    BY <2>2, Shift
  <2>4. Has(S, m.body, p, b)
    BY <1>6, <1>7 DEF Has
  <2>5. \A y \in Nat : y >= p /\ y < p + b => S[y + 1] = m.body[y - p + 1]
    BY <2>4, Shift
  <2> QED
    BY <2>1, <2>3, <2>5
<1>9. ASSUME NEW x \in 0..(Size - 1)
      PROVE  base + x \in Nat /\ At(x) = S[base + x + 1]
  <2>1. x + 1 \in 1..Size /\ base + (x + 1) = base + x + 1 /\ base + x \in Nat
    BY <1>0
  <2>2. At(x) = Stream[base + (x + 1)]
    BY <1>0, <2>1 DEF At, StreamInv
  <2> QED
    BY <1>5, <2>1, <2>2
<1>10. Reading(m, e, a, h, b)
  <2> SUFFICES ASSUME NEW x \in 0..(Size - 1)
               PROVE  /\ base + x >= e /\ base + x < e + a
                            => At(x) = m.sep[(base + x) - e + 1]
                      /\ base + x >= o /\ base + x < o + h
                            => At(x) = m.head[(base + x) - o + 1]
                      /\ base + x >= p /\ base + x < p + b
                            => At(x) = m.body[(base + x) - p + 1]
    BY <1>7, Zenon DEF Reading
  <2>1. PICK y \in Nat : y = base + x
    BY <1>9, Zenon
  <2>2. At(x) = S[y + 1]
    BY <1>9, <2>1, Zenon
  <2>3. /\ y >= e /\ y < e + a => At(x) = m.sep[y - e + 1]
        /\ y >= o /\ y < o + h => At(x) = m.head[y - o + 1]
        /\ y >= p /\ y < p + b => At(x) = m.body[y - p + 1]
    BY <1>8, <2>2
  <2> QED
    BY <2>1, <2>3, Zenon
<1>11. Upcoming(k, m, e, a, h, b) /\ BodyEnd(k + 1) = e + a + h + b
    BY <1>4, Zenon DEF LaidOut, Upcoming, BodyEnd
<1> QED
    BY <1>10, <1>11, Zenon

\* The form of a message of a characters of separator, h of length and b of body.
Formed(m, a, h, b) ==
    /\ a + h <= MaxMsgLenLen /\ h >= 2
    /\ \A i \in 1..a : m.sep[i] = " "
    /\ \A i \in 1..(h - 1) : IsDigit(m.head[i])
    /\ m.head[h] = " " /\ Decimal(m.head, h - 1) = b
    /\ b >= 4 /\ m.body[1] # " " /\ m.body[2] = " " /\ m.body[3] # " " /\ m.body[4] = " "

\* A message of a conversation in step has that form.
LEMMA FormedIs ==
    ASSUME conv \in Seq(Parts), InStep, NEW k \in Nat, k < Len(conv), NEW m \in Parts,
           NEW e \in Nat, NEW a \in Nat, NEW h \in Nat, NEW b \in Nat,
           Upcoming(k, m, e, a, h, b)
    PROVE  Formed(m, a, h, b)
<1>1. k + 1 \in DOMAIN conv
    OBVIOUS
<1>2. /\ m = conv[k + 1] /\ a = Len(m.sep) /\ h = Len(m.head) /\ b = Len(m.body)
    BY DEF Upcoming
<1>3. /\ \A i \in DOMAIN m.sep : m.sep[i] = " "
      /\ Len(m.sep) + Len(m.head) <= MaxMsgLenLen
      /\ IsMessage(m)
    BY <1>1, <1>2, Zenon DEF InStep
<1>4. DOMAIN m.sep = 1..a
    BY <1>2 DEF Parts
<1>5. /\ a + h <= MaxMsgLenLen /\ \A i \in 1..a : m.sep[i] = " "
    BY <1>2, <1>3, <1>4, Zenon
<1>6. /\ h >= 2 /\ m.head[h] = " "
      /\ \A i \in 1..(h - 1) : IsDigit(m.head[i])
      /\ Decimal(m.head, h - 1) = b /\ b >= 4
      /\ m.body[1] # " " /\ m.body[2] = " " /\ m.body[3] # " " /\ m.body[4] = " "
    BY <1>2, <1>3, Zenon DEF IsMessage
<1> QED
    BY <1>5, <1>6, Zenon DEF Formed

\* The positions of one pass of the loop.
Positions(s, d) == s = SkipSpace(pos) /\ d = DigitsEnd(s)

\* What a pass of the loop finds before the next message: not all of its length has
\* arrived, or the limit on the digits cuts it, which happens only after something was
\* found, or all of it is there.
Finds(e, a, h, b, s, d) ==
    \/ d = Size /\ base + Size < e + a + h + b
    \/ d < Size /\ At(d) # " " /\ found
    \/ d < Size /\ At(d) = " " /\ base + d + 1 = e + a + h /\ Number(s, d) = b

\* The parser, between the messages it has routed and the length of the next one, finds
\* the next one or too little of it, and skips nothing but its separator.
LEMMA ScanFinds ==
    ASSUME TypeOK, NEW m \in Parts, NEW e \in Nat, NEW a \in Nat, NEW h \in Nat, NEW b \in Nat,
           Formed(m, a, h, b), Reading(m, e, a, h, b),
           e <= base + pos, base + pos <= e + a, ~found => pos = 0,
           NEW s, NEW d, Positions(s, d)
    PROVE  /\ e <= base + s /\ base + s <= e + a
           /\ Finds(e, a, h, b, s, d)
<1>1. PICK B \in Nat, z \in Nat, p \in Nat : B = base /\ z = Size /\ p = pos /\ p <= z
  <2>1. base \in Nat /\ Size \in Nat /\ pos \in 0..Size
    BY DEF TypeOK, Size
  <2>2. pos \in Nat /\ pos <= Size
    BY <2>1
  <2> QED
    BY <2>1, <2>2, Zenon
<1>2. MaxMsgLenLen \in Nat /\ a + h <= MaxMsgLenLen /\ h >= 2 /\ b >= 4
    BY DispatcherAssumption DEF Formed
<1>3. e <= B + p /\ B + p <= e + a /\ (~found => p = 0)
    BY <1>1
<1>4. \A x \in 0..(z - 1) : B + x >= e /\ B + x < e + a => At(x) = " "
  <2> SUFFICES ASSUME NEW x \in 0..(z - 1), B + x >= e, B + x < e + a PROVE At(x) = " "
    OBVIOUS
  <2>1. At(x) = m.sep[(B + x) - e + 1]
    BY <1>1 DEF Reading
  <2>2. (B + x) - e + 1 \in 1..a
    OBVIOUS
  <2> QED
    BY <2>1, <2>2 DEF Formed
<1>5. \A x \in 0..(z - 1) : B + x >= e + a /\ B + x < e + a + h
                                => At(x) = m.head[(B + x) - (e + a) + 1]
    BY <1>1 DEF Reading
<1>6. \A x \in 0..(z - 1) : B + x >= e + a /\ B + x < e + a + h - 1 => IsDigit(At(x))
  <2> SUFFICES ASSUME NEW x \in 0..(z - 1), B + x >= e + a, B + x < e + a + h - 1
               PROVE  IsDigit(At(x))
    OBVIOUS
  <2>1. At(x) = m.head[(B + x) - (e + a) + 1]
    BY <1>5
  <2>2. (B + x) - (e + a) + 1 \in 1..(h - 1)
    OBVIOUS
  <2> QED
    BY <2>1, <2>2 DEF Formed
<1>7. \A x \in 0..(z - 1) : B + x = e + a + h - 1 => At(x) = " "
  <2> SUFFICES ASSUME NEW x \in 0..(z - 1), B + x = e + a + h - 1 PROVE At(x) = " "
    OBVIOUS
  <2>1. B + x >= e + a /\ B + x < e + a + h /\ (B + x) - (e + a) + 1 = h
    BY <1>2
  <2>2. At(x) = m.head[h]
    BY <1>5, <2>1
  <2> QED
    BY <2>2 DEF Formed
<1>8. /\ s \in p..z /\ \A i \in p..(s - 1) : IsSpace(At(i))
      /\ s = z \/ ~IsSpace(At(s))
    BY <1>1, SkipSpaceIs DEF TypeOK, Positions
<1>9. B + s <= e + a
  <2> SUFFICES ASSUME B + s > e + a PROVE FALSE
    BY <1>8
  <2>1. PICK x \in 0..(z - 1) : B + x = e + a /\ x \in p..(s - 1)
    <3>1. (e + a) - B \in 0..(z - 1) /\ B + ((e + a) - B) = e + a /\ (e + a) - B \in p..(s - 1)
      BY <1>3, <1>8
    <3> QED
      BY <3>1
  <2>2. IsDigit(At(x))
    BY <1>2, <1>6, <2>1
  <2>3. IsSpace(At(x))
    BY <1>8, <2>1
  <2> QED
    BY <2>2, <2>3, DigitIsNoSpace
<1>10. s = z \/ B + s = e + a
  <2> SUFFICES ASSUME s # z, B + s # e + a PROVE FALSE
    OBVIOUS
  <2>1. s \in 0..(z - 1) /\ B + s >= e /\ B + s < e + a
    BY <1>3, <1>8, <1>9
  <2>2. At(s) = " "
    BY <1>4, <2>1
  <2> QED
    BY <1>8, <2>2 DEF IsSpace
<1>11. e <= B + s /\ s \in 0..z
    BY <1>3, <1>8
<1>12. /\ d \in s..z /\ \A i \in s..(d - 1) : IsDigit(At(i))
       /\ d >= MaxMsgLenLen \/ d = z \/ ~IsDigit(At(d))
    BY <1>1, <1>11, DigitsEndIs DEF TypeOK, Positions
<1>13. \/ d = z /\ B + z < e + a + h + b
       \/ d < z /\ At(d) # " " /\ found
       \/ d < z /\ At(d) = " " /\ B + d + 1 = e + a + h /\ Number(s, d) = b
  <2>1. CASE s = z
    <3>1. d = z /\ B + z < e + a + h + b
      BY <1>2, <1>9, <1>12, <2>1
    <3> QED
      BY <3>1
  <2>2. CASE s # z
    <3>1. B + s = e + a
      BY <1>10, <2>2
    <3>2. B + d <= e + a + h - 1
      <4> SUFFICES ASSUME B + d > e + a + h - 1 PROVE FALSE
        BY <1>11, <1>12
      <4>1. PICK x \in 0..(z - 1) : B + x = e + a + h - 1 /\ x \in s..(d - 1)
        <5>1. /\ (e + a + h - 1) - B \in 0..(z - 1)
              /\ B + ((e + a + h - 1) - B) = e + a + h - 1
              /\ (e + a + h - 1) - B \in s..(d - 1)
          BY <1>2, <1>11, <1>12, <3>1
        <5> QED
          BY <5>1
      <4>2. At(x) = " " /\ IsDigit(At(x))
        BY <1>7, <1>12, <4>1
      <4> QED
        BY <4>2, DigitIsNoSpace
    <3>3. CASE d = z
      <4>1. B + z <= e + a + h - 1
        BY <3>2, <3>3
      <4>2. B + z < e + a + h + b
        BY <1>2, <4>1
      <4> QED
        BY <3>3, <4>2
    <3>4. CASE d # z /\ B + d < e + a + h - 1
      <4>1. d \in 0..(z - 1) /\ d < z /\ B + d >= e + a
        BY <1>11, <1>12, <3>1, <3>4
      <4>2. IsDigit(At(d))
        BY <1>6, <3>4, <4>1
      <4>3. At(d) # " "
        BY <4>2, DigitIsNoSpace
      <4>4. d >= MaxMsgLenLen
        BY <1>12, <3>4, <4>2
      <4>5. found
        <5> SUFFICES ASSUME ~found PROVE FALSE
          OBVIOUS
        <5>1. p = 0
          BY <1>3
        <5> QED
          BY <1>2, <1>3, <3>4, <4>1, <4>4, <5>1
      <4> QED
        BY <4>1, <4>3, <4>5
    <3>5. CASE d # z /\ B + d = e + a + h - 1
      <4>1. d \in 0..(z - 1) /\ d < z /\ B + d + 1 = e + a + h /\ d = s + (h - 1)
        BY <1>11, <1>12, <3>1, <3>5
      <4>2. At(d) = " "
        BY <1>7, <3>5, <4>1
      <4>3. PICK n \in Nat : n = h - 1
        BY <1>2
      <4>4. \A i \in 1..n : At(s + i - 1) = m.head[i]
        <5> SUFFICES ASSUME NEW i \in 1..n PROVE At(s + i - 1) = m.head[i]
          OBVIOUS
        <5>1. PICK x \in 0..(z - 1) : x = s + i - 1 /\ B + x = e + a + (i - 1)
          <6>1. s + i - 1 \in 0..(z - 1) /\ B + (s + i - 1) = e + a + (i - 1)
            BY <1>11, <3>1, <4>1, <4>3
          <6> QED
            BY <6>1
        <5>2. B + x >= e + a /\ B + x < e + a + h /\ (B + x) - (e + a) + 1 = i
          BY <4>3, <5>1
        <5> QED
          BY <1>5, <5>1, <5>2
      <4>5. \A i \in 1..n : IsDigit(m.head[i])
        BY <4>3 DEF Formed
      <4>6. s \in Nat
        BY <1>11
      <4>7. Number(s, s + n) = Decimal(m.head, n)
        BY <4>4, <4>5, <4>6, NumberIs
      <4>8. Number(s, d) = b
        BY <4>1, <4>3, <4>7 DEF Formed
      <4> QED
        BY <4>1, <4>2, <4>8
    <3>6. B + d < e + a + h - 1 \/ B + d = e + a + h - 1
      BY <1>11, <1>12, <3>2
    <3> QED
      BY <3>3, <3>4, <3>5, <3>6
  <2> QED
    BY <2>1, <2>2
<1> QED
    BY <1>1, <1>9, <1>11, <1>13, Zenon DEF Finds

\* A space right behind q ...
SpaceAfter(q) == At(q) # " " /\ At(q + 1) = " "

\* ... is what Find finds.
LEMMA FindNext ==
    ASSUME buf \in Seq(STRING), NEW q \in Nat, q + 1 < Size, SpaceAfter(q)
    PROVE  Find({" "}, q) = q + 1
<1>1. Size \in Nat
    BY DEF Size
<1>2. PICK f : f = Find({" "}, q)
    OBVIOUS
<1>3. \/ f = -1 /\ \A r \in q..(Size - 1) : At(r) # " "
      \/ f \in q..(Size - 1) /\ At(f) = " " /\ \A r \in q..(f - 1) : At(r) # " "
    BY <1>2, FindIs
<1>4. q + 1 \in q..(Size - 1)
    BY <1>1
<1>5. f \in q..(Size - 1) /\ At(f) = " " /\ \A r \in q..(f - 1) : At(r) # " "
    BY <1>3, <1>4 DEF SpaceAfter
<1>6. f # q /\ f \in Int /\ f >= q
  <2>1. f # q
    BY <1>5, Zenon DEF SpaceAfter
  <2>2. f \in q..(Size - 1)
    BY <1>5
  <2> QED
    BY <1>1, <2>1, <2>2
<1>7. ~(f > q + 1)
  <2> SUFFICES ASSUME f > q + 1 PROVE FALSE
    OBVIOUS
  <2>1. q + 1 \in q..(f - 1)
    BY <1>6
  <2> QED
    BY <1>5, <2>1 DEF SpaceAfter
<1> QED
  <2>1. f = q + 1
    BY <1>6, <1>7
  <2> QED
    BY <1>2, <2>1, Zenon

\* A sequence of one element.
LEMMA OneElement ==
    ASSUME NEW u \in Seq(STRING), Len(u) = 1, NEW x, u[1] = x
    PROVE  u = <<x>>
<1>1. u[1] \in STRING
    OBVIOUS
<1>2. <<x>> \in Seq(STRING) /\ Len(<<x>>) = 1 /\ <<x>>[1] = x
    BY <1>1
<1>3. \A i \in 1..Len(u) : u[i] = <<x>>[i]
    BY <1>2
<1> QED
    BY <1>2, <1>3, SeqEqual

\* The body of b characters after d is the next message's.
Arrived(e, a, h, b, d) == base + d + 1 = e + a + h /\ Whole(d, b)

\* The entry of a message of b characters whose body begins at p of the stream.
Sent(m, b, p) == [what |-> Destination(<<m.body[3]>>), id |-> <<m.body[1]>>,
                  payload |-> SubSeq(m.body, 5, b), at |-> p]

\* What is logged for a message is what was sent.
LEMMA RoutedIs ==
    ASSUME TypeOK, NEW m \in Parts, NEW e \in Nat, NEW a \in Nat, NEW h \in Nat, NEW b \in Nat,
           Formed(m, a, h, b), Reading(m, e, a, h, b), NEW k, Upcoming(k, m, e, a, h, b),
           NEW d \in Nat, Arrived(e, a, h, b, d)
    PROVE  Routed(d + 1, b) = Sent(m, b, e + a + h)
<1>1. PICK B \in Nat, z \in Nat : B = base /\ z = Size /\ z = Len(buf)
  <2>1. base \in Nat /\ Size \in Nat /\ Size = Len(buf)
    BY DEF TypeOK, Size
  <2> QED
    BY <2>1, Zenon
<1>2. PICK p \in Nat : p = d + 1
    OBVIOUS
<1>3. B + p = e + a + h /\ p + b <= z /\ b >= 4
  <2>1. base + d + 1 = e + a + h /\ d + 1 + b <= Size /\ b >= 4
    BY Zenon DEF Arrived, Whole, Formed
  <2>2. B + d + 1 = e + a + h /\ d + 1 + b <= z /\ b >= 4
    BY <1>1, <2>1, Zenon
  <2> QED
    BY <1>2, <2>2
<1>4. buf \in Seq(STRING) /\ m.body \in Seq(STRING) /\ Len(m.body) = b
    BY DEF TypeOK, Parts, Upcoming
<1>5. \A i \in 1..b : At(p + (i - 1)) = m.body[i]
  <2> SUFFICES ASSUME NEW i \in 1..b PROVE At(p + (i - 1)) = m.body[i]
    OBVIOUS
  <2>1. PICK x \in 0..(z - 1) : x = p + (i - 1) /\ B + x = e + a + h + (i - 1)
    <3>1. p + (i - 1) \in 0..(z - 1) /\ B + (p + (i - 1)) = e + a + h + (i - 1)
      BY <1>3
    <3> QED
      BY <3>1
  <2>2. B + x >= e + a + h /\ B + x < e + a + h + b /\ (B + x) - (e + a + h) + 1 = i
    BY <2>1
  <2>3. At(x) = m.body[(B + x) - (e + a + h) + 1]
    BY <1>1, <2>2 DEF Reading
  <2> QED
    BY <2>1, <2>2, <2>3
<1>6. \A i \in 1..b : buf[p + i] = m.body[i]
  <2> SUFFICES ASSUME NEW i \in 1..b PROVE buf[p + i] = m.body[i]
    OBVIOUS
  <2>1. p + (i - 1) + 1 = p + i
    OBVIOUS
  <2> QED
    BY <1>5, <2>1 DEF At
<1>7. At(p) # " " /\ At(p + 1) = " " /\ At(p + 2) # " " /\ At(p + 3) = " "
  <2>1. /\ 1 \in 1..b /\ 2 \in 1..b /\ 3 \in 1..b /\ 4 \in 1..b
        /\ p + (1 - 1) = p /\ p + (2 - 1) = p + 1 /\ p + (3 - 1) = p + 2 /\ p + (4 - 1) = p + 3
    BY <1>3
  <2>2. At(p) = m.body[1] /\ At(p + 1) = m.body[2] /\ At(p + 2) = m.body[3] /\ At(p + 3) = m.body[4]
    BY <1>5, <2>1
  <2> QED
    BY <2>2 DEF Formed
<1>9. Find({" "}, p) = p + 1
  <2>1. p + 1 < Size
    BY <1>1, <1>3
  <2> QED
    BY <1>4, <1>7, <2>1, FindNext DEF SpaceAfter
<1>10. Find({" "}, (p + 1) + 1) = p + 3
  <2>1. (p + 1) + 1 = p + 2 /\ (p + 2) + 1 = p + 3 /\ p + 2 \in Nat /\ (p + 2) + 1 < Size
    BY <1>1, <1>3
  <2> QED
    BY <1>4, <1>7, <2>1, FindNext DEF SpaceAfter
<1>11. ~Beyond(p + 1, p + b) /\ ~Beyond(p + 3, p + b)
    BY <1>3 DEF Beyond
<1>12. SubSeq(buf, (p + 1) + 2, p + 3) = <<m.body[3]>>
  <2>1. PICK q \in Nat, r \in Nat : q = p + 2 /\ r = p + 3 /\ q + 1 = (p + 1) + 2
    OBVIOUS
  <2>2. q <= r /\ r <= Len(buf) /\ r - q = 1 /\ 1 \in 1..(r - q) /\ q + 1 = p + 3 /\ 3 \in 1..b
    BY <1>1, <1>3, <2>1
  <2>3. PICK u : u = SubSeq(buf, q + 1, r)
    OBVIOUS
  <2>4. u \in Seq(STRING) /\ Len(u) = r - q /\ \A i \in 1..(r - q) : u[i] = buf[q + i]
    <3>1. IsCut(SubSeq(buf, q + 1, r), buf, q, r)
      BY <1>4, <2>2, CutIs
    <3> QED
      BY <2>3, <3>1, Zenon DEF IsCut
  <2>5. Len(u) = 1 /\ u[1] = m.body[3]
    BY <1>6, <2>2, <2>4
  <2>6. u = <<m.body[3]>>
    BY <2>4, <2>5, OneElement
  <2> QED
    BY <2>1, <2>3, <2>6
<1>13. SubSeq(buf, p + 1, p + 1) = <<m.body[1]>>
  <2>1. PICK r \in Nat : r = p + 1
    OBVIOUS
  <2>2. p <= r /\ r <= Len(buf) /\ r - p = 1 /\ 1 \in 1..(r - p) /\ 1 \in 1..b
    BY <1>1, <1>3, <2>1
  <2>3. PICK u : u = SubSeq(buf, p + 1, r)
    OBVIOUS
  <2>4. u \in Seq(STRING) /\ Len(u) = r - p /\ \A i \in 1..(r - p) : u[i] = buf[p + i]
    <3>1. IsCut(SubSeq(buf, p + 1, r), buf, p, r)
      BY <1>4, <2>2, CutIs
    <3> QED
      BY <2>3, <3>1, Zenon DEF IsCut
  <2>5. Len(u) = 1 /\ u[1] = m.body[1]
    BY <1>6, <2>2, <2>4
  <2>6. u = <<m.body[1]>>
    BY <2>4, <2>5, OneElement
  <2> QED
    BY <2>1, <2>3, <2>6
<1>14. SubSeq(buf, (p + 3) + 2, p + b) = SubSeq(m.body, 5, b)
  <2>1. PICK q \in Nat, r \in Nat : q = p + 4 /\ r = p + b /\ q + 1 = (p + 3) + 2
    OBVIOUS
  <2>2. q <= r /\ r <= Len(buf) /\ r - q = b - 4
    BY <1>1, <1>3, <2>1
  <2>3. PICK u : u = SubSeq(buf, q + 1, r)
    OBVIOUS
  <2>4. u \in Seq(STRING) /\ Len(u) = r - q /\ \A i \in 1..(r - q) : u[i] = buf[q + i]
    <3>1. IsCut(SubSeq(buf, q + 1, r), buf, q, r)
      BY <1>4, <2>2, CutIs
    <3> QED
      BY <2>3, <3>1, Zenon DEF IsCut
  <2>5. PICK w : w = SubSeq(m.body, 4 + 1, b)
    OBVIOUS
  <2>6. w \in Seq(STRING) /\ Len(w) = b - 4 /\ \A i \in 1..(b - 4) : w[i] = m.body[4 + i]
    <3>1. 4 \in Nat /\ 4 <= b /\ b <= Len(m.body)
      BY <1>3, <1>4
    <3>2. IsCut(SubSeq(m.body, 4 + 1, b), m.body, 4, b)
      BY <1>4, <3>1, CutIs, Zenon
    <3> QED
      BY <2>5, <3>2, Zenon DEF IsCut
  <2>7. \A i \in 1..(b - 4) : u[i] = w[i]
    <3> SUFFICES ASSUME NEW i \in 1..(b - 4) PROVE u[i] = w[i]
      OBVIOUS
    <3>1. 4 + i \in 1..b /\ q + i = p + (4 + i) /\ i \in 1..(r - q)
      BY <2>1, <2>2
    <3> QED
      BY <1>6, <2>4, <2>6, <3>1
  <2>8. Len(u) = b - 4 /\ Len(u) = Len(w)
    BY <2>2, <2>4, <2>6
  <2>9. u = w
    BY <2>4, <2>6, <2>7, <2>8, SeqEqual
  <2>10. 4 + 1 = 5
    OBVIOUS
  <2> QED
    BY <2>1, <2>3, <2>5, <2>9, <2>10
<1>15. Routed(p, b) = [what |-> Destination(SubSeq(buf, (p + 1) + 2, p + 3)),
                       id |-> SubSeq(buf, p + 1, p + 1),
                       payload |-> SubSeq(buf, (p + 3) + 2, p + b), at |-> base + p]
    BY <1>9, <1>10, <1>11, Zenon DEF Routed
<1> QED
    BY <1>1, <1>2, <1>3, <1>12, <1>13, <1>14, <1>15, Zenon DEF Sent

\* Where the messages routed so far end, as a number.
LEMMA EndType ==
    ASSUME conv \in Seq(Parts), NEW k \in Nat, k <= Len(conv)
    PROVE  BodyEnd(k) \in Nat /\ BodyEnd(k) <= Len(Stream) /\ Len(Stream) \in Nat
<1>1. PICK n \in Nat : n = Len(conv)
    OBVIOUS
<1>2. k \in 0..n /\ n \in 0..n /\ n \in k..n
    BY <1>1
<1>3. Chars(conv, k) \in Seq(STRING) /\ Chars(conv, n) \in Seq(STRING)
    BY <1>1, <1>2, CharsType
<1>4. Len(Chars(conv, k)) <= Len(Chars(conv, n))
    BY <1>1, <1>2, CharsPrefix
<1> QED
    BY <1>1, <1>3, <1>4 DEF BodyEnd, Stream

\* Before the next message, or at the end if there is none.
LEMMA SepEndIs ==
    ASSUME conv \in Seq(Parts), log \in Seq(Entries), Len(log) <= Len(conv)
    PROVE  /\ BodyEnd(Len(log)) \in Nat /\ SepEnd \in Nat
           /\ Len(log) < Len(conv) \/ (SepEnd = Len(Stream) /\ BodyEnd(Len(log)) = Len(Stream))
<1>1. PICK k \in Nat, n \in Nat : k = Len(log) /\ n = Len(conv) /\ k <= n
  <2>1. Len(log) \in Nat /\ Len(conv) \in Nat
    OBVIOUS
  <2> QED
    BY <2>1, Zenon
<1>2. PICK E \in Nat : E = BodyEnd(k)
    BY <1>1, EndType
<1>3. CASE k = n
  <2>1. BodyEnd(k) = Len(Stream) /\ SepEnd = Len(Stream)
    BY <1>1, <1>3 DEF SepEnd, BodyEnd, Stream
  <2> QED
    BY <1>1, <1>2, <2>1, Zenon
<1>4. CASE k # n
  <2>1. k + 1 \in 1..n /\ k < n
    BY <1>1, <1>4
  <2>2. conv[k + 1] \in Parts
    BY <1>1, <2>1
  <2>3. PICK a \in Nat : a = Len(conv[k + 1].sep)
    BY <2>2 DEF Parts
  <2>4. SepEnd = E + a
    BY <1>1, <1>2, <1>4, <2>3, Zenon DEF SepEnd
  <2>5. E + a \in Nat
    OBVIOUS
  <2> QED
    <3>1. SepEnd \in Nat
      BY <2>4, <2>5
    <3>2. BodyEnd(Len(log)) \in Nat /\ Len(log) < Len(conv)
      BY <1>1, <1>2, <2>1
    <3> QED
      BY <3>1, <3>2, Zenon
<1> QED
    BY <1>3, <1>4, Zenon

\* Everything that the place of the parser depends on besides base, pos, found and pc.
LEMMA SamePlaces ==
    ASSUME UNCHANGED <<conv, log>>
    PROVE  /\ RoutedAsSent => RoutedAsSent'
           /\ BodyEnd(Len(log))' = BodyEnd(Len(log)) /\ SepEnd' = SepEnd
           /\ BodyEnd(Len(log) + 1)' = BodyEnd(Len(log) + 1)
           /\ Len(log)' = Len(log) /\ Len(conv)' = Len(conv)
    BY DEF RoutedAsSent, BodyEnd, BodyStart, SepEnd

\* A call of dispatch_request that ends before the next message keeps the place.
LEMMA PlaceFinish ==
    ASSUME TypeOK, StreamInv, RoutedAsSent, PlaceInv, NEW s \in Nat, s <= Size, Finish(s),
           BodyEnd(Len(log)) <= base + s, base + s <= SepEnd,
           ~found /\ Len(log) < Len(conv) => base + Size < BodyEnd(Len(log) + 1)
    PROVE  RoutedAsSent' /\ PlaceInv'
<1>1. /\ base' = base + s /\ pos' = 0 /\ found' = FALSE /\ UNCHANGED <<conv, log>>
      /\ pc' = IF found THEN "scan" ELSE "idle"
    BY DEF Finish
<1>2. /\ RoutedAsSent' /\ BodyEnd(Len(log))' = BodyEnd(Len(log)) /\ SepEnd' = SepEnd
      /\ BodyEnd(Len(log) + 1)' = BodyEnd(Len(log) + 1)
      /\ Len(log)' = Len(log) /\ Len(conv)' = Len(conv)
    BY <1>1, SamePlaces
<1>3. PICK B \in Nat, z \in Nat : B = base /\ z = Size
  <2>1. base \in Nat /\ Size \in Nat
    BY DEF TypeOK, Size
  <2> QED
    BY <2>1, Zenon
<1>4. Size' = z - s /\ s <= z
    BY <1>3, FinishStep
<1>5. base' + pos' = base + s
  <2>1. (B + s) + 0 = B + s
    OBVIOUS
  <2> QED
    BY <1>1, <1>3, <2>1
<1>6. base' + Size' = base + Size
  <2>1. (B + s) + (z - s) = B + z
    BY <1>4
  <2> QED
    BY <1>1, <1>3, <1>4, <2>1
<1>7. BodyEnd(Len(log))' <= base' + pos' /\ base' + pos' <= SepEnd'
    BY <1>2, <1>5, Zenon
<1>8. pc' = "idle" => ~found
    BY <1>1
<1>9. pc' = "idle" /\ Len(log)' < Len(conv)' => base' + Size' < BodyEnd(Len(log) + 1)'
    BY <1>2, <1>6, <1>8, Zenon
<1> QED
    BY <1>1, <1>2, <1>7, <1>9, Zenon DEF PlaceInv

\* Message k + 1, whose b characters of body end at E, is routed from d on.
TakesPlace(k, E, b, d) ==
    /\ k = Len(log) /\ BodyEnd(k + 1) = E
    /\ log' = Append(log, Routed(d + 1, b)) /\ pos' = d + 1 + b /\ found' = TRUE
    /\ pc' = "scan" /\ UNCHANGED <<conv, base>>

\* A message that is routed as it was sent takes its place in the log.
LEMMA PlaceRoute ==
    ASSUME TypeOK, RoutedAsSent, conv \in Seq(Parts), InStep,
           NEW k \in Nat, k < Len(conv), NEW m \in Parts,
           NEW e \in Nat, NEW a \in Nat, NEW h \in Nat, NEW b \in Nat,
           Upcoming(k, m, e, a, h, b), Formed(m, a, h, b), Reading(m, e, a, h, b),
           NEW d \in Nat, Arrived(e, a, h, b, d), TakesPlace(k, e + a + h + b, b, d)
    PROVE  RoutedAsSent' /\ PlaceInv'
<1>1. /\ log' = Append(log, Routed(d + 1, b)) /\ pos' = d + 1 + b /\ found' = TRUE
      /\ pc' = "scan" /\ conv' = conv /\ base' = base /\ k = Len(log)
      /\ BodyEnd(k + 1) = e + a + h + b
    BY DEF TakesPlace
<1>2. log \in Seq(Entries)
    BY DEF TypeOK, Entries
<1>3. PICK r : r = Routed(d + 1, b)
    OBVIOUS
<1>4. r = [what |-> Destination(<<m.body[3]>>), id |-> <<m.body[1]>>,
           payload |-> SubSeq(m.body, 5, b), at |-> e + a + h]
  <2>1. Routed(d + 1, b) = Sent(m, b, e + a + h)
    BY RoutedIs
  <2> QED
    BY <1>3, <2>1, Zenon DEF Sent
<1>5. /\ Len(log') = k + 1 /\ log'[k + 1] = r
      /\ DOMAIN log' = 1..(k + 1) /\ DOMAIN log = 1..k /\ \A i \in 1..k : log'[i] = log[i]
    BY <1>1, <1>2, <1>3
<1>6. m = conv[k + 1] /\ Len(m.body) = b
    BY DEF Upcoming
<1>7. BodyStart(k + 1) = e + a + h
  <2>1. (e + a + h + b) - b = e + a + h
    OBVIOUS
  <2> QED
    BY <1>1, <1>6, <2>1 DEF BodyStart
<1>8. RoutedAsSent'
  <2>1. k + 1 <= Len(conv)
    OBVIOUS
  <2>2. \A i \in 1..(k + 1) : i \in 1..k \/ i = k + 1
    OBVIOUS
  <2>3. \A i : BodyStart(i)' = BodyStart(i)
    BY <1>1 DEF BodyStart, BodyEnd
  <2>4. \A i \in 1..k :
           log[i] = [what |-> Destination(<<conv[i].body[3]>>), id |-> <<conv[i].body[1]>>,
                     payload |-> SubSeq(conv[i].body, 5, Len(conv[i].body)),
                     at |-> BodyStart(i)]
    BY <1>5 DEF RoutedAsSent
  <2>5. r = [what |-> Destination(<<conv[k + 1].body[3]>>), id |-> <<conv[k + 1].body[1]>>,
             payload |-> SubSeq(conv[k + 1].body, 5, Len(conv[k + 1].body)),
             at |-> BodyStart(k + 1)]
    BY <1>4, <1>6, <1>7, Zenon
  <2>6. \A i \in 1..(k + 1) :
           log'[i] = [what |-> Destination(<<conv[i].body[3]>>), id |-> <<conv[i].body[1]>>,
                      payload |-> SubSeq(conv[i].body, 5, Len(conv[i].body)),
                      at |-> BodyStart(i)]
    BY <1>5, <2>2, <2>4, <2>5, Zenon
  <2> QED
    BY <1>1, <1>5, <2>1, <2>3, <2>6 DEF RoutedAsSent
<1>9. PlaceInv'
  <2>1. BodyEnd(Len(log))' = BodyEnd(k + 1)
    BY <1>1, <1>5 DEF BodyEnd
  <2>2. base' + pos' = e + a + h + b
    <3>1. PICK B \in Nat : B = base
      BY DEF TypeOK
    <3>2. base + d + 1 = e + a + h
      BY DEF Arrived
    <3>3. B + d + 1 = e + a + h
      BY <3>1, <3>2
    <3>4. B + (d + 1 + b) = e + a + h + b
      BY <3>3
    <3> QED
      BY <1>1, <3>1, <3>4
  <2>3. PICK E \in Nat : E = BodyEnd(k + 1) /\ E = base' + pos'
    BY <1>1, <2>2
  <2>4. log' \in Seq(Entries) /\ conv' \in Seq(Parts) /\ Len(log') <= Len(conv')
    <3>1. r \in Entries
      <4>1. d + 1 \in Nat /\ buf \in Seq(STRING) /\ base \in Nat
        BY DEF TypeOK
      <4>2. d + 1 + b <= Size
        BY DEF Arrived, Whole
      <4> QED
        BY <1>3, <4>1, <4>2, RoutedType
    <3>2. log' \in Seq(Entries)
      BY <1>1, <1>2, <1>3, <3>1
    <3>3. k + 1 <= Len(conv)
      OBVIOUS
    <3> QED
      BY <1>1, <1>5, <3>2, <3>3
  <2>5. E <= SepEnd'
    <3>1. CASE k + 1 = Len(conv)
      <4>1. SepEnd' = E
        BY <1>1, <1>5, <2>1, <2>3, <3>1, Zenon DEF SepEnd
      <4> QED
        BY <4>1
    <3>2. CASE k + 1 # Len(conv)
      <4>1. (k + 1) + 1 \in 1..Len(conv)
        BY <3>2
      <4>2. conv[(k + 1) + 1] \in Parts
        BY <4>1
      <4>3. PICK c \in Nat : c = Len(conv[(k + 1) + 1].sep)
        <5>1. PICK w \in Parts : w = conv[(k + 1) + 1]
          BY <4>2, Zenon
        <5>2. Len(w.sep) \in Nat
          BY DEF Parts
        <5> QED
          BY <5>1, <5>2, Zenon
      <4>4. SepEnd' = E + c
        BY <1>1, <1>5, <2>1, <2>3, <3>2, <4>3, Zenon DEF SepEnd
      <4>5. E <= E + c
        OBVIOUS
      <4> QED
        BY <4>4, <4>5
    <3> QED
      BY <3>1, <3>2
  <2>6. BodyEnd(Len(log))' <= base' + pos' /\ base' + pos' <= SepEnd'
    <3>1. E <= E
      OBVIOUS
    <3> QED
      BY <2>1, <2>3, <2>5, <3>1, Zenon
  <2> QED
    BY <1>1, <2>6 DEF PlaceInv
<1> QED
    BY <1>8, <1>9

\* With no message left, the parser is at the end of what there is.
LEMMA PlaceAtEnd ==
    ASSUME TypeOK, StreamInv, conv \in Seq(Parts), RoutedAsSent, PlaceInv,
           ~(Len(log) < Len(conv)), NEW s, NEW d, Positions(s, d),
           NoLength(s, d) \/ Resync(s, d) \/ Incomplete(s, d) \/ Route(s, d)
    PROVE  RoutedAsSent' /\ PlaceInv'
<1>1. log \in Seq(Entries) /\ Len(log) <= Len(conv)
    BY DEF TypeOK, Entries, RoutedAsSent
<1>2. PICK L \in Nat : L = Len(Stream) /\ SepEnd = L /\ BodyEnd(Len(log)) = L
    BY <1>1, SepEndIs
<1>3. PICK B \in Nat, z \in Nat, p \in Nat, t \in Nat :
        B = base /\ z = Size /\ p = pos /\ t = Len(todo) /\ p <= z
  <2>1. base \in Nat /\ Size \in Nat /\ pos \in 0..Size /\ Len(todo) \in Nat
    BY DEF TypeOK, Size
  <2>2. pos \in Nat /\ pos <= Size
    BY <2>1
  <2> QED
    BY <2>1, <2>2, Zenon
<1>4. B + z + t = L /\ L <= B + p /\ B + p <= L
    BY <1>2, <1>3, Zenon DEF TypeOK, Stream, PlaceInv
<1>5. p = z
    BY <1>3, <1>4
<1>6. s \in Nat /\ d \in Nat /\ pos <= s /\ s <= d /\ d <= Size
    BY ScanAt DEF Positions
<1>7. p <= s /\ s <= d /\ d <= z
    BY <1>3, <1>6, Zenon
<1>8. s = z /\ d = z
    BY <1>5, <1>6, <1>7
<1>9. ~(z < z)
    OBVIOUS
<1>10. ~(d < Size)
    BY <1>3, <1>8, <1>9, Zenon
<1>11. Finish(s)
    BY <1>10 DEF NoLength, Resync, Incomplete, Route
<1>12. s <= Size
    BY <1>3, <1>8
<1>13. B + s = L /\ L <= L
    BY <1>4, <1>5, <1>8
<1>14. BodyEnd(Len(log)) <= base + s /\ base + s <= SepEnd
    BY <1>2, <1>3, <1>13, Zenon
<1> QED
    BY <1>6, <1>11, <1>12, <1>14, PlaceFinish

\* Before the next message, each way round the loop keeps the place.
LEMMA PlaceBefore ==
    ASSUME TypeOK, StreamInv, conv \in Seq(Parts), InStep, RoutedAsSent, PlaceInv,
           Len(log) < Len(conv), NEW s, NEW d, Positions(s, d),
           NoLength(s, d) \/ Resync(s, d) \/ Incomplete(s, d) \/ Route(s, d)
    PROVE  RoutedAsSent' /\ PlaceInv'
<1>1. PICK k \in Nat : k = Len(log) /\ k < Len(conv)
    BY DEF TypeOK
<1>2. PICK m \in Parts : \E e, a, h, b \in Nat :
              /\ Upcoming(k, m, e, a, h, b) /\ Reading(m, e, a, h, b)
              /\ BodyEnd(k + 1) = e + a + h + b
    BY <1>1, Reads
<1>3. PICK e, a, h, b \in Nat :
              /\ Upcoming(k, m, e, a, h, b) /\ Reading(m, e, a, h, b)
              /\ BodyEnd(k + 1) = e + a + h + b
    BY <1>2
<1>4. Formed(m, a, h, b)
    BY <1>1, <1>3, FormedIs
<1>5. BodyEnd(k) = e /\ SepEnd = e + a
  <2>1. BodyEnd(k) = e /\ m = conv[k + 1] /\ a = Len(m.sep)
    BY <1>3 DEF Upcoming
  <2>2. k # Len(conv)
    BY <1>1
  <2> QED
    BY <1>1, <2>1, <2>2, Zenon DEF SepEnd
<1>6. e <= base + pos /\ base + pos <= e + a /\ (~found => pos = 0)
    BY <1>1, <1>5, Zenon DEF PlaceInv
<1>7. e <= base + s /\ base + s <= e + a /\ Finds(e, a, h, b, s, d)
    BY <1>3, <1>4, <1>6, ScanFinds
<1>8. s \in Nat /\ d \in Nat /\ pos <= s /\ s <= d /\ d <= Size /\ Size \in Nat
  <2>1. Size \in Nat
    BY DEF TypeOK, Size
  <2> QED
    BY <2>1, ScanAt DEF Positions
<1>9. s <= Size /\ (d < Size => ~(d >= Size))
    BY <1>8
<1>10. ASSUME Finish(s), ~found => base + Size < e + a + h + b
       PROVE  RoutedAsSent' /\ PlaceInv'
  <2>1. BodyEnd(Len(log)) <= base + s /\ base + s <= SepEnd
    BY <1>1, <1>5, <1>7, Zenon
  <2>2. ~found => base + Size < BodyEnd(Len(log) + 1)
    BY <1>1, <1>3, <1>10, Zenon
  <2> QED
    BY <1>8, <1>9, <1>10, <2>1, <2>2, PlaceFinish
<1>11. CASE d = Size /\ base + Size < e + a + h + b
  <2>1. ~(d < Size)
    BY <1>8, <1>11
  <2>2. Finish(s)
    BY <2>1 DEF NoLength, Resync, Incomplete, Route
  <2> QED
    BY <1>10, <1>11, <2>2
<1>12. CASE d < Size /\ At(d) # " " /\ found
  <2>1. Find(LineEnds, d) = -1
    <3>1. buf \in Seq(STRING) /\ DOMAIN buf = 1..Size /\ base \in Nat
      BY DEF TypeOK, Size
    <3>2. \A q \in d..(Size - 1) : At(q) \notin LineEnds
      <4> SUFFICES ASSUME NEW q \in d..(Size - 1) PROVE At(q) \notin LineEnds
        OBVIOUS
      <4>1. q + 1 \in DOMAIN buf
        BY <1>8, <3>1
      <4>2. At(q) = Stream[base + (q + 1)]
        BY <4>1 DEF At, StreamInv
      <4>3. base + (q + 1) \in DOMAIN Stream
        <5>1. PICK B \in Nat, z \in Nat, t \in Nat, L \in Nat :
                B = base /\ z = Size /\ t = Len(todo) /\ L = Len(Stream)
          <6>1. Len(todo) \in Nat /\ Len(Stream) \in Nat
            BY <1>1, EndType DEF TypeOK
          <6> QED
            BY <1>8, <3>1, <6>1, Zenon
        <5>2. B + z + t = L
          BY <5>1, Zenon DEF TypeOK, Stream
        <5>3. q + 1 \in 1..z
          BY <3>1, <4>1, <5>1, Zenon
        <5>4. B + (q + 1) \in 1..L
          BY <5>2, <5>3
        <5>5. DOMAIN Stream = 1..L
          <6>1. Len(conv) \in 0..Len(conv)
            OBVIOUS
          <6>2. Stream \in Seq(STRING)
            BY <6>1, CharsType DEF Stream
          <6> QED
            BY <5>1, <6>2
        <5> QED
          BY <5>1, <5>4, <5>5, Zenon
      <4> QED
        BY <4>2, <4>3, NoNewline
    <3>3. PICK f : f = Find(LineEnds, d)
      OBVIOUS
    <3>4. f = -1 \/ (f \in d..(Size - 1) /\ At(f) \in LineEnds)
      BY <1>8, <3>1, <3>3, FindIs
    <3>5. f = -1
      BY <3>2, <3>4
    <3> QED
      BY <3>3, <3>5
  <2>2. ~(d >= Size)
    BY <1>9, <1>12, Zenon
  <2>3. Finish(s)
    BY <1>12, <2>1, <2>2 DEF NoLength, Resync, Incomplete, Route
  <2> QED
    BY <1>10, <1>12, <2>3
<1>13. CASE d < Size /\ At(d) = " " /\ base + d + 1 = e + a + h /\ Number(s, d) = b
  <2>1. ~(d >= Size)
    BY <1>9, <1>13, Zenon
  <2>2. CASE ~Whole(d, b)
    <3>1. Finish(s)
      BY <1>13, <2>1, <2>2 DEF NoLength, Resync, Incomplete, Route
    <3>2. base + Size < e + a + h + b
      <4>1. PICK B \in Nat, z \in Nat : B = base /\ z = Size
        <5>1. base \in Nat
          BY DEF TypeOK
        <5> QED
          BY <1>8, <5>1, Zenon
      <4>2. B + d + 1 = e + a + h
        BY <1>13, <4>1, Zenon
      <4>3. ~(d + 1 + b <= z)
        BY <2>2, <4>1, Zenon DEF Whole
      <4>4. B + z < e + a + h + b
        BY <1>8, <4>2, <4>3
      <4> QED
        BY <4>1, <4>4, Zenon
    <3> QED
      BY <1>10, <3>1, <3>2
  <2>3. CASE Whole(d, b)
    <3>1. Route(s, d)
      BY <1>13, <2>1, <2>3 DEF NoLength, Resync, Incomplete
    <3>2. Arrived(e, a, h, b, d)
      BY <1>13, <2>3, Zenon DEF Arrived
    <3>3. TakesPlace(k, e + a + h + b, b, d)
      BY <1>1, <1>3, <1>13, <3>1, Zenon DEF Route, TakesPlace
    <3> QED
      BY <1>1, <1>3, <1>4, <1>8, <3>2, <3>3, PlaceRoute
  <2> QED
    BY <2>2, <2>3
<1> QED
    BY <1>7, <1>11, <1>12, <1>13 DEF Finds

-----------------------------------------------------------------------------
(***************************************************************************)
(* The theorems.                                                           *)
(***************************************************************************)
\* A conversation is a sequence of items with their three parts.
LEMMA ConvType ==
    ASSUME TypeOK
    PROVE  conv \in Seq(Parts)
    BY DispatcherAssumption DEF TypeOK, Parts

\* Nothing is routed yet, and the first message is not empty.
LEMMA PlaceInit ==
    ASSUME Init, InStep
    PROVE  RoutedAsSent /\ PlaceInv
<1>1. TypeOK /\ StreamInv /\ conv \in Seq(Parts)
    BY CoreInit, ConvType
<1>2. log = <<>> /\ Len(log) = 0 /\ base = 0 /\ pos = 0 /\ Size = 0 /\ pc = "idle" /\ found = FALSE
    BY DEF Init, Size
<1>3. PICK n \in Nat : n = Len(conv)
    BY <1>1
<1>4. RoutedAsSent
  <2>1. 0 <= n
    OBVIOUS
  <2>2. DOMAIN log = {}
    BY <1>2
  <2> QED
    BY <1>2, <1>3, <2>1, <2>2 DEF RoutedAsSent
<1>5. BodyEnd(0) = 0
    BY <1>1, CharsZero DEF BodyEnd
<1>6. SepEnd \in Nat
  <2>1. log \in Seq(Entries) /\ Len(log) <= Len(conv)
    BY <1>1, <1>4 DEF TypeOK, Entries, RoutedAsSent
  <2> QED
    BY <1>1, <2>1, SepEndIs
<1>7. 0 < n => 0 < BodyEnd(0 + 1)
  <2> SUFFICES ASSUME 0 < n PROVE 0 < BodyEnd(0 + 1)
    OBVIOUS
  <2>1. 0 \in Nat /\ 0 < Len(conv)
    BY <1>3
  <2>2. PICK m \in Parts, e \in Nat, a \in Nat, h \in Nat, b \in Nat :
          Upcoming(0, m, e, a, h, b) /\ BodyEnd(0 + 1) = e + a + h + b
    BY <1>1, <2>1, Reads
  <2>3. Formed(m, a, h, b)
    BY <1>1, <2>1, <2>2, FormedIs
  <2>4. b >= 4
    BY <2>3 DEF Formed
  <2>5. 0 < e + a + h + b
    BY <2>4
  <2> QED
    BY <2>2, <2>5
<1>8. 0 + 0 = 0 /\ 0 <= 0 /\ 0 <= SepEnd
    BY <1>6
<1>9. BodyEnd(Len(log)) <= base + pos /\ base + pos <= SepEnd
    BY <1>2, <1>5, <1>8, Zenon
<1>10. Len(log) < Len(conv) => base + Size < BodyEnd(Len(log) + 1)
    BY <1>2, <1>3, <1>7, <1>8, Zenon
<1> QED
    BY <1>2, <1>4, <1>9, <1>10 DEF PlaceInv

\* A conversation in step stays in step with every step.
LEMMA PlaceStep ==
    ASSUME TypeOK, StreamInv, InStep, RoutedAsSent, PlaceInv, [Next]_vars
    PROVE  RoutedAsSent' /\ PlaceInv'
<1>1. conv \in Seq(Parts)
    BY ConvType
<1>2. ASSUME NEW n \in 1..Len(todo), Receive(n) PROVE RoutedAsSent' /\ PlaceInv'
  <2>1. pc = "idle" /\ pc' = "scan" /\ pos' = 0 /\ found' = FALSE /\ UNCHANGED <<conv, base, log>>
    BY <1>2 DEF Receive
  <2>2. /\ RoutedAsSent' /\ BodyEnd(Len(log))' = BodyEnd(Len(log)) /\ SepEnd' = SepEnd
    BY <2>1, SamePlaces
  <2>3. pos = 0 /\ BodyEnd(Len(log)) <= base + pos /\ base + pos <= SepEnd
    BY <2>1 DEF PlaceInv
  <2>4. BodyEnd(Len(log))' <= base' + pos' /\ base' + pos' <= SepEnd'
    BY <2>1, <2>2, <2>3, Zenon
  <2> QED
    BY <2>1, <2>2, <2>4 DEF PlaceInv
<1>3. ASSUME NEW s, NEW d, Positions(s, d),
             NoLength(s, d) \/ Resync(s, d) \/ Incomplete(s, d) \/ Route(s, d)
      PROVE  RoutedAsSent' /\ PlaceInv'
  <2>1. CASE Len(log) < Len(conv)
    BY <1>1, <1>3, <2>1, PlaceBefore
  <2>2. CASE ~(Len(log) < Len(conv))
    BY <1>1, <1>3, <2>2, PlaceAtEnd
  <2> QED
    BY <2>1, <2>2
<1>4. CASE UNCHANGED vars
  <2>1. /\ RoutedAsSent' /\ BodyEnd(Len(log))' = BodyEnd(Len(log)) /\ SepEnd' = SepEnd
        /\ BodyEnd(Len(log) + 1)' = BodyEnd(Len(log) + 1) /\ Size' = Size
        /\ Len(log)' = Len(log) /\ Len(conv)' = Len(conv)
    BY <1>4, SamePlaces DEF vars, Size
  <2>2. pos' = pos /\ base' = base /\ found' = found /\ pc' = pc
    BY <1>4 DEF vars
  <2> QED
    BY <2>1, <2>2, Zenon DEF PlaceInv
<1> QED
    BY <1>2, <1>3, <1>4 DEF Next, Scan, Done, Positions

\* A step changes no conversation.
LEMMA InStepKept ==
    ASSUME [Next]_vars
    PROVE  InStep' => InStep
<1>1. conv' = conv
    BY DEF Next, Scan, Done, Receive, NoLength, Resync, Incomplete, Route, Finish, vars
<1> QED
    BY <1>1 DEF InStep, IsMessage

\* The inductive invariant: types, the buffer as a part of the stream and, for
\* conversations that the parser is up to, its place between their messages.
THEOREM Inductive == Spec => []IInv
<1>1. Init => IInv
    BY CoreInit, PlaceInit DEF IInv
<1>2. IInv /\ [Next]_vars => IInv'
  <2> SUFFICES ASSUME IInv, [Next]_vars PROVE IInv'
    OBVIOUS
  <2>1. TypeOK /\ StreamInv /\ (InStep => RoutedAsSent /\ PlaceInv)
    BY DEF IInv
  <2>2. TypeOK' /\ StreamInv'
    BY <2>1, CoreStep
  <2>3. InStep' => RoutedAsSent' /\ PlaceInv'
    BY <2>1, InStepKept, PlaceStep
  <2> QED
    BY <2>2, <2>3 DEF IInv
<1> QED
    BY <1>1, <1>2, PTL DEF Spec

\* The variables of the parser keep their types on every input: positions stay inside
\* read_buf and no character is lost or read twice, however the stream is cut and however
\* broken it is.
THEOREM TypeCorrect == Spec => []TypeOK
<1>1. IInv => TypeOK
    BY DEF IInv
<1> QED
    BY <1>1, Inductive, PTL

\* dispatch_request routes every message of a client that keeps to the form of send(), once,
\* in order, to the target it named and with its id and payload, for conversations of any
\* length, messages of any size and any way of cutting the stream.
THEOREM AsSentCorrect == Spec => []InStepRoutedAsSent
<1>1. IInv => InStepRoutedAsSent
    BY DEF IInv, InStepRoutedAsSent
<1> QED
    BY <1>1, Inductive, PTL

\* When main goes back to select, every message of such a client that has arrived
\* completely was routed: none waits in read_buf for the next read.
THEOREM PromptlyCorrect == Spec => []InStepRoutedPromptly
<1>1. IInv => InStepRoutedPromptly
  <2> SUFFICES ASSUME TypeOK, InStep, RoutedAsSent, PlaceInv, pc = "idle",
                      NEW k \in DOMAIN conv, BodyEnd(k) <= base + Size, k \notin DOMAIN log
               PROVE  FALSE
    BY DEF IInv, InStepRoutedPromptly, RoutedPromptly
  <2>1. conv \in Seq(Parts) /\ log \in Seq(Entries)
    BY ConvType DEF TypeOK, Entries
  <2>2. PICK n \in Nat, l \in Nat : n = Len(conv) /\ l = Len(log)
    BY <2>1
  <2>3. k \in Nat /\ l + 1 <= k /\ k <= n /\ l < n
    BY <2>1, <2>2
  <2>4. base + Size < BodyEnd(l + 1)
    BY <2>2, <2>3 DEF PlaceInv
  <2>5. BodyEnd(l + 1) <= BodyEnd(k)
    <3>1. l + 1 \in Nat /\ l + 1 <= Len(conv) /\ k \in (l + 1)..Len(conv)
      BY <2>2, <2>3
    <3> QED
      BY <2>1, <3>1, CharsPrefix DEF BodyEnd
  <2>6. base + Size \in Nat /\ BodyEnd(l + 1) \in Nat /\ BodyEnd(k) \in Nat
    <3>1. base + Size \in Nat
      BY DEF TypeOK, Size
    <3>2. l + 1 \in Nat /\ l + 1 <= Len(conv) /\ k <= Len(conv)
      BY <2>2, <2>3
    <3> QED
      BY <2>1, <2>3, <3>1, <3>2, EndType
  <2>7. PICK x \in Nat, y \in Nat, z \in Nat :
          x = base + Size /\ y = BodyEnd(l + 1) /\ z = BodyEnd(k)
    BY <2>6, Zenon
  <2>8. x < y /\ y <= z /\ z <= x
    BY <2>4, <2>5, <2>7, Zenon
  <2> QED
    BY <2>8
<1> QED
    BY <1>1, Inductive, PTL

\* Each way round the loop leaves less to do, or ends it.
LEMMA ScanStep ==
    ASSUME TypeOK, StreamInv, NEW s, NEW d, Positions(s, d),
           NoLength(s, d) \/ Resync(s, d) \/ Incomplete(s, d) \/ Route(s, d)
    PROVE  pc' = "idle" \/ Left' \in 0..(Left - 1)
<1>1. PICK z \in Nat, p \in Nat, t \in Nat :
        /\ z = Size /\ p = pos /\ p <= z
        /\ t = (IF found THEN 1 ELSE 0) /\ t <= 1 /\ (found => t = 1)
  <2>1. Size \in Nat /\ pos \in 0..Size /\ found \in BOOLEAN
    BY DEF TypeOK, Size
  <2>2. PICK z \in Nat : z = Size
    BY <2>1, Zenon
  <2>3. PICK p \in Nat : p = pos /\ p <= z
    BY <2>1, <2>2
  <2>4. PICK t \in Nat : t = (IF found THEN 1 ELSE 0) /\ t <= 1 /\ (found => t = 1)
    <3>1. CASE found
      BY <3>1
    <3>2. CASE ~found
      BY <3>2
    <3> QED
      BY <3>1, <3>2
  <2> QED
    BY <2>2, <2>3, <2>4, Zenon
<1>2. Left = 2 * (z - p) + t
    BY <1>1 DEF Left
<1>3. /\ s \in Nat /\ d \in Nat /\ p <= s /\ s <= d /\ d <= z
      /\ Number(s, d) \in Nat
    BY <1>1, ScanAt DEF Positions
<1>4. CASE Finish(s)
  <2>1. pos' = 0 /\ found' = FALSE /\ (found \/ pc' = "idle")
    BY <1>4 DEF Finish
  <2>2. Size' = z - s
    <3>1. s <= Size
      BY <1>1, <1>3
    <3> QED
      BY <1>1, <1>3, <1>4, <3>1, FinishStep
  <2>3. Left' = 2 * ((z - s) - 0) + 0
    BY <2>1, <2>2 DEF Left
  <2>4. CASE found
    <3>1. t = 1
      BY <1>1, <2>4
    <3>2. 2 * ((z - s) - 0) + 0 \in 0..((2 * (z - p) + 1) - 1)
      BY <1>1, <1>3
    <3> QED
      BY <1>2, <2>3, <3>1, <3>2
  <2> QED
    BY <2>1, <2>4
<1>5. ASSUME NEW q \in Nat, pos' = q, p < q, q <= z, buf' = buf,
             found' = TRUE \/ found' = found
      PROVE  Left' \in 0..(Left - 1)
  <2>1. PICK u \in Nat : /\ u = (IF found' THEN 1 ELSE 0) /\ u <= 1
    <3>1. CASE found'
      BY <3>1
    <3>2. CASE ~found'
      BY <3>2
    <3> QED
      BY <3>1, <3>2
  <2>2. Size' = z
    BY <1>1, <1>5 DEF Size
  <2>3. Left' = 2 * (z - q) + u
    BY <1>5, <2>1, <2>2 DEF Left
  <2>4. 2 * (z - q) + u \in 0..((2 * (z - p) + t) - 1)
    BY <1>1, <1>5, <2>1
  <2> QED
    BY <1>2, <2>3, <2>4
<1>6. CASE Resync(s, d) /\ ~Finish(s)
  <2>1. /\ d < Size /\ Find(LineEnds, d) # -1 /\ pos' = Find(LineEnds, d)
        /\ buf' = buf /\ found' = found
    BY <1>6 DEF Resync
  <2>2. PICK q : q = Find(LineEnds, d)
    OBVIOUS
  <2>3. q \in d..(Size - 1) /\ IsSpace(At(q))
    <3>1. buf \in Seq(STRING)
      BY DEF TypeOK
    <3>2. q \in d..(Size - 1) /\ At(q) \in LineEnds
      BY <1>3, <2>1, <2>2, <3>1, FindIs
    <3> QED
      BY <3>2, Zenon DEF IsSpace
  <2>4. ~IsSpace(At(s))
    <3>1. buf \in Seq(STRING) /\ pos \in 0..Size
      BY DEF TypeOK
    <3>2. s = Size \/ ~IsSpace(At(s))
      BY <3>1, SkipSpaceIs DEF Positions
    <3>3. s # Size
      BY <1>1, <1>3, <2>1
    <3> QED
      BY <3>2, <3>3
  <2>5. q # s
    BY <2>3, <2>4
  <2>6. q \in Nat /\ p < q /\ q <= z
    <3>1. q \in d..(z - 1)
      BY <1>1, <2>3, Zenon
    <3> QED
      BY <1>3, <2>5, <3>1
  <2> QED
    BY <1>5, <2>1, <2>2, <2>6
<1>7. CASE Route(s, d)
  <2>1. PICK n \in Nat : n = Number(s, d)
    BY <1>3
  <2>2. Whole(d, n) /\ found' = TRUE /\ pos' = d + 1 + n /\ buf' = buf
    BY <1>7, <2>1 DEF Route
  <2>3. d + 1 + n <= z
    BY <1>1, <2>2, Zenon DEF Whole
  <2>4. PICK q \in Nat : q = d + 1 + n /\ p < q /\ q <= z
    BY <1>3, <2>3
  <2> QED
    BY <1>5, <2>2, <2>4
<1> QED
  <2>1. Finish(s) \/ (Resync(s, d) /\ ~Finish(s)) \/ Route(s, d)
    BY DEF NoLength, Incomplete
  <2> QED
    BY <1>4, <1>6, <1>7, <2>1

\* dispatch_request, and the loop of mainloop that calls it, cannot go round for ever on any
\* input: every time round leaves less to do, counted in natural numbers, or ends the loop.
THEOREM NearsEndCorrect == Spec => ScanNearsEnd
<1>1. IInv /\ [Next]_vars => [pc = "scan" => pc' = "idle" \/ Left' \in 0..(Left - 1)]_vars
  <2> SUFFICES ASSUME TypeOK, StreamInv, Next, pc = "scan"
               PROVE  pc' = "idle" \/ Left' \in 0..(Left - 1)
    BY DEF IInv
  <2>1. Scan
    BY DEF Next, Receive, Done
  <2> QED
    BY <2>1, ScanStep DEF Scan, Positions
<1> QED
    BY <1>1, Inductive, PTL DEF Spec, ScanNearsEnd
=============================================================================
