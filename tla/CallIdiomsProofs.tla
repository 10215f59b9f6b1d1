-------------------------- MODULE CallIdiomsProofs --------------------------
(***************************************************************************)
(* Proofs about the calls of every function that ends in the most frequent *)
(* idiom of the library: its last statement but the answer is a request, a *)
(* test or a wait, and its result is what the function answers.  What the  *)
(* function does before that, the operation, the entities and their        *)
(* statuses are arbitrary.                                                 *)
(***************************************************************************)
EXTENDS CallsProofs

-----------------------------------------------------------------------------
(* Functions that end in one way.                                          *)

\* The end of a function: no statement of it catches or ends anything.
IsTail(K) ==
    /\ Sequence(K)
    /\ Len(K) > 0
    /\ \A i \in 1 .. Len(K) : K[i].do \notin {"end", "except", "finally"}

\* What is left of a thread that has the flags a: statements S of the
\* functions that are being called, of which the outermost ends at m, then
\* statements O of the function, for which the flags are A, and its tail K.
Before(S, O, K, A, s, a, m) ==
    /\ Sequence(s)
    /\ Len(s) >= Len(K)
    /\ \A i \in 1 .. Len(K) : s[(Len(s) - Len(K)) + i] = K[i]
    /\ m \in 0 .. (Len(s) - Len(K))
    /\ m = 0 => a = A
    /\ m > 0 => s[m].do = "end" /\ s[m].args = A
    /\ \A i \in 1 .. (m - 1) : s[i] \in S \/ s[i].do = "end"
    /\ \A i \in (m + 1) .. (Len(s) - Len(K)) : s[i] \in O

(* The lengths are numbers.                                                *)
LEMMA BeforeLens ==
    ASSUME NEW S, NEW O, NEW K, IsTail(K), NEW A, NEW s, NEW a, NEW m,
           Before(S, O, K, A, s, a, m)
    PROVE  Len(s) \in Nat /\ Len(K) \in Nat
<1>1. (\E U : s \in Seq(U)) /\ (\E U : K \in Seq(U))
  BY DEF IsTail, Sequence, Before
<1>2. QED
  BY <1>1, LenProperties

\* n is b and then what follows the first i elements of s.
Splices(n, s, i, b, K) ==
    /\ Sequence(n)
    /\ Len(n) = Len(b) + Len(s) - i
    /\ Len(b) \in Nat /\ Len(s) \in Nat /\ Len(K) \in Nat
    /\ Len(n) >= Len(K)
    /\ \A j \in 1 .. Len(b) : n[j] = b[j]
    /\ \A j \in (Len(b) + 1) .. Len(n) : n[j] = s[i + (j - Len(b))]
    /\ \A j \in 1 .. Len(K) : n[(Len(n) - Len(K)) + j] = K[j]

(* The first i statements of s are replaced by those of b.                 *)
LEMMA Spliced ==
    ASSUME NEW S, NEW O, NEW K, IsTail(K), NEW A, NEW s, NEW a, NEW m,
           Before(S, O, K, A, s, a, m),
           NEW i \in 0 .. (Len(s) - Len(K)), NEW b, Sequence(b)
    PROVE  Splices(b \o SubSeq(s, i + 1, Len(s)), s, i, b, K)
<1> DEFINE d == SubSeq(s, i + 1, Len(s))
           n == b \o d
<1>0. /\ Sequence(s) /\ Len(s) >= Len(K)
      /\ \A j \in 1 .. Len(K) : s[(Len(s) - Len(K)) + j] = K[j]
  BY DEF Before
<1>1. Len(s) \in Nat /\ Len(K) \in Nat
  BY BeforeLens
<1>2. i \in 0 .. Len(s)
  BY <1>1
<1>3. /\ Sequence(d) /\ Len(d) = Len(s) - i
      /\ \A j \in 1 .. Len(s) - i : d[j] = s[i + j]
  BY <1>0, <1>2, Dropped
<1> HIDE DEF d
<1>4. /\ Sequence(n) /\ Len(n) = Len(b) + Len(d)
      /\ Len(b) \in Nat
      /\ \A j \in 1 .. Len(b) : n[j] = b[j]
      /\ \A j \in 1 .. Len(d) : n[Len(b) + j] = d[j]
  <2>1. Joins(n, b, d)
    BY <1>3, Joined
  <2> HIDE DEF n
  <2>2. QED
    BY <2>1 DEF Joins
<1> HIDE DEF n
<1>5. Len(n) = Len(b) + Len(s) - i /\ Len(n) >= Len(K)
  BY <1>1, <1>3, <1>4
<1>6. \A j \in 1 .. Len(s) - i : n[Len(b) + j] = s[i + j]
  BY <1>3, <1>4
<1>7. \A j \in 1 .. Len(K) : n[(Len(n) - Len(K)) + j] = K[j]
  <2> SUFFICES ASSUME NEW j \in 1 .. Len(K)
               PROVE  n[(Len(n) - Len(K)) + j] = K[j]
    OBVIOUS
  <2> DEFINE l == (Len(s) - Len(K) - i) + j
  <2>1. l \in 1 .. Len(s) - i
    BY <1>1
  <2>2. /\ Len(b) + l = (Len(n) - Len(K)) + j
        /\ i + l = (Len(s) - Len(K)) + j
    <3>1. Len(b) \in Nat
      BY <1>4
    <3>2. QED
      BY <1>1, <3>1, <1>5
  <2> HIDE DEF l
  <2>3. n[Len(b) + l] = s[i + l]
    BY <2>1, <1>6
  <2>4. s[i + l] = K[j]
    BY <2>2, <1>0
  <2>5. QED
    BY <2>2, <2>3, <2>4
<1>8. \A j \in (Len(b) + 1) .. Len(n) : n[j] = s[i + (j - Len(b))]
  <2> SUFFICES ASSUME NEW j \in (Len(b) + 1) .. Len(n)
               PROVE  n[j] = s[i + (j - Len(b))]
    OBVIOUS
  <2> DEFINE k == j - Len(b)
  <2>1. Len(b) \in Nat
    BY <1>4
  <2>2. k \in 1 .. Len(s) - i /\ Len(b) + k = j
    BY <1>1, <1>5, <2>1
  <2> HIDE DEF k
  <2>3. n[Len(b) + k] = s[i + k]
    BY <2>2, <1>6
  <2>4. QED
    BY <2>2, <2>3 DEF k
<1>9. Splices(n, s, i, b, K)
  BY <1>1, <1>4, <1>5, <1>7, <1>8 DEF Splices
<1>10. QED
  BY <1>9 DEF n, d

(* ... within a function that is called.                                   *)
LEMMA SplicedWithin ==
    ASSUME NEW S, NEW O, NEW K, IsTail(K), NEW A, NEW s, NEW a, NEW m,
           Before(S, O, K, A, s, a, m), NEW i \in 0 .. (m - 1),
           NEW b, Sequence(b),
           \A j \in 1 .. Len(b) : b[j] \in S \/ b[j].do = "end", NEW c
    PROVE  Before(S, O, K, A, b \o SubSeq(s, i + 1, Len(s)), c,
                  Len(b) + m - i)
<1> DEFINE n == b \o SubSeq(s, i + 1, Len(s))
           l == Len(b) + m - i
<1>0. Len(s) \in Nat /\ Len(K) \in Nat
  BY BeforeLens
<1>1. m \in 0 .. (Len(s) - Len(K)) /\ i \in 0 .. (Len(s) - Len(K))
  BY <1>0 DEF Before
<1>2. Splices(n, s, i, b, K)
  BY <1>1, Spliced
<1> HIDE DEF n
<1>3. Len(b) \in Nat /\ Len(n) = Len(b) + Len(s) - i
  BY <1>2 DEF Splices
<1>4. l \in 1 .. (Len(n) - Len(K))
  BY <1>0, <1>1, <1>3
<1>5. n[l].do = "end" /\ n[l].args = A
  <2>1. l \in (Len(b) + 1) .. Len(n) /\ i + (l - Len(b)) = m
    <3>1. m \in Nat /\ i \in Nat /\ i + 1 <= m /\ m + Len(K) <= Len(s)
      BY <1>0, <1>1
    <3>2. QED
      BY <3>1, <1>0, <1>3
  <2>2. n[l] = s[m]
    BY <2>1, <1>2 DEF Splices
  <2>3. m > 0
    BY <1>0, <1>1
  <2>4. QED
    BY <2>2, <2>3 DEF Before
<1>6. \A j \in 1 .. (l - 1) : n[j] \in S \/ n[j].do = "end"
  <2> SUFFICES ASSUME NEW j \in 1 .. (l - 1)
               PROVE  n[j] \in S \/ n[j].do = "end"
    OBVIOUS
  <2>1. CASE j <= Len(b)
    <3>1. j \in 1 .. Len(b)
      BY <2>1, <1>3
    <3>2. QED
      BY <3>1, <1>2 DEF Splices
  <2>2. CASE j > Len(b)
    <3>1. j \in (Len(b) + 1) .. Len(n) /\ i + (j - Len(b)) \in 1 .. (m - 1)
      BY <2>2, <1>0, <1>1, <1>3
    <3>2. n[j] = s[i + (j - Len(b))]
      BY <3>1, <1>2 DEF Splices
    <3>3. QED
      BY <3>1, <3>2 DEF Before
  <2>3. QED
    BY <2>1, <2>2, <1>1, <1>3
<1>7. \A j \in (l + 1) .. (Len(n) - Len(K)) : n[j] \in O
  <2> SUFFICES ASSUME NEW j \in (l + 1) .. (Len(n) - Len(K))
               PROVE  n[j] \in O
    OBVIOUS
  <2>1. /\ j \in (Len(b) + 1) .. Len(n)
        /\ i + (j - Len(b)) \in (m + 1) .. (Len(s) - Len(K))
    <3>1. m \in Nat /\ i \in Nat
      BY <1>0, <1>1
    <3>2. j \in Int /\ j <= Len(n) - Len(K)
      BY <3>1, <1>0, <1>3
    <3>3. QED
      BY <3>1, <3>2, <1>0, <1>3
  <2>2. n[j] = s[i + (j - Len(b))]
    BY <2>1, <1>2 DEF Splices
  <2>3. QED
    BY <2>1, <2>2 DEF Before
<1> HIDE DEF l
<1>8. l \in 0 .. (Len(n) - Len(K)) /\ l # 0
  BY <1>0, <1>3, <1>4
<1>9. Before(S, O, K, A, n, c, l)
  BY <1>8, <1>2, <1>5, <1>6, <1>7 DEF Before, Splices
<1>10. QED
  BY <1>9 DEF n, l

(* ... in the function itself, which does not call another.                *)
LEMMA SplicedHere ==
    ASSUME NEW S, NEW O, NEW K, IsTail(K), NEW A, NEW s, NEW a, NEW m,
           Before(S, O, K, A, s, a, m), NEW i \in m .. (Len(s) - Len(K)),
           NEW b, Sequence(b), \A j \in 1 .. Len(b) : b[j] \in O
    PROVE  Before(S, O, K, A, b \o SubSeq(s, i + 1, Len(s)), A, 0)
<1> DEFINE n == b \o SubSeq(s, i + 1, Len(s))
<1>0. Len(s) \in Nat /\ Len(K) \in Nat
  BY BeforeLens
<1>1. m \in 0 .. (Len(s) - Len(K)) /\ i \in 0 .. (Len(s) - Len(K))
  BY <1>0 DEF Before
<1>2. Splices(n, s, i, b, K)
  BY <1>1, Spliced
<1> HIDE DEF n
<1>3. Len(b) \in Nat /\ Len(n) = Len(b) + Len(s) - i
  BY <1>2 DEF Splices
<1>4. \A j \in 1 .. (Len(n) - Len(K)) : n[j] \in O
  <2> SUFFICES ASSUME NEW j \in 1 .. (Len(n) - Len(K)) PROVE n[j] \in O
    OBVIOUS
  <2>1. CASE j <= Len(b)
    <3>1. j \in 1 .. Len(b)
      BY <2>1, <1>3
    <3>2. QED
      BY <3>1, <1>2 DEF Splices
  <2>2. CASE j > Len(b)
    <3>1. /\ j \in (Len(b) + 1) .. Len(n)
          /\ i + (j - Len(b)) \in (m + 1) .. (Len(s) - Len(K))
      BY <2>2, <1>0, <1>1, <1>3
    <3>2. n[j] = s[i + (j - Len(b))]
      BY <3>1, <1>2 DEF Splices
    <3>3. QED
      BY <3>1, <3>2 DEF Before
  <2>3. QED
    BY <2>1, <2>2, <1>0, <1>3
<1>5. 0 \in 0 .. (Len(n) - Len(K)) /\ ~ (0 > 0)
  BY <1>2, <1>3, <1>0 DEF Splices
<1>6. Before(S, O, K, A, n, A, 0)
  <2>1. \A j \in 1 .. (0 - 1) : FALSE
    OBVIOUS
  <2>2. QED
    BY <1>5, <1>4, <1>2, <2>1 DEF Before, Splices
<1>7. QED
  BY <1>6 DEF n

(* ... by the body of a function that it calls.                            *)
LEMMA SplicedCall ==
    ASSUME NEW S, NEW O, NEW K, IsTail(K), NEW A, NEW s, NEW a, NEW m,
           Before(S, O, K, A, s, a, m), NEW i \in m .. (Len(s) - Len(K)),
           NEW b, Sequence(b), NEW c,
           Len(b) > 0, b[Len(b)].do = "end", b[Len(b)].args = A,
           \A j \in 1 .. (Len(b) - 1) : b[j] \in S \/ b[j].do = "end"
    PROVE  Before(S, O, K, A, b \o SubSeq(s, i + 1, Len(s)), c, Len(b))
<1> DEFINE n == b \o SubSeq(s, i + 1, Len(s))
<1>0. Len(s) \in Nat /\ Len(K) \in Nat
  BY BeforeLens
<1>1. m \in 0 .. (Len(s) - Len(K)) /\ i \in 0 .. (Len(s) - Len(K))
  BY <1>0 DEF Before
<1>2. Splices(n, s, i, b, K)
  BY <1>1, Spliced
<1> HIDE DEF n
<1>3. Len(b) \in Nat /\ Len(n) = Len(b) + Len(s) - i
  BY <1>2 DEF Splices
<1>4. \A j \in 1 .. Len(b) : n[j] = b[j]
  BY <1>2 DEF Splices
<1>5. \A j \in (Len(b) + 1) .. (Len(n) - Len(K)) : n[j] \in O
  <2> SUFFICES ASSUME NEW j \in (Len(b) + 1) .. (Len(n) - Len(K))
               PROVE  n[j] \in O
    OBVIOUS
  <2>1. /\ j \in (Len(b) + 1) .. Len(n)
        /\ i + (j - Len(b)) \in (m + 1) .. (Len(s) - Len(K))
    <3>1. m \in Nat /\ i \in Nat /\ m <= i
      BY <1>0, <1>1
    <3>2. j \in Int /\ Len(b) + 1 <= j /\ j <= Len(n) - Len(K)
      BY <3>1, <1>0, <1>3
    <3>3. Len(n) \in Int /\ j <= Len(n)
      BY <3>1, <3>2, <1>0, <1>3
    <3>4. i + (j - Len(b)) >= m + 1
      BY <3>1, <3>2, <1>3
    <3>5. i + (j - Len(b)) <= Len(s) - Len(K)
      BY <3>1, <3>2, <1>0, <1>3
    <3>6. QED
      BY <3>1, <3>2, <3>3, <3>4, <3>5, <1>0, <1>3
  <2>2. n[j] = s[i + (j - Len(b))]
    BY <2>1, <1>2 DEF Splices
  <2>3. QED
    BY <2>1, <2>2 DEF Before
<1>6. Len(b) \in 1 .. Len(b) /\ Len(b) \in 0 .. (Len(n) - Len(K))
  BY <1>0, <1>1, <1>3
<1>7. n[Len(b)].do = "end" /\ n[Len(b)].args = A
  BY <1>6, <1>4
<1>8. \A j \in 1 .. (Len(b) - 1) : n[j] \in S \/ n[j].do = "end"
  <2> SUFFICES ASSUME NEW j \in 1 .. (Len(b) - 1)
               PROVE  n[j] \in S \/ n[j].do = "end"
    OBVIOUS
  <2>1. j \in 1 .. Len(b)
    BY <1>3
  <2>2. QED
    BY <2>1, <1>4
<1>9. Len(b) # 0
  BY <1>3
<1>10. Before(S, O, K, A, n, c, Len(b))
  BY <1>2, <1>5, <1>6, <1>7, <1>8, <1>9 DEF Before, Splices
<1>11. QED
  BY <1>10 DEF n

-----------------------------------------------------------------------------
(* Steps before the tail                                                   *)

\* The statements of the thread r are before the tail.
Underway(S, O, K, A, r) ==
    Record(r) /\ \E m : Before(S, O, K, A, r.todo, r.args, m)

(* A handler or the end of a frame is before the tail.                     *)
LEMMA Handler ==
    ASSUME NEW S, NEW O, NEW K, IsTail(K), NEW A, NEW s, NEW a, NEW m,
           Before(S, O, K, A, s, a, m), NEW i \in 1 .. Len(s),
           s[i].do \in {"end", "except", "finally"}
    PROVE  i \in 1 .. (Len(s) - Len(K))
<1>0. Len(s) \in Nat /\ Len(K) \in Nat
  BY BeforeLens
<1> SUFFICES ASSUME i > Len(s) - Len(K) PROVE FALSE
  BY <1>0
<1> DEFINE j == i - (Len(s) - Len(K))
<1>1. j \in 1 .. Len(K) /\ (Len(s) - Len(K)) + j = i
  BY <1>0
<1> HIDE DEF j
<1>2. s[(Len(s) - Len(K)) + j] = K[j]
  BY <1>1 DEF Before
<1>3. s[i] = K[j]
  BY <1>1, <1>2
<1>4. QED
  BY <1>1, <1>3 DEF IsTail

(* The flags that the handler of an exception finds.                       *)
LEMMA UnwoundArgs ==
    ASSUME NEW S, NEW O, NEW K, IsTail(K), NEW A, NEW s, NEW m,
           Closed(O, S), Record(th[0]),
           Before(S, O, K, A, s, th[0].args, m),
           NEW i \in 1 .. (Len(s) - Len(K)), i > m
    PROVE  Unwound(0, s, i).args = A
<1>0. Len(s) \in Nat /\ Len(K) \in Nat
  BY BeforeLens
<1>1. m \in Nat /\ m \in 0 .. (Len(s) - Len(K))
  BY <1>0 DEF Before
<1>2. \A j \in (m + 1) .. (i - 1) : s[j].do # "end"
  <2> SUFFICES ASSUME NEW j \in (m + 1) .. (i - 1) PROVE s[j].do # "end"
    OBVIOUS
  <2>1. j \in (m + 1) .. (Len(s) - Len(K))
    BY <1>0, <1>1
  <2>2. s[j] \in O
    BY <2>1 DEF Before
  <2>3. QED
    BY <2>2 DEF Closed
<1> DEFINE ends == { j \in 1 .. (i - 1) : s[j].do = "end" }
<1>3. CASE m = 0
  <2>1. ends = {}
    BY <1>0, <1>2, <1>3
  <2>2. Unwound(0, s, i) = [th[0] EXCEPT !.polls = 0]
    BY <2>1 DEF Unwound
  <2>3. th[0].args = A
    BY <1>3 DEF Before
  <2>4. QED
    BY <2>2, <2>3 DEF Record
<1>4. CASE m > 0
  <2>1. s[m].do = "end" /\ s[m].args = A
    BY <1>4 DEF Before
  <2>2. m \in ends /\ \A j \in ends : m >= j
    <3>1. m \in 1 .. (i - 1)
      BY <1>0, <1>1, <1>4
    <3>2. \A j \in ends : m >= j
      <4> SUFFICES ASSUME NEW j \in ends, ~ (m >= j) PROVE FALSE
        OBVIOUS
      <4>1. j \in (m + 1) .. (i - 1)
        BY <1>0, <1>1
      <4>2. QED
        BY <4>1, <1>2
    <3>3. QED
      BY <3>1, <3>2, <2>1
  <2>3. Max(ends) = m
    BY <2>2, <1>0, <1>1 DEF Max
  <2>4. Unwound(0, s, i) = Frame(0, s[m])
    BY <2>2, <2>3 DEF Unwound
  <2>5. QED
    BY <2>1, <2>4 DEF Frame, Record
<1>5. QED
  BY <1>1, <1>3, <1>4

(* What a handler does with an exception.                                  *)
LEMMA Handles ==
    ASSUME NEW S, NEW C, Closed(S, C), NEW x \in AnyException,
           NEW z \in S, z.do \in {"except", "finally"}
    PROVE  /\ z.body \in Seq(S)
           /\ (IF z.do = "finally" THEN <<Raise(x)>> ELSE <<>>) \in Seq(S)
<1>1. z.body \in Seq(S) /\ Raise(x) \in S
  BY DEF Closed
<1> DEFINE y == Raise(x)
<1> HIDE DEF y
<1>2. <<y>> \in Seq(S)
  BY <1>1 DEF y
<1>3. QED
  BY <1>1, <1>2 DEF y

(* An exception before the tail ends the call, or is handled before it.    *)
LEMMA Thrown ==
    ASSUME NEW S, NEW O, NEW K, IsTail(K), NEW A, Closed(S, S), Closed(O, S),
           NEW x \in AnyException, Record(th[0]), NEW m,
           Before(S, O, K, A, Rest(0), th[0].args, m), Throw(0, x)
    PROVE  \/ out' = [out EXCEPT ![0] = "raised"] /\ th' = [th EXCEPT ![0] = Idle]
           \/ /\ out' = out
              /\ \E r : /\ Underway(S, O, K, A, r)
                        /\ th' = [th EXCEPT ![0] = r]
<1> DEFINE s == Rest(0)
<1>0. Len(s) \in Nat /\ Len(K) \in Nat /\ Sequence(s)
  BY BeforeLens DEF Before
<1>1. PICK i : Catches(s, x, i)
  BY DEF Catches
<1> DEFINE X == IF s[i].do = "finally" THEN <<Raise(x)>> ELSE <<>>
           b == s[i].body \o X
           n == b \o SubSeq(s, i + 1, Len(s))
           u == Unwound(0, s, i)
           r == [u EXCEPT !.todo = n]
<1>2. IF i = 0
      THEN out' = [out EXCEPT ![0] = "raised"] /\ th' = [th EXCEPT ![0] = Idle]
      ELSE th' = [th EXCEPT ![0] = r] /\ out' = out
  BY <1>1 DEF Throw, Catches
<1>3. CASE i = 0
  BY <1>2, <1>3
<1>4. CASE i # 0
  <2>1. i \in 1 .. Len(s) /\ s[i].do \in {"except", "finally"}
    BY <1>0, <1>1, <1>4, Caught
  <2>2. i \in 1 .. (Len(s) - Len(K))
    BY <2>1, Handler
  <2>3. m \in 0 .. (Len(s) - Len(K)) /\ i # m
    BY <2>1, <1>0 DEF Before
  <2>4. Record(r) /\ r.args = u.args /\ r.todo = n
    <3>1. Record(u)
      BY DEF Record, Unwound, Frame
    <3> HIDE DEF u, n
    <3>2. QED
      BY <3>1, Goes
  <2>5. CASE i < m
    <3>1. s[i] \in S
      <4>1. i \in 1 .. (m - 1)
        BY <2>2, <2>3, <2>5, <1>0
      <4>2. QED
        BY <4>1, <2>1 DEF Before
    <3>2. s[i].body \in Seq(S) /\ X \in Seq(S)
      BY <3>1, <2>1, Handles
    <3>3. Sequence(b) /\ \A j \in 1 .. Len(b) : b[j] \in S
      BY <3>2, SequencesOver
    <3>4. i \in 0 .. (m - 1)
      BY <2>2, <2>3, <2>5, <1>0
    <3> HIDE DEF s, b
    <3>5. Before(S, O, K, A, n, r.args, Len(b) + m - i)
      BY <3>3, <3>4, SplicedWithin DEF s
    <3>6. QED
      BY <3>5, <2>4, <1>2, <1>4 DEF Underway
  <2>6. CASE i > m
    <3>1. s[i] \in O
      <4>1. i \in (m + 1) .. (Len(s) - Len(K))
        BY <2>2, <2>3, <2>6, <1>0
      <4>2. QED
        BY <4>1 DEF Before
    <3>2. s[i].body \in Seq(O) /\ X \in Seq(O)
      BY <3>1, <2>1, Handles
    <3>3. Sequence(b) /\ \A j \in 1 .. Len(b) : b[j] \in O
      BY <3>2, SequencesOver
    <3>4. i \in m .. (Len(s) - Len(K))
      BY <2>2, <2>3, <2>6, <1>0
    <3>5. u.args = A
      BY <2>2, <2>6, UnwoundArgs
    <3> HIDE DEF s, b
    <3>6. Before(S, O, K, A, n, A, 0)
      BY <3>3, <3>4, SplicedHere DEF s
    <3>7. QED
      BY <3>5, <3>6, <2>4, <1>2, <1>4 DEF Underway
  <2>7. QED
    BY <2>2, <2>3, <2>5, <2>6, <1>0
<1>5. QED
  BY <1>3, <1>4

(* The first i statements are done, or left.                               *)
LEMMA PassedOver ==
    ASSUME NEW S, NEW O, NEW K, IsTail(K), NEW A, NEW s, NEW a, NEW m,
           Before(S, O, K, A, s, a, m), NEW i \in 0 .. (Len(s) - Len(K)),
           NEW c, i < m \/ c = A
    PROVE  Before(S, O, K, A, SubSeq(s, i + 1, Len(s)), c,
                  IF i < m THEN m - i ELSE 0)
<1> DEFINE b == <<>>
           d == SubSeq(s, i + 1, Len(s))
<1>0. Len(s) \in Nat /\ Len(K) \in Nat /\ Sequence(s)
  BY BeforeLens DEF Before
<1>1. m \in 0 .. (Len(s) - Len(K))
  BY DEF Before
<1>2. Sequence(d)
  <2>1. i \in 0 .. Len(s)
    BY <1>0
  <2>2. QED
    BY <1>0, <2>1, Dropped
<1>3. b \o d = d
  BY <1>2, ConcatEmptySeq DEF Sequence
<1>4. Sequence(b) /\ Len(b) = 0
  BY EmptySeq DEF Sequence
<1>5. \A j \in 1 .. Len(b) : b[j] \in O /\ b[j] \in S
  BY <1>4
<1> HIDE DEF b
<1>6. CASE i < m
  <2>1. i \in 0 .. (m - 1)
    BY <1>0, <1>1, <1>6
  <2>2. Before(S, O, K, A, b \o SubSeq(s, i + 1, Len(s)), c, Len(b) + m - i)
    BY <2>1, <1>4, <1>5, SplicedWithin
  <2>3. Len(b) + m - i = m - i
    BY <2>1, <1>0, <1>1, <1>4
  <2>4. QED
    BY <2>2, <2>3, <1>3, <1>6
<1>7. CASE ~ (i < m)
  <2>1. i \in m .. (Len(s) - Len(K))
    BY <1>0, <1>1, <1>7
  <2>2. Before(S, O, K, A, b \o SubSeq(s, i + 1, Len(s)), A, 0)
    BY <2>1, <1>4, <1>5, SplicedHere
  <2>3. QED
    BY <2>2, <1>3, <1>7
<1>8. QED
  BY <1>6, <1>7

(* A thread that goes on in the frame f.                                   *)
LEMMA Framed ==
    ASSUME Record(th[0]), NEW f
    PROVE  Record(Frame(0, f)) /\ Frame(0, f).args = f.args
<1>1. Record(Frame(0, f))
  BY DEF Record, Frame
<1>2. Frame(0, f).args = f.args
  BY DEF Record, Frame
<1>3. QED
  BY <1>1, <1>2

(* A return before the tail ends the call with False or None, or ends a    *)
(* function that was called, or enters a `finally`.                        *)
LEMMA Left ==
    ASSUME NEW S, NEW O, NEW K, IsTail(K), NEW A, Called(S), Early(O, S),
           Record(th[0]), NEW s, NEW m, NEW v,
           Before(S, O, K, A, s, th[0].args, m), Ret(v) \in S,
           m = 0 => v \in {"false", "none"}, Leave(0, v, s)
    PROVE  \/ /\ out' = [out EXCEPT ![0] = v] /\ v \in {"false", "none"}
              /\ th' = [th EXCEPT ![0] = Idle]
           \/ /\ out' = out
              /\ \E r : /\ Underway(S, O, K, A, r)
                        /\ th' = [th EXCEPT ![0] = r]
<1>0. Len(s) \in Nat /\ Len(K) \in Nat /\ Sequence(s)
  BY BeforeLens DEF Before
<1>1. PICK i : Stops(s, i)
  BY DEF Stops
<1> DEFINE after == SubSeq(s, i + 1, Len(s))
           b == s[i].body \o <<Ret(v)>>
           r == IF s[i].do = "end"
                THEN [Frame(0, s[i]) EXCEPT !.todo = after, !.res = (v = "true")]
                ELSE [th[0] EXCEPT !.todo = b \o after]
<1>2. IF i = 0
      THEN out' = [out EXCEPT ![0] = v] /\ th' = [th EXCEPT ![0] = Idle]
      ELSE th' = [th EXCEPT ![0] = r] /\ out' = out
  BY <1>1 DEF Leave, Stops
<1>3. m \in 0 .. (Len(s) - Len(K)) /\ m \in Nat
  BY <1>0 DEF Before
<1>4. /\ m > 0 => m \in 1 .. Len(s) /\ s[m].do = "end"
      /\ \A j \in 1 .. (m - 1) : s[j] \in S \/ s[j].do = "end"
      /\ \A j \in (m + 1) .. (Len(s) - Len(K)) : s[j] \in O
  BY <1>0, <1>3 DEF Before
<1>5. CASE i = 0
  <2>1. ~ (m > 0)
    BY <1>0, <1>1, <1>4, <1>5, Stopped
  <2>2. QED
    BY <2>1, <1>2, <1>3, <1>5
<1>6. CASE i # 0
  <2>1. /\ i \in 1 .. Len(s)
        /\ s[i].do \in {"end", "finally"}
        /\ \A j \in 1 .. (i - 1) : s[j].do \notin {"end", "finally"}
    BY <1>0, <1>1, <1>6, Stopped
  <2>2. i \in 1 .. (Len(s) - Len(K))
    BY <2>1, Handler
  <2>3. i > m => m = 0
    <3> SUFFICES ASSUME i > m, m > 0 PROVE FALSE
      BY <1>3
    <3>1. m \in 1 .. (i - 1)
      BY <1>0, <1>3, <2>1
    <3>2. QED
      BY <3>1, <2>1, <1>4
  <2>4. CASE s[i].do = "end"
    <3>1. i <= m
      <4> SUFFICES ASSUME i > m PROVE FALSE
        BY <1>0, <1>3, <2>1
      <4>1. i \in (m + 1) .. (Len(s) - Len(K))
        BY <2>2, <1>0, <1>3
      <4>2. QED
        BY <4>1, <1>4, <2>4 DEF Early, Closed
    <3>2. Record(r) /\ r.args = s[i].args /\ r.todo = after
      <4>1. Record(Frame(0, s[i])) /\ Frame(0, s[i]).args = s[i].args
        BY Framed
      <4> DEFINE f == Frame(0, s[i])
      <4> HIDE DEF f, after
      <4>2. r = [[f EXCEPT !.todo = after] EXCEPT !.res = (v = "true")]
        BY <2>4 DEF f
      <4> HIDE DEF r
      <4>3. QED
        BY <4>1, <4>2 DEF Record, f
    <3>3. i \in 0 .. (Len(s) - Len(K)) /\ (i < m \/ i = m)
      BY <2>2, <3>1, <1>0, <1>3
    <3>4. i < m \/ r.args = A
      BY <3>2, <3>3, <2>2 DEF Before
    <3> HIDE DEF r
    <3>5. \E n : Before(S, O, K, A, after, r.args, n)
      BY <3>3, <3>4, PassedOver
    <3>6. QED
      BY <3>2, <3>5, <1>2, <1>6 DEF Underway
  <2>5. CASE s[i].do = "finally"
    <3>1. Record(r) /\ r.args = th[0].args /\ r.todo = b \o after
      <4> DEFINE n == b \o after
      <4>1. r = [th[0] EXCEPT !.todo = n]
        BY <2>5
      <4> HIDE DEF r, n
      <4>2. r.todo = n /\ Record(r) /\ r.args = th[0].args
        BY <4>1, Goes
      <4>3. QED
        BY <4>2 DEF n
    <3>2. i # m
      BY <2>5, <2>2, <1>0, <1>4
    <3>3. CASE i < m
      <4>1. i \in 1 .. (m - 1) /\ i \in 0 .. (m - 1)
        BY <2>2, <3>3, <1>0, <1>3
      <4>2. s[i] \in S
        BY <4>1, <1>4, <2>5
      <4>3. s[i].body \in Seq(S) /\ <<Ret(v)>> \in Seq(S)
        <5> DEFINE y == Ret(v)
        <5>1. y \in S
          OBVIOUS
        <5> HIDE DEF y
        <5>2. <<y>> \in Seq(S)
          BY <5>1
        <5>3. QED
          BY <5>2, <4>2, <2>5 DEF y, Called, Closed
      <4>4. Sequence(b) /\ \A j \in 1 .. Len(b) : b[j] \in S
        BY <4>3, SequencesOver
      <4> HIDE DEF b, r
      <4>5. Before(S, O, K, A, b \o after, r.args, Len(b) + m - i)
        BY <4>1, <4>4, SplicedWithin
      <4>6. QED
        BY <4>5, <3>1, <1>2, <1>6 DEF Underway
    <3>4. CASE i > m
      <4>1. /\ i \in (m + 1) .. (Len(s) - Len(K))
            /\ i \in m .. (Len(s) - Len(K))
        BY <2>2, <3>4, <1>0, <1>3
      <4>2. s[i] \in O
        BY <4>1, <1>4
      <4>3. s[i].body \in Seq(O) /\ <<Ret(v)>> \in Seq(O)
        <5> DEFINE y == Ret(v)
        <5>1. v \in {"false", "none"}
          BY <2>3, <3>4
        <5>2. y \in O
          BY <5>1 DEF Early
        <5> HIDE DEF y
        <5>3. <<y>> \in Seq(O)
          BY <5>2
        <5>4. QED
          BY <5>3, <4>2, <2>5 DEF y, Early, Closed
      <4>4. Sequence(b) /\ \A j \in 1 .. Len(b) : b[j] \in O
        BY <4>3, SequencesOver
      <4>5. th[0].args = A
        BY <2>3, <3>4 DEF Before
      <4> HIDE DEF b, r
      <4>6. Before(S, O, K, A, b \o after, A, 0)
        BY <4>1, <4>4, SplicedHere
      <4>7. QED
        BY <4>5, <4>6, <3>1, <1>2, <1>6 DEF Underway
    <3>5. QED
      BY <3>2, <3>3, <3>4, <2>2, <1>0, <1>3
  <2>6. QED
    BY <2>1, <2>4, <2>5
<1>7. QED
  BY <1>5, <1>6

\* A step of the test before the tail: it goes on, or the call has failed.
Moves(S, O, K, A) ==
    \/ /\ out' = out
       /\ \E r : Underway(S, O, K, A, r) /\ th' = [th EXCEPT ![0] = r]
    \/ \E v \in {"raised", "false", "none"} :
        out' = [out EXCEPT ![0] = v] /\ th' = [th EXCEPT ![0] = Idle]

(* The next statement of the test and those after it.                      *)
LEMMA AtFront ==
    ASSUME NEW S, NEW O, NEW K, IsTail(K), NEW A, NEW m,
           Before(S, O, K, A, th[0].todo, th[0].args, m),
           Len(th[0].todo) > Len(K)
    PROVE  /\ Todo(0) # <<>>
           /\ Now(0) = Todo(0)[1]
           /\ Rest(0) = SubSeq(Todo(0), 2, Len(Todo(0)))
           /\ \/ m = 0 /\ Now(0) \in O /\ th[0].args = A
              \/ m = 1 /\ Now(0).do = "end"
              \/ m > 1 /\ (Now(0) \in S \/ Now(0).do = "end")
<1> DEFINE s == th[0].todo
<1>0. Len(s) \in Nat /\ Len(K) \in Nat /\ Sequence(s)
  BY BeforeLens DEF Before
<1>1. s # <<>>
  <2>1. Len(<<>>) = 0
    BY EmptySeq
  <2>2. QED
    BY <2>1, <1>0
<1>2. Head(s) = s[1] /\ Tail(s) = SubSeq(s, 2, Len(s))
  BY <1>0, <1>1, Opened
<1>3. m \in 0 .. (Len(s) - Len(K)) /\ Len(s) - Len(K) >= 1
  BY <1>0 DEF Before
<1>4. \/ m = 0 /\ s[1] \in O /\ th[0].args = A
      \/ m = 1 /\ s[1].do = "end"
      \/ m > 1 /\ (s[1] \in S \/ s[1].do = "end")
  <2>1. CASE m = 0
    <3>1. 1 \in (m + 1) .. (Len(s) - Len(K))
      BY <2>1, <1>0, <1>3
    <3>2. QED
      BY <3>1, <2>1 DEF Before
  <2>2. CASE m = 1
    BY <2>2 DEF Before
  <2>3. CASE m > 1
    <3>1. 1 \in 1 .. (m - 1)
      BY <2>3, <1>0, <1>3
    <3>2. QED
      BY <3>1, <2>3 DEF Before
  <2>4. QED
    BY <2>1, <2>2, <2>3, <1>0, <1>3
<1>5. QED
  BY <1>1, <1>2, <1>4 DEF Todo, Now, Rest

(* The next statement is done.                                             *)
LEMMA Proceeds ==
    ASSUME NEW S, NEW O, NEW K, IsTail(K), NEW A, NEW m,
           Before(S, O, K, A, th[0].todo, th[0].args, m),
           Len(th[0].todo) > Len(K), Now(0).do # "end"
    PROVE  Before(S, O, K, A, Rest(0), th[0].args,
                  IF m = 0 THEN 0 ELSE m - 1)
<1> DEFINE s == th[0].todo
<1>0. Len(s) \in Nat /\ Len(K) \in Nat /\ m \in 0 .. (Len(s) - Len(K))
  BY BeforeLens DEF Before
<1>1. Rest(0) = SubSeq(s, 2, Len(s)) /\ ((m = 0 /\ th[0].args = A) \/ m > 1)
  BY AtFront DEF Todo
<1>2. 1 \in 0 .. (Len(s) - Len(K)) /\ (1 < m \/ th[0].args = A)
  BY <1>0, <1>1
<1>3. Before(S, O, K, A, SubSeq(s, 1 + 1, Len(s)), th[0].args,
             IF 1 < m THEN m - 1 ELSE 0)
  BY <1>2, PassedOver
<1>4. (IF 1 < m THEN m - 1 ELSE 0) = (IF m = 0 THEN 0 ELSE m - 1)
  BY <1>0, <1>1
<1>5. 1 + 1 = 2
  OBVIOUS
<1>6. QED
  BY <1>1, <1>3, <1>4, <1>5

(* The next statement is replaced by a body of it.                         *)
LEMMA Enters ==
    ASSUME NEW S, NEW O, NEW K, IsTail(K), NEW A, NEW m,
           Before(S, O, K, A, th[0].todo, th[0].args, m),
           Len(th[0].todo) > Len(K), Now(0).do # "end", NEW b,
           Now(0) \in O => b \in Seq(O), Now(0) \in S => b \in Seq(S)
    PROVE  \E n : Before(S, O, K, A, b \o Rest(0), th[0].args, n)
<1> DEFINE s == th[0].todo
<1>0. Len(s) \in Nat /\ Len(K) \in Nat /\ m \in 0 .. (Len(s) - Len(K))
  BY BeforeLens DEF Before
<1>1. Rest(0) = SubSeq(s, 1 + 1, Len(s))
  <2>1. 1 + 1 = 2
    OBVIOUS
  <2>2. QED
    BY <2>1, AtFront DEF Todo
<1>2. \/ m = 0 /\ Now(0) \in O /\ th[0].args = A
      \/ m > 1 /\ Now(0) \in S
  BY AtFront
<1>3. CASE m = 0 /\ Now(0) \in O /\ th[0].args = A
  <2>1. 1 \in m .. (Len(s) - Len(K))
    BY <1>0, <1>3
  <2>2. Sequence(b) /\ \A j \in 1 .. Len(b) : b[j] \in O
    BY <1>3, Elements
  <2>3. Before(S, O, K, A, b \o SubSeq(s, 1 + 1, Len(s)), A, 0)
    BY <2>1, <2>2, SplicedHere
  <2>4. QED
    BY <2>3, <1>1, <1>3
<1>4. CASE m > 1 /\ Now(0) \in S
  <2>1. 1 \in 0 .. (m - 1)
    BY <1>0, <1>4
  <2>2. Sequence(b) /\ \A j \in 1 .. Len(b) : b[j] \in S
    BY <1>4, Elements
  <2>3. Before(S, O, K, A, b \o SubSeq(s, 1 + 1, Len(s)), th[0].args,
               Len(b) + m - 1)
    BY <2>1, <2>2, SplicedWithin
  <2>4. QED
    BY <2>3, <1>1
<1>5. QED
  BY <1>2, <1>3, <1>4

(* A thread that has gone on to todo.                                      *)
LEMMA Moved ==
    ASSUME NEW S, NEW O, NEW K, NEW A, NEW todo, NEW n,
           Before(S, O, K, A, todo, th[0].args, n), out' = out,
           \E r : /\ Record(r) /\ th' = [th EXCEPT ![0] = r]
                  /\ r.todo = todo /\ r.args = th[0].args
    PROVE  Moves(S, O, K, A)
BY DEF Moves, Underway

(* What a statement before the tail leaves.                                *)
LEMMA FrontClosed ==
    ASSUME NEW S, NEW O, NEW K, IsTail(K), NEW A, Called(S), Early(O, S), NEW m,
           Before(S, O, K, A, th[0].todo, th[0].args, m),
           Len(th[0].todo) > Len(K), Now(0).do # "end"
    PROVE  LET z == Now(0)
               In(b) == (z \in O => b \in Seq(O)) /\ (z \in S => b \in Seq(S))
           IN /\ z.do \notin {"fork", "join"}
              /\ z.do \in {"if", "when"} => In(z.yes) /\ In(z.no)
              /\ z.do = "either" => \A a \in z.alts : In(a)
              /\ z.do = "call" => z.body \in Seq(S)
              /\ z.do = "try" =>
                  In(z.body \o <<[do |-> "except", on |-> z.on,
                                  body |-> z.handler]>>)
              /\ z.do = "tryfinally" =>
                  In(z.body \o <<[do |-> "finally", body |-> z.last]>>)
              /\ z.do \in {"except", "finally"} => In(z.body)
              /\ z.do = "raise" => z.x \in AnyException
<1> DEFINE z == Now(0)
           Leaves(C, D) ==
              /\ z.do \notin {"fork", "join"}
              /\ z.do \in {"if", "when"} => z.yes \in Seq(C) /\ z.no \in Seq(C)
              /\ z.do = "either" => \A a \in z.alts : a \in Seq(C)
              /\ z.do = "call" => z.body \in Seq(D)
              /\ z.do = "try" =>
                  z.body \o <<[do |-> "except", on |-> z.on,
                               body |-> z.handler]>> \in Seq(C)
              /\ z.do = "tryfinally" =>
                  z.body \o <<[do |-> "finally", body |-> z.last]>> \in Seq(C)
              /\ z.do \in {"except", "finally"} => z.body \in Seq(C)
              /\ z.do = "raise" => z.x \in AnyException
<1>1. z \in O \/ z \in S
  BY AtFront
<1> HIDE DEF z
<1>2. ASSUME NEW C, NEW D, Closed(C, D), z \in C PROVE Leaves(C, D)
  <2>1. ASSUME z.do = "try"
        PROVE  z.body \o <<[do |-> "except", on |-> z.on,
                            body |-> z.handler]>> \in Seq(C)
    <3> DEFINE y == [do |-> "except", on |-> z.on, body |-> z.handler]
    <3>1. y \in C /\ z.body \in Seq(C)
      BY <1>2, <2>1 DEF Closed
    <3> HIDE DEF y
    <3>2. <<y>> \in Seq(C)
      BY <3>1
    <3>3. z.body \o <<y>> \in Seq(C)
      BY <3>1, <3>2, SequencesOver
    <3>4. QED
      BY <3>3 DEF y
  <2>2. ASSUME z.do = "tryfinally"
        PROVE  z.body \o <<[do |-> "finally", body |-> z.last]>> \in Seq(C)
    <3> DEFINE y == [do |-> "finally", body |-> z.last]
    <3>1. y \in C /\ z.body \in Seq(C)
      BY <1>2, <2>2 DEF Closed
    <3> HIDE DEF y
    <3>2. <<y>> \in Seq(C)
      BY <3>1
    <3>3. z.body \o <<y>> \in Seq(C)
      BY <3>1, <3>2, SequencesOver
    <3>4. QED
      BY <3>3 DEF y
  <2>3. /\ z.do \notin {"fork", "join"}
        /\ z.do \in {"if", "when"} => z.yes \in Seq(C) /\ z.no \in Seq(C)
        /\ z.do = "either" => \A a \in z.alts : a \in Seq(C)
        /\ z.do = "call" => z.body \in Seq(D)
        /\ z.do \in {"except", "finally"} => z.body \in Seq(C)
        /\ z.do = "raise" => z.x \in AnyException
    BY <1>2 DEF Closed
  <2>4. QED
    BY <2>1, <2>2, <2>3
<1>3. z \in O => Leaves(O, S)
  BY <1>2 DEF Early
<1>4. z \in S => Leaves(S, S)
  BY <1>2 DEF Called
<1>5. QED
  BY <1>1, <1>3, <1>4 DEF z

(* Every step of the test before the tail goes on or fails.                *)
LEMMA EarlyStep ==
    ASSUME NEW S, NEW O, NEW K, IsTail(K), NEW A, Called(S), Early(O, S),
           Alone, out[0] = "running", Record(th[0]), NEW m,
           Before(S, O, K, A, th[0].todo, th[0].args, m),
           Len(th[0].todo) > Len(K), Step(0)
    PROVE  Moves(S, O, K, A)
<1> DEFINE n == IF m = 0 THEN 0 ELSE m - 1
<1>0. Todo(0) # <<>> /\ m \in Nat
  <2>1. Len(th[0].todo) \in Nat /\ Len(K) \in Nat
    BY BeforeLens
  <2>2. m \in Nat
    BY <2>1 DEF Before
  <2>3. QED
    BY <2>2, AtFront
<1>1. ASSUME Now(0).do # "end"
      PROVE  Before(S, O, K, A, Rest(0), th[0].args, n)
  BY <1>1, Proceeds
<1> HIDE DEF n
<1>2. ASSUME NEW x \in AnyException, Throw(0, x), Now(0).do # "end"
      PROVE  Moves(S, O, K, A)
  <2>1. Closed(S, S) /\ Closed(O, S)
    BY DEF Called, Early
  <2>2. QED
    BY <1>1, <1>2, <2>1, Thrown DEF Moves
<1>3. ASSUME NEW x, Result(0, x, Rest(0)), out' = out, Now(0).do # "end"
      PROVE  Moves(S, O, K, A)
  <2>1. 0 \in DOMAIN th
    BY DEF Alone, Threads
  <2>2. QED
    BY <2>1, <1>1, <1>3, Resulted, Moved
<1>4. ASSUME Goto(0, Rest(0)), out' = out, Now(0).do # "end"
      PROVE  Moves(S, O, K, A)
  BY <1>1, <1>4, Went, Moved
<1>5. ASSUME NEW b, Goto(0, b \o Rest(0)), out' = out, Now(0).do # "end",
             Now(0) \in O => b \in Seq(O), Now(0) \in S => b \in Seq(S)
      PROVE  Moves(S, O, K, A)
  <2>1. \E l : Before(S, O, K, A, b \o Rest(0), th[0].args, l)
    BY <1>5, Enters
  <2>2. QED
    BY <1>5, <2>1, Went, Moved
<1>6. CASE found(0)
  BY <1>6, <1>4 DEF found, At
<1>7. CASE notFound(0)
  BY <1>7, <1>2 DEF notFound, At, AnyException
<1>8. CASE see(0)
  BY <1>8, <1>3 DEF see, At
<1>9. CASE remember(0)
  <2> DEFINE v == Status(CHOOSE e \in Now(0).es : TRUE)
             r == [[th[0] EXCEPT !.todo = Rest(0)] EXCEPT !.mem = v]
  <2>1. out' = out /\ Now(0).do # "end" /\ 0 \in DOMAIN th
    BY <1>9 DEF remember, At, Alone, Threads
  <2>2. th' = [[th EXCEPT ![0].todo = Rest(0)] EXCEPT ![0].mem = v]
    BY <1>9 DEF remember
  <2> HIDE DEF v
  <2>a. th' = [th EXCEPT ![0] = r]
    BY <2>1, <2>2
  <2>3. Record(r) /\ r.todo = Rest(0) /\ r.args = th[0].args
    BY DEF Record
  <2>4. QED
    BY <2>1, <2>a, <2>3, <1>1, Moved
<1>10. CASE accepted(0)
  BY <1>10, <1>3 DEF accepted, At
<1>11. CASE refused(0)
  BY <1>11, <1>3 DEF refused, At
<1>26. CASE lost(0)
  BY <1>26, <1>2 DEF lost, At, AnyException
<1>12. CASE sampled(0)
  BY <1>12, <1>3 DEF sampled, At
<1>13. CASE gaveUp(0)
  BY <1>13, <1>3 DEF gaveUp, At
<1>14. CASE sleeps(0)
  <2> DEFINE r == [th[0] EXCEPT !.polls = @ + 1]
  <2>1. th' = [th EXCEPT ![0] = r] /\ out' = out
    BY <1>14 DEF sleeps
  <2>2. Record(r) /\ r.todo = th[0].todo /\ r.args = th[0].args
    BY DEF Record
  <2>3. QED
    BY <2>1, <2>2, Moved
<1>15. CASE timeout(0)
  BY <1>15, <1>2, <1>3 DEF timeout, At, AnyException
<1>16. CASE branch(0)
  <2>1. out' = out /\ Now(0).do \in {"if", "when", "either"}
    BY <1>16 DEF branch, Local, At
  <2>2. PICK b : Goto(0, b \o Rest(0)) /\
                 \/ Now(0).do \in {"if", "when"} /\ b \in {Now(0).yes, Now(0).no}
                 \/ Now(0).do = "either" /\ b \in Now(0).alts
    BY <1>16 DEF branch, At
  <2>3. /\ Now(0) \in O => b \in Seq(O)
        /\ Now(0) \in S => b \in Seq(S)
    BY <2>1, <2>2, FrontClosed
  <2>4. QED
    BY <2>1, <2>2, <2>3, <1>5
<1>17. CASE keep(0)
  <2> DEFINE v == th[0].acc /\ th[0].res
             r == [[th[0] EXCEPT !.todo = Rest(0)] EXCEPT !.acc = v]
  <2>1. out' = out /\ Now(0).do # "end" /\ 0 \in DOMAIN th
    BY <1>17 DEF keep, Local, At, Alone, Threads
  <2>2. [th[0] EXCEPT !.todo = Rest(0)].acc = th[0].acc
    BY DEF Record
  <2>3. th' = [th EXCEPT ![0] = r]
    BY <1>17, <2>1, <2>2 DEF keep
  <2> HIDE DEF v
  <2>4. Record(r) /\ r.todo = Rest(0) /\ r.args = th[0].args
    BY DEF Record
  <2>5. QED
    BY <2>1, <2>3, <2>4, <1>1, Moved
<1>18. CASE calls(0)
  <2> DEFINE E == [do |-> "end", acc |-> th[0].acc, mem |-> th[0].mem,
                   args |-> th[0].args]
             b == Now(0).body \o <<E>>
             todo == b \o Rest(0)
             args == (th[0].args \cap Now(0).keep) \cup Now(0).given
             r == [[Idle EXCEPT !.todo = todo] EXCEPT !.args = args]
  <2>1. out' = out /\ Now(0).do = "call" /\ Now(0).do # "end"
    BY <1>18 DEF calls, Local, At
  <2>2. th' = [th EXCEPT ![0] = r]
    BY <1>18 DEF calls
  <2>3. Now(0).body \in Seq(S)
    BY <2>1, FrontClosed
  <2>4. Joins(b, Now(0).body, <<E>>)
    BY <2>3, Elements, Single, Joined
  <2>5. E.do = "end" /\ E.args = th[0].args
    OBVIOUS
  <2> HIDE DEF E
  <2>6. Len(<<E>>) = 1 /\ <<E>>[1] = E
    BY Single
  <2> HIDE DEF b
  <2>7. /\ Sequence(b) /\ Len(b) \in Nat /\ Len(b) > 0
        /\ b[Len(b)] = E
        /\ \A j \in 1 .. (Len(b) - 1) : b[j] \in S
    <3>1. Len(b) = Len(Now(0).body) + 1 /\ Len(Now(0).body) \in Nat
      BY <2>4, <2>6 DEF Joins
    <3>2. b[Len(b)] = E
      BY <3>1, <2>4, <2>6 DEF Joins
    <3>3. \A j \in 1 .. (Len(b) - 1) : b[j] \in S
      <4> SUFFICES ASSUME NEW j \in 1 .. (Len(b) - 1) PROVE b[j] \in S
        OBVIOUS
      <4>1. j \in 1 .. Len(Now(0).body)
        BY <3>1
      <4>2. b[j] = Now(0).body[j] /\ Now(0).body[j] \in S
        BY <4>1, <2>3, <2>4, Elements DEF Joins
      <4>3. QED
        BY <4>2
    <3>4. Sequence(b)
      BY <2>4 DEF Joins
    <3>5. QED
      BY <3>1, <3>2, <3>3, <3>4
  <2>8. Rest(0) = SubSeq(th[0].todo, 1 + 1, Len(th[0].todo))
    <3>1. 1 + 1 = 2
      OBVIOUS
    <3>2. QED
      BY <3>1, AtFront DEF Todo
  <2>9. \E l : Before(S, O, K, A, todo, args, l)
    <3>0. /\ m \in 0 .. (Len(th[0].todo) - Len(K)) /\ Len(K) \in Nat
          /\ Len(th[0].todo) \in Nat
      BY BeforeLens DEF Before
    <3>1. CASE m = 0
      <4>1. 1 \in m .. (Len(th[0].todo) - Len(K))
        BY <3>0, <3>1
      <4>2. th[0].args = A
        BY <3>1 DEF Before
      <4>3. /\ b[Len(b)].do = "end" /\ b[Len(b)].args = A
            /\ \A j \in 1 .. (Len(b) - 1) : b[j] \in S \/ b[j].do = "end"
        BY <2>5, <2>7, <4>2
      <4> HIDE DEF args
      <4>4. Before(S, O, K, A,
                   b \o SubSeq(th[0].todo, 1 + 1, Len(th[0].todo)), args, Len(b))
        BY <4>1, <4>3, <2>7, SplicedCall
      <4>5. QED
        BY <4>4, <2>8
    <3>2. CASE m > 1
      <4>1. 1 \in 0 .. (m - 1)
        BY <3>0, <3>2
      <4>2. \A j \in 1 .. Len(b) : b[j] \in S \/ b[j].do = "end"
        <5> SUFFICES ASSUME NEW j \in 1 .. Len(b)
                     PROVE  b[j] \in S \/ b[j].do = "end"
          OBVIOUS
        <5>1. j \in 1 .. (Len(b) - 1) \/ j = Len(b)
          BY <2>7
        <5>2. QED
          BY <5>1, <2>5, <2>7
      <4> HIDE DEF args
      <4>3. Before(S, O, K, A,
                   b \o SubSeq(th[0].todo, 1 + 1, Len(th[0].todo)), args,
                   Len(b) + m - 1)
        BY <4>1, <4>2, <2>7, SplicedWithin
      <4>4. QED
        BY <4>3, <2>8
    <3>3. QED
      BY <3>1, <3>2, <2>1, AtFront
  <2> HIDE DEF todo, args
  <2>10. Record(r) /\ r.todo = todo /\ r.args = args
    BY DEF Record, Idle
  <2>11. Underway(S, O, K, A, r)
    BY <2>9, <2>10 DEF Underway
  <2>12. QED
    BY <2>1, <2>2, <2>11 DEF Moves
<1>19. CASE enterTry(0)
  <2>1. out' = out /\ Now(0).do \in {"try", "tryfinally"}
    BY <1>19 DEF enterTry, Local, At
  <2>2. CASE Now(0).do = "try"
    <3> DEFINE b == Now(0).body \o <<[do |-> "except", on |-> Now(0).on,
                                      body |-> Now(0).handler]>>
    <3>1. Goto(0, b \o Rest(0))
      BY <1>19, <2>2 DEF enterTry, At
    <3>2. /\ Now(0) \in O => b \in Seq(O)
          /\ Now(0) \in S => b \in Seq(S)
      BY <2>2, FrontClosed
    <3> HIDE DEF b
    <3>3. QED
      BY <3>1, <3>2, <2>1, <1>5
  <2>3. CASE Now(0).do = "tryfinally"
    <3> DEFINE b == Now(0).body \o <<[do |-> "finally", body |-> Now(0).last]>>
    <3>1. Goto(0, b \o Rest(0))
      BY <1>19, <2>3 DEF enterTry, At
    <3>2. /\ Now(0) \in O => b \in Seq(O)
          /\ Now(0) \in S => b \in Seq(S)
      BY <2>3, FrontClosed
    <3> HIDE DEF b
    <3>3. QED
      BY <3>1, <3>2, <2>1, <1>5
  <2>4. QED
    BY <2>1, <2>2, <2>3
<1>20. CASE leaveTry(0)
  <2>1. out' = out /\ Now(0).do \in {"except", "finally"}
    BY <1>20 DEF leaveTry, Local, At
  <2>2. CASE Now(0).do = "except"
    BY <2>1, <2>2, <1>4, <1>20 DEF leaveTry, At
  <2>3. CASE Now(0).do = "finally"
    <3>1. Goto(0, Now(0).body \o Rest(0))
      BY <2>3, <1>20 DEF leaveTry, At
    <3>2. /\ Now(0) \in O => Now(0).body \in Seq(O)
          /\ Now(0) \in S => Now(0).body \in Seq(S)
      BY <2>3, FrontClosed
    <3>3. QED
      BY <3>1, <3>2, <2>1, <1>5
  <2>4. QED
    BY <2>1, <2>2, <2>3
<1>21. CASE return(0)
  <2> DEFINE v == Value(0, Now(0).v)
  <2>1. Now(0).do = "return" /\ Leave(0, v, Rest(0))
    BY <1>21 DEF return, At
  <2>2. v \in {"true", "false", Now(0).v}
    BY DEF Value, Truth
  <2>3. Now(0) \in O => v \in {"false", "none"}
    <3> SUFFICES ASSUME Now(0) \in O PROVE v \in {"false", "none"}
      OBVIOUS
    <3>1. Now(0).v \in {"false", "none"}
      BY <2>1 DEF Early
    <3>2. QED
      BY <3>1 DEF Value
  <2>4. Ret(v) \in S
    <3>1. CASE Now(0) \in O
      BY <3>1, <2>3 DEF Called
    <3>2. CASE Now(0) \in S
      BY <3>2, <2>1, <2>2 DEF Called
    <3>3. QED
      BY <3>1, <3>2, <2>1, AtFront
  <2>5. n = 0 => v \in {"false", "none"}
    <3>1. \/ m = 0 /\ Now(0) \in O
          \/ m > 1
      BY <2>1, AtFront
    <3>2. n = 0 => m = 0
      BY <3>1, <1>0 DEF n
    <3>3. m = 0 => Now(0) \in O
      BY <3>1, <1>0
    <3>4. QED
      BY <3>2, <3>3, <2>3
  <2> HIDE DEF v
  <2>6. QED
    BY <2>1, <2>4, <2>5, <1>1, Left DEF Moves
<1>22. CASE fallOff(0)
  <2>1. Leave(0, "none", Todo(0))
    BY <1>22 DEF fallOff
  <2>2. Ret("none") \in S
    BY DEF Called
  <2>3. Before(S, O, K, A, Todo(0), th[0].args, m)
    BY DEF Todo
  <2>4. QED
    BY <2>1, <2>2, <2>3, Left DEF Moves
<1>23. CASE raise(0)
  <2>1. Now(0).do = "raise" /\ Now(0).do # "end" /\ Throw(0, Now(0).x)
    BY <1>23 DEF raise, At
  <2>2. Now(0).x \in AnyException
    BY <2>1, FrontClosed
  <2>3. QED
    BY <2>1, <2>2, <1>2
<1>24. CASE fork(0) \/ join(0)
  <2>1. Now(0).do \in {"fork", "join"} /\ Now(0).do # "end"
    BY <1>24, Zenon DEF fork, join, At
  <2>2. QED
    BY <2>1, FrontClosed
<1>25. QED
  BY <1>6, <1>7, <1>8, <1>9, <1>10, <1>11, <1>12, <1>13, <1>14, <1>15, <1>16,
     <1>17, <1>18, <1>19, <1>20, <1>21, <1>22, <1>23, <1>24, <1>26 DEF Step

-----------------------------------------------------------------------------
(* All steps                                                               *)

\* The flags of the function that the test calls.
Flags == call.args \cup ({"positive", "wait"} \ call.flags)

(* The step of the statement that is next.                                 *)
LEMMA StepAt ==
    ASSUME Step(0), Todo(0) # <<>>
    PROVE  /\ Now(0).do = "request" => accepted(0) \/ refused(0) \/ lost(0)
           /\ Now(0).do = "return" => return(0)
           /\ Now(0).do = "raise" => raise(0)
           /\ Now(0).do \in {"if", "when"} => branch(0)
           /\ Now(0).do \in {"see", "look", "wait"} =>
                \/ see(0) \/ notFound(0) \/ lost(0)
                \/ sampled(0) \/ gaveUp(0) \/ sleeps(0) \/ timeout(0)
<1>1. CASE found(0) \/ see(0) \/ remember(0)
  BY <1>1 DEF found, see, remember, At
<1>2. CASE notFound(0)
  BY <1>2 DEF notFound, At
<1>3. CASE accepted(0) \/ refused(0) \/ lost(0)
  BY <1>3 DEF accepted, refused, lost, At
<1>4. CASE sampled(0) \/ gaveUp(0) \/ sleeps(0) \/ timeout(0)
  BY <1>4 DEF sampled, gaveUp, sleeps, timeout, At
<1>5. CASE branch(0)
  BY <1>5 DEF branch, At
<1>6. CASE keep(0) \/ calls(0) \/ enterTry(0) \/ leaveTry(0)
  BY <1>6 DEF keep, calls, enterTry, leaveTry, At
<1>7. CASE return(0) \/ fallOff(0) \/ raise(0)
  BY <1>7 DEF return, fallOff, raise, At
<1>8. CASE fork(0)
  BY <1>8, Zenon DEF fork, At
<1>9. CASE join(0)
  BY <1>9, Zenon DEF join, At
<1>10. QED
  BY <1>1, <1>2, <1>3, <1>4, <1>5, <1>6, <1>7, <1>8, <1>9 DEF Step

(* Nothing is left before the tail.                                        *)
LEMMA AtTail ==
    ASSUME NEW S, NEW O, NEW K, IsTail(K), NEW A, NEW s, NEW a, NEW m,
           Before(S, O, K, A, s, a, m), ~ (Len(s) > Len(K))
    PROVE  s = K /\ a = A
<1>1. Len(s) \in Nat /\ Len(K) \in Nat /\ Len(s) = Len(K) /\ m = 0
  <2>1. Len(s) \in Nat /\ Len(K) \in Nat
    BY BeforeLens
  <2>2. QED
    BY <2>1 DEF Before
<1>2. PICK U : s \in Seq(U)
  BY DEF Before, Sequence
<1>3. PICK V : K \in Seq(V)
  BY DEF IsTail, Sequence
<1> DEFINE W == U \cup V
<1>4. s \in Seq(W) /\ K \in Seq(W)
  BY <1>2, <1>3, SeqMonotonic
<1> HIDE DEF W
<1>5. \A i \in 1 .. Len(s) : s[i] = K[i]
  <2> SUFFICES ASSUME NEW i \in 1 .. Len(s) PROVE s[i] = K[i]
    OBVIOUS
  <2>1. i \in 1 .. Len(K) /\ (Len(s) - Len(K)) + i = i
    BY <1>1
  <2>2. s[(Len(s) - Len(K)) + i] = K[i]
    BY <2>1 DEF Before
  <2>3. QED
    BY <2>1, <2>2
<1>6. s = K
  BY <1>1, <1>4, <1>5, SeqEqual
<1>7. a = A
  BY <1>1 DEF Before
<1>8. QED
  BY <1>6, <1>7

-----------------------------------------------------------------------------
(* The last statements of a function                                       *)

(* A sequence of one element.                                              *)
LEMMA OneOf ==
    ASSUME NEW a
    PROVE  <<a>> # <<>> /\ Head(<<a>>) = a /\ Tail(<<a>>) = <<>>
OBVIOUS

(* A sequence of two elements.                                             *)
LEMMA TwoOf ==
    ASSUME NEW a, NEW b
    PROVE  /\ <<a, b>> # <<>> /\ Head(<<a, b>>) = a /\ Tail(<<a, b>>) = <<b>>
           /\ Sequence(<<a, b>>) /\ Len(<<a, b>>) = 2
           /\ <<a, b>>[1] = a /\ <<a, b>>[2] = b
<1>1. <<a, b>> \in Seq({a, b})
  OBVIOUS
<1>2. Sequence(<<a, b>>)
  BY <1>1 DEF Sequence
<1>3. /\ <<a, b>> # <<>> /\ Head(<<a, b>>) = a /\ Tail(<<a, b>>) = <<b>>
      /\ Len(<<a, b>>) = 2 /\ <<a, b>>[1] = a /\ <<a, b>>[2] = b
  OBVIOUS
<1>4. QED
  BY <1>2, <1>3

(* A sequence of three elements.                                           *)
LEMMA ThreeOf ==
    ASSUME NEW a, NEW b, NEW c
    PROVE  /\ <<a, b, c>> # <<>> /\ Head(<<a, b, c>>) = a
           /\ Tail(<<a, b, c>>) = <<b, c>>
OBVIOUS

(* A statement and then others.                                            *)
LEMMA Consed ==
    ASSUME NEW z, NEW s, Sequence(s)
    PROVE  /\ Sequence(<<z>> \o s) /\ <<z>> \o s # <<>>
           /\ Head(<<z>> \o s) = z /\ Tail(<<z>> \o s) = s
<1>1. PICK U : s \in Seq(U)
  BY DEF Sequence
<1> DEFINE V == U \cup {z}
<1>2. s \in Seq(V) /\ z \in V
  BY <1>1, SeqMonotonic
<1> HIDE DEF V
<1>3. <<z>> \o s \in Seq(V) /\ Head(<<z>> \o s) = z /\ Tail(<<z>> \o s) = s
  BY <1>2
<1>4. <<z>> \o s # <<>>
  BY <1>2
<1>5. QED
  BY <1>3, <1>4 DEF Sequence

(* The body of a branch and then others.                                   *)
LEMMA Appended ==
    ASSUME NEW a, NEW b, NEW c
    PROVE  /\ <<>> \o <<a>> = <<a>>
           /\ <<a>> \o <<b>> = <<a, b>>
           /\ <<a, b>> \o <<c>> = <<a, b, c>>
           /\ <<a>> \o <<b, c>> = <<a, b, c>>
<1> DEFINE U == {a, b, c}
<1>1. /\ <<a>> \in Seq(U) /\ <<b>> \in Seq(U) /\ <<c>> \in Seq(U)
      /\ <<a, b>> \in Seq(U) /\ <<b, c>> \in Seq(U) /\ <<a, b, c>> \in Seq(U)
  OBVIOUS
<1> HIDE DEF U
<1>2. <<>> \o <<a>> = <<a>>
  BY <1>1, ConcatEmptySeq
<1>3. <<a>> \o <<b>> = <<a, b>>
  <2> DEFINE n == <<a>> \o <<b>>
             m == <<a, b>>
  <2>1. /\ Len(<<a>>) = 1 /\ <<a>>[1] = a
        /\ Len(<<b>>) = 1 /\ <<b>>[1] = b
    OBVIOUS
  <2>2. \A i \in 1 .. 2 :
            n[i] = IF i <= 1 THEN <<a>>[i] ELSE <<b>>[i - 1]
    BY <1>1, <2>1, ConcatProperties
  <2>3. n \in Seq(U) /\ Len(n) = 2
    BY <1>1, <2>1, ConcatProperties
  <2>4. n[1] = a /\ n[2] = b
    BY <2>1, <2>2
  <2>5. m \in Seq(U) /\ Len(m) = 2 /\ m[1] = a /\ m[2] = b
    BY <1>1
  <2> HIDE DEF n, m
  <2>6. \A i \in 1 .. 2 : n[i] = m[i]
    BY <2>4, <2>5
  <2>7. n = m
    BY <2>3, <2>5, <2>6, SeqEqual
  <2>8. QED
    BY <2>7 DEF n, m
<1>4. <<a, b>> \o <<c>> = <<a, b, c>>
  <2> DEFINE n == <<a, b>> \o <<c>>
             m == <<a, b, c>>
  <2>1. /\ Len(<<a, b>>) = 2 /\ <<a, b>>[1] = a /\ <<a, b>>[2] = b
        /\ Len(<<c>>) = 1 /\ <<c>>[1] = c
    OBVIOUS
  <2>2. \A i \in 1 .. 3 :
            n[i] = IF i <= 2 THEN <<a, b>>[i] ELSE <<c>>[i - 2]
    BY <1>1, <2>1, ConcatProperties
  <2>3. n \in Seq(U) /\ Len(n) = 3
    BY <1>1, <2>1, ConcatProperties
  <2>4. n[1] = a /\ n[2] = b /\ n[3] = c
    BY <2>1, <2>2
  <2>5. m \in Seq(U) /\ Len(m) = 3 /\ m[1] = a /\ m[2] = b /\ m[3] = c
    BY <1>1
  <2> HIDE DEF n, m
  <2>6. \A i \in 1 .. 3 : n[i] = m[i]
    BY <2>4, <2>5
  <2>7. n = m
    BY <2>3, <2>5, <2>6, SeqEqual
  <2>8. QED
    BY <2>7 DEF n, m
<1>5. <<a>> \o <<b, c>> = <<a, b, c>>
  <2> DEFINE n == <<a>> \o <<b, c>>
             m == <<a, b, c>>
  <2>1. /\ Len(<<a>>) = 1 /\ <<a>>[1] = a
        /\ Len(<<b, c>>) = 2 /\ <<b, c>>[1] = b /\ <<b, c>>[2] = c
    OBVIOUS
  <2>2. \A i \in 1 .. 3 :
            n[i] = IF i <= 1 THEN <<a>>[i] ELSE <<b, c>>[i - 1]
    BY <1>1, <2>1, ConcatProperties
  <2>3. n \in Seq(U) /\ Len(n) = 3
    BY <1>1, <2>1, ConcatProperties
  <2>4. n[1] = a /\ n[2] = b /\ n[3] = c
    BY <2>1, <2>2
  <2>5. m \in Seq(U) /\ Len(m) = 3 /\ m[1] = a /\ m[2] = b /\ m[3] = c
    BY <1>1
  <2> HIDE DEF n, m
  <2>6. \A i \in 1 .. 3 : n[i] = m[i]
    BY <2>4, <2>5
  <2>7. n = m
    BY <2>3, <2>5, <2>6, SeqEqual
  <2>8. QED
    BY <2>7 DEF n, m
<1>6. QED
  BY <1>2, <1>3, <1>4, <1>5

\* No statement of s catches an exception, or is entered by a return.
Plain(s) ==
    /\ Sequence(s)
    /\ \A i \in 1 .. Len(s) : s[i].do \notin {"end", "except", "finally"}

(* An exception among the last statements ends the call.                   *)
LEMMA ThrowsOut ==
    ASSUME NEW x, Plain(Rest(0)), Throw(0, x)
    PROVE  out' = [out EXCEPT ![0] = "raised"] /\ th' = [th EXCEPT ![0] = Idle]
<1> DEFINE s == Rest(0)
<1>1. PICK i : Catches(s, x, i)
  BY DEF Catches
<1>2. i = 0
  BY <1>1, Caught DEF Plain
<1>3. QED
  BY <1>1, <1>2 DEF Throw, Catches

(* A return among the last statements is the answer.                       *)
LEMMA LeavesOut ==
    ASSUME NEW v, NEW s, Plain(s), Leave(0, v, s)
    PROVE  out' = [out EXCEPT ![0] = v] /\ th' = [th EXCEPT ![0] = Idle]
<1>1. PICK i : Stops(s, i)
  BY DEF Stops
<1>2. i = 0
  BY <1>1, Stopped DEF Plain
<1>3. QED
  BY <1>1, <1>2 DEF Leave, Stops

\* What the call promises to a test that demands it has been seen.
Promised ==
    Demanded => \A x \in DOMAIN call.done : seen[x] \in call.done[x]

\* The request q of a negative call has been refused.
Refused(q) ==
    q.do = "request" /\ q.sign = "given"
    /\ "positive" \in call.flags \ call.args => verdict = "refused"

\* What the result True of the statement q means.
Kept(q) == Promised /\ Refused(q)

(* A positive call, and one that demands what it promises.                 *)
LEMMA Signs ==
    /\ "positive" \in Flags => "positive" \notin call.flags \ call.args
    /\ Demanded => "positive" \in Flags /\ "wait" \in Flags
BY DEF Flags, Demanded

(* A request of the tail: its result True means that it was refused if the *)
(* call is negative, and that the promise is kept if the request shows it. *)
(* Or the connection is lost.                                              *)
LEMMA RequestStep ==
    ASSUME NEW q, NEW T, Plain(T), Alone, out[0] = "running", Record(th[0]),
           th[0].todo = <<q>> \o T, th[0].args = Flags, Step(0),
           q.do = "request", DOMAIN call.done \subseteq Tracked
    PROVE  \/ /\ out' = out
              /\ \E r : /\ Record(r) /\ th' = [th EXCEPT ![0] = r]
                        /\ r.todo = T /\ r.args = Flags
                        /\ r.res => Refused(q)'
                        /\ r.res /\ Shows(q, call.done) => Promised'
           \/ out' = [out EXCEPT ![0] = "raised"] /\ th' = [th EXCEPT ![0] = Idle]
<1>1. Todo(0) # <<>> /\ Now(0) = q /\ Rest(0) = T /\ 0 \in DOMAIN th
  BY Consed DEF Todo, Now, Rest, Alone, Threads, Plain
<1>2. accepted(0) \/ refused(0) \/ lost(0)
  BY <1>1, StepAt
<1>3. Sign(0) <=> q.sign = "true" \/ "positive" \in Flags
  BY <1>1 DEF Sign, Positive
<1>4. call' = call
  BY StepKeeps
<1>5. CASE accepted(0)
  <2>1. PICK match \in BOOLEAN :
            /\ Result(0, Sign(0) /\ match, T)
            /\ Learn(q.e, IF match THEN "asked" ELSE "unseen")
    BY <1>1, <1>5 DEF accepted
  <2>2. PICK y : y = (Sign(0) /\ match)
    OBVIOUS
  <2>3. PICK r : /\ Record(r) /\ th' = [th EXCEPT ![0] = r]
                 /\ r.todo = T /\ r.args = th[0].args /\ r.res = y
    <3>1. Result(0, y, T)
      BY <2>1, <2>2
    <3>2. QED
      BY <3>1, <1>1, Resulted
  <2>4. y => Refused(q)'
    BY <2>2, <1>3, <1>4, Signs DEF Refused
  <2>5. ASSUME y, Shows(q, call.done) PROVE Promised'
    <3>1. call.done = [x \in {q.e} |-> {"asked"}]
      BY <2>5 DEF Shows
    <3>2. q.e \in DOMAIN seen
      BY <3>1 DEF Alone
    <3>3. seen' = [seen EXCEPT ![q.e] = "asked"]
      BY <2>1, <2>2, <2>5, <3>2 DEF Learn
    <3>4. seen'[q.e] = "asked"
      BY <3>2, <3>3
    <3>5. QED
      BY <3>1, <3>4, <1>4 DEF Promised
  <2>6. out' = out
    BY <1>5 DEF accepted
  <2>7. QED
    BY <2>3, <2>4, <2>5, <2>6
<1>6. CASE refused(0)
  <2> DEFINE missing == q.op.verb # "create" /\ Status(q.e) = "none"
  <2>1. /\ Result(0, ~ Sign(0) /\ ~ missing, T)
        /\ Noted(0, IF missing THEN "missing" ELSE "refused")
        /\ out' = out
    BY <1>1, <1>6 DEF refused
  <2>2. PICK y : y = (~ Sign(0) /\ ~ missing)
    OBVIOUS
  <2>3. PICK r : /\ Record(r) /\ th' = [th EXCEPT ![0] = r]
                 /\ r.todo = T /\ r.args = th[0].args /\ r.res = y
    <3>1. Result(0, y, T)
      BY <2>1, <2>2
    <3>2. QED
      BY <3>1, <1>1, Resulted
  <2>4. y => Refused(q)'
    BY <2>1, <2>2, <1>1, <1>3 DEF Noted, Refused
  <2>5. y => Promised'
    <3>1. y => ~ Demanded
      BY <2>2, <1>3, Signs
    <3>2. Demanded' <=> Demanded
      BY <1>4 DEF Demanded
    <3>3. QED
      BY <3>1, <3>2 DEF Promised
  <2>6. QED
    BY <2>1, <2>3, <2>4, <2>5
<1>7. CASE lost(0)
  BY <1>1, <1>7, ThrowsOut DEF lost
<1>8. QED
  BY <1>2, <1>5, <1>6, <1>7

(* A statement of the tail that sees what the call promises, if its result *)
(* is True.  A wait may take another sample, or raise.                     *)
LEMMA SightStep ==
    ASSUME NEW q, NEW T, Plain(T), Alone, out[0] = "running", Record(th[0]),
           th[0].todo = <<q>> \o T, th[0].args = Flags, Step(0),
           q.do \in {"see", "look", "wait"}, Shows(q, call.done),
           DOMAIN call.done \subseteq Tracked
    PROVE  \/ /\ out' = out
              /\ \E r : /\ Record(r) /\ th' = [th EXCEPT ![0] = r]
                        /\ r.args = Flags
                        /\ \/ r.todo = th[0].todo
                           \/ r.todo = T /\ (r.res => Kept(q)')
           \/ out' = [out EXCEPT ![0] = "raised"] /\ th' = [th EXCEPT ![0] = Idle]
<1>1. Todo(0) # <<>> /\ Now(0) = q /\ Rest(0) = T /\ 0 \in DOMAIN th
  BY Consed DEF Todo, Now, Rest, Alone, Threads, Plain
<1>2. call' = call
  BY StepKeeps
<1>3. /\ DOMAIN call.done \subseteq q.es \cap DOMAIN seen
      /\ \A x \in DOMAIN call.done : q.goal \subseteq call.done[x]
      /\ q.do = "wait" => q.by # "same"
  BY DEF Shows, Alone
<1>4. Refused(q)'
  BY DEF Refused
<1>5. ASSUME Saw(q.es), \A x \in q.es : Status(x) \in q.goal PROVE Kept(q)'
  <2>1. \A x \in DOMAIN call.done : seen'[x] = Status(x)
    BY <1>3, <1>5 DEF Saw
  <2>2. \A x \in DOMAIN call.done : seen'[x] \in call.done[x]
    BY <2>1, <1>3, <1>5
  <2>3. QED
    BY <2>2, <1>2, <1>4 DEF Kept, Promised
<1>6. ASSUME NEW y, Result(0, y, T), out' = out, y => Kept(q)'
      PROVE  /\ out' = out
             /\ \E r : /\ Record(r) /\ th' = [th EXCEPT ![0] = r]
                       /\ r.args = Flags
                       /\ r.todo = T /\ (r.res => Kept(q)')
  BY <1>6, <1>1, Resulted
<1>7. ASSUME NEW x, Throw(0, x)
      PROVE  /\ out' = [out EXCEPT ![0] = "raised"]
             /\ th' = [th EXCEPT ![0] = Idle]
  BY <1>7, <1>1, ThrowsOut
<1>8. \/ see(0) \/ notFound(0) \/ lost(0) \/ sampled(0) \/ gaveUp(0)
      \/ sleeps(0) \/ timeout(0)
  BY <1>1, StepAt
<1>9. CASE see(0)
  <2>1. PICK y : /\ y = (\A x \in q.es : Status(x) \in q.goal)
                 /\ Result(0, y, T) /\ Saw(q.es) /\ out' = out
    BY <1>1, <1>9 DEF see
  <2>2. QED
    BY <2>1, <1>5, <1>6
<1>10. CASE notFound(0) \/ lost(0)
  BY <1>10, <1>7 DEF notFound, lost
<1>11. CASE sampled(0)
  <2>1. q.do = "wait" /\ Result(0, TRUE, T) /\ Saw(q.es) /\ out' = out
    BY <1>1, <1>11 DEF sampled, At
  <2>2. \A x \in q.es : Status(x) \in q.goal
    BY <2>1, <1>1, <1>3, <1>11 DEF sampled, Reached, There, Goal
  <2>3. QED
    BY <2>1, <2>2, <1>5, <1>6
<1>12. CASE gaveUp(0)
  <2>1. Result(0, FALSE, T) /\ out' = out
    BY <1>1, <1>12 DEF gaveUp
  <2>2. QED
    BY <2>1, <1>6
<1>13. CASE sleeps(0)
  <2> DEFINE r == [th[0] EXCEPT !.polls = @ + 1]
  <2>1. th' = [th EXCEPT ![0] = r] /\ out' = out
    BY <1>13 DEF sleeps
  <2>2. Record(r) /\ r.todo = th[0].todo /\ r.args = th[0].args
    BY DEF Record
  <2>3. QED
    BY <2>1, <2>2
<1>14. CASE timeout(0)
  <2>1. (\E x : Throw(0, x)) \/ (Result(0, FALSE, T) /\ out' = out)
    BY <1>1, <1>14 DEF timeout
  <2>2. QED
    BY <2>1, <1>6, <1>7
<1>15. QED
  BY <1>8, <1>9, <1>10, <1>11, <1>12, <1>13, <1>14

(* The return of the result.                                               *)
LEMMA ResultStep ==
    ASSUME NEW T, Plain(T), th[0].todo = <<Ret("res")>> \o T, Step(0)
    PROVE  /\ out' = [out EXCEPT ![0] = IF th[0].res THEN "true" ELSE "false"]
           /\ th' = [th EXCEPT ![0] = Idle]
           /\ UNCHANGED <<call, ent, seen, verdict, reasons>>
<1>1. Todo(0) # <<>> /\ Now(0) = Ret("res") /\ Rest(0) = T
  <2>1. PICK z : z = Ret("res")
    OBVIOUS
  <2>2. QED
    BY <2>1, Consed DEF Todo, Now, Rest, Plain
<1>2. Now(0).do = "return" /\ Now(0).v = "res"
  BY <1>1 DEF Ret
<1>3. return(0)
  BY <1>1, <1>2, StepAt
<1> DEFINE v == IF th[0].res THEN "true" ELSE "false"
<1>4. Leave(0, v, T)
  BY <1>1, <1>2, <1>3 DEF return, Value, Truth
<1> HIDE DEF v
<1>5. out' = [out EXCEPT ![0] = v] /\ th' = [th EXCEPT ![0] = Idle]
  BY <1>4, LeavesOut
<1>6. QED
  BY <1>3, <1>5 DEF return, v

(* The return of True.                                                     *)
LEMMA TrueStep ==
    ASSUME th[0].todo = <<Ret("true")>>, Step(0)
    PROVE  /\ out' = [out EXCEPT ![0] = "true"]
           /\ th' = [th EXCEPT ![0] = Idle]
           /\ UNCHANGED <<call, ent, seen, verdict, reasons>>
<1>1. Todo(0) # <<>> /\ Now(0) = Ret("true") /\ Rest(0) = <<>>
  <2>1. PICK z : z = Ret("true")
    OBVIOUS
  <2>2. QED
    BY <2>1, OneOf DEF Todo, Now, Rest
<1>2. Now(0).do = "return" /\ Now(0).v = "true"
  BY <1>1 DEF Ret
<1>3. return(0)
  BY <1>1, <1>2, StepAt
<1>4. Leave(0, "true", <<>>)
  BY <1>1, <1>2, <1>3 DEF return, Value
<1>5. Plain(<<>>)
  BY EmptySeq DEF Plain, Sequence
<1>6. QED
  BY <1>3, <1>4, <1>5, LeavesOut DEF return

(* The failure of a function: False, None, or an exception.                *)
LEMMA FailureStep ==
    ASSUME NEW f \in Failures, NEW T, Plain(T),
           th[0].todo = <<f>> \o T, Step(0)
    PROVE  /\ \E v \in {"raised", "false", "none"} :
                out' = [out EXCEPT ![0] = v]
           /\ th' = [th EXCEPT ![0] = Idle]
           /\ UNCHANGED <<call, ent, seen, verdict, reasons>>
<1>1. Todo(0) # <<>> /\ Now(0) = f /\ Rest(0) = T
  BY Consed DEF Todo, Now, Rest, Plain
<1>2. CASE f \in {Ret("false"), Ret("none")}
  <2>1. Now(0).do = "return" /\ Now(0).v \in {"false", "none"}
    BY <1>1, <1>2 DEF Ret
  <2>2. return(0)
    BY <1>1, <2>1, StepAt
  <2>3. Leave(0, Now(0).v, T)
    BY <1>1, <2>1, <2>2 DEF return, Value
  <2>4. QED
    BY <2>1, <2>2, <2>3, LeavesOut DEF return
<1>3. CASE \E x \in AnyException : f = Raise(x)
  <2>1. Now(0).do = "raise"
    BY <1>1, <1>3 DEF Raise
  <2>2. raise(0)
    BY <1>1, <2>1, StepAt
  <2>3. Throw(0, Now(0).x)
    BY <2>2 DEF raise
  <2>4. QED
    BY <1>1, <2>2, <2>3, ThrowsOut DEF raise
<1>4. QED
  BY <1>2, <1>3 DEF Failures

(* A test of the result.                                                   *)
LEMMA IfStep ==
    ASSUME NEW i, i.do = "if", NEW T, Sequence(T), out[0] = "running",
           Record(th[0]), th[0].todo = <<i>> \o T, Step(0)
    PROVE  /\ out' = out /\ UNCHANGED <<call, ent, seen, verdict, reasons>>
           /\ \E r : /\ Record(r) /\ th' = [th EXCEPT ![0] = r]
                     /\ r.todo = (IF th[0].res THEN i.yes ELSE i.no) \o T
                     /\ r.args = th[0].args /\ r.res = th[0].res
<1>1. Todo(0) # <<>> /\ Now(0) = i /\ Rest(0) = T
  BY Consed DEF Todo, Now, Rest
<1>2. branch(0)
  BY <1>1, StepAt
<1>3. PICK todo : todo = (IF th[0].res THEN i.yes ELSE i.no) \o T
  OBVIOUS
<1>4. Goto(0, todo) /\ Local
  BY <1>1, <1>2, <1>3 DEF branch, At
<1>5. \E r : /\ Record(r) /\ th' = [th EXCEPT ![0] = r]
             /\ r.todo = todo /\ r.args = th[0].args /\ r.res = th[0].res
  BY <1>4, Went
<1>6. out' = out /\ UNCHANGED <<call, ent, seen, verdict, reasons>>
  BY <1>4 DEF Local
<1>7. QED
  BY <1>3, <1>5, <1>6

(* The endings of the functions catch nothing.                             *)
LEMMA EndingsPlain ==
    ASSUME NEW T \in Endings
    PROVE  Plain(T) /\ T # <<>>
<1>1. CASE T = <<Ret("res")>>
  <2>1. Ret("res").do = "return"
    BY DEF Ret
  <2>2. PICK z : z = Ret("res")
    OBVIOUS
  <2>3. Plain(<<z>>) /\ <<z>> # <<>>
    BY <2>1, <2>2, Single, OneOf DEF Plain
  <2>4. QED
    BY <1>1, <2>2, <2>3
<1>2. CASE \E f \in Failures : T = <<If(<<>>, <<f>>), Ret("true")>>
  <2>1. PICK f \in Failures : T = <<If(<<>>, <<f>>), Ret("true")>>
    BY <1>2
  <2>2. If(<<>>, <<f>>).do = "if" /\ Ret("true").do = "return"
    BY DEF If, Ret
  <2>3. PICK y, z : y = If(<<>>, <<f>>) /\ z = Ret("true")
    OBVIOUS
  <2>4. PICK k : k = <<y, z>>
    OBVIOUS
  <2>5. /\ Sequence(k) /\ Len(k) = 2 /\ k[1] = y /\ k[2] = z
        /\ k # <<>>
    BY <2>4, TwoOf
  <2>6. Plain(k)
    BY <2>2, <2>3, <2>5 DEF Plain
  <2>7. QED
    BY <2>1, <2>3, <2>4, <2>5, <2>6
<1>3. QED
  BY <1>1, <1>2 DEF Endings

(* A statement and an ending are the tail of a function.                   *)
LEMMA TailOf ==
    ASSUME NEW q, NEW T, Plain(T),
           q.do \in {"request", "see", "look", "wait"}
    PROVE  IsTail(<<q>> \o T)
<1> DEFINE s == <<q>> \o T
<1>1. Joins(s, <<q>>, T)
  BY Single, Joined DEF Plain
<1>2. Len(<<q>>) = 1 /\ <<q>>[1] = q
  BY Single
<1> HIDE DEF s
<1>3. Len(s) = 1 + Len(T) /\ Len(T) \in Nat /\ Sequence(s) /\ s[1] = q
  BY <1>1, <1>2 DEF Joins
<1>4. \A i \in 1 .. Len(T) : s[1 + i] = T[i]
  BY <1>1, <1>2 DEF Joins
<1>5. \A i \in 1 .. Len(s) : s[i].do \notin {"end", "except", "finally"}
  <2> SUFFICES ASSUME NEW i \in 1 .. Len(s)
               PROVE  s[i].do \notin {"end", "except", "finally"}
    OBVIOUS
  <2>1. CASE i = 1
    BY <2>1, <1>3
  <2>2. CASE i # 1
    <3>1. i - 1 \in 1 .. Len(T) /\ 1 + (i - 1) = i
      BY <2>2, <1>3
    <3>2. s[i] = T[i - 1]
      BY <3>1, <1>4
    <3>3. QED
      BY <3>1, <3>2 DEF Plain
  <2>3. QED
    BY <2>1, <2>2
<1>6. IsTail(s)
  BY <1>3, <1>5 DEF IsTail
<1>7. QED
  BY <1>6 DEF s

(* A sequence over O and then the tail is before the tail.                 *)
LEMMA BeforeAtFirst ==
    ASSUME NEW S, NEW O, NEW K, IsTail(K), NEW A, NEW p \in Seq(O)
    PROVE  Before(S, O, K, A, p \o K, A, 0)
<1> DEFINE s == p \o K
<1>1. Sequence(p) /\ Len(p) \in Nat /\ \A i \in 1 .. Len(p) : p[i] \in O
  BY Elements
<1>2. Joins(s, p, K)
  BY <1>1, Joined DEF IsTail
<1> HIDE DEF s
<1>3. Len(K) \in Nat /\ Len(s) = Len(p) + Len(K) /\ Sequence(s)
  BY <1>2 DEF Joins
<1>4. Len(s) - Len(K) = Len(p) /\ Len(s) >= Len(K) /\ Len(s) \in Nat
  BY <1>1, <1>3
<1>5. \A i \in 1 .. Len(K) : s[(Len(s) - Len(K)) + i] = K[i]
  BY <1>2, <1>4 DEF Joins
<1>6. \A i \in (0 + 1) .. (Len(s) - Len(K)) : s[i] \in O
  <2> SUFFICES ASSUME NEW i \in (0 + 1) .. (Len(s) - Len(K)) PROVE s[i] \in O
    OBVIOUS
  <2>1. i \in 1 .. Len(p)
    BY <1>1, <1>4
  <2>2. QED
    BY <2>1, <1>1, <1>2 DEF Joins
<1>7. 0 \in 0 .. (Len(s) - Len(K)) /\ ~ (0 > 0) /\ 1 .. (0 - 1) = {}
  BY <1>1, <1>4
<1>8. Before(S, O, K, A, s, A, 0)
  BY <1>3, <1>4, <1>5, <1>6, <1>7 DEF Before
<1>9. QED
  BY <1>8 DEF s

(* The test at the start of a call.                                        *)
LEMMA AtStart ==
    ASSUME Init
    PROVE  /\ Alone /\ Record(th[0]) /\ out[0] = "running"
           /\ th[0].args = Flags
           /\ th[0].res = FALSE /\ verdict = "none" /\ reasons = {}
           /\ \A x \in Tracked : ent[x].mine = FALSE
<1>0. PICK c \in Library : \E a \in SUBSET c.flags :
        /\ call = [fn |-> c.fn, flags |-> c.flags, args |-> a,
                   done |-> c.done, yes |-> c.yes]
        /\ \E f \in Starts(c.given) :
            ent = [e \in DOMAIN f |->
                    [st |-> f[e], path |-> StartPath(f[e]),
                     fail |-> "never", mine |-> FALSE]]
        /\ th = [t \in Threads |->
                IF t = 0
                THEN [Idle EXCEPT !.todo = c.body, !.args = a \cup Defaults(c)]
                ELSE Idle]
  BY Zenon DEF Init
<1>1. PICK a \in SUBSET c.flags :
        /\ call = [fn |-> c.fn, flags |-> c.flags, args |-> a,
                   done |-> c.done, yes |-> c.yes]
        /\ \E f \in Starts(c.given) :
            ent = [e \in DOMAIN f |->
                    [st |-> f[e], path |-> StartPath(f[e]),
                     fail |-> "never", mine |-> FALSE]]
        /\ th = [t \in Threads |->
                IF t = 0
                THEN [Idle EXCEPT !.todo = c.body, !.args = a \cup Defaults(c)]
                ELSE Idle]
  BY <1>0, Zenon
<1>2. /\ out = [t \in Threads |-> IF t = 0 THEN "running" ELSE "idle"]
      /\ seen = [e \in DOMAIN ent |-> "unseen"]
      /\ verdict = "none" /\ reasons = {}
  BY DEF Init
<1>3. DOMAIN th = Threads /\ DOMAIN out = Threads /\ DOMAIN seen = Tracked
  BY <1>1, <1>2 DEF Tracked
<1>4. out[0] = "running" /\ out[1] = "idle" /\ out[2] = "idle"
  BY <1>2 DEF Threads
<1> DEFINE args == a \cup Defaults(c)
           r == [[Idle EXCEPT !.todo = c.body] EXCEPT !.args = args]
<1>5. th[0] = r
  BY <1>1 DEF Threads
<1>6. args = Flags
  BY <1>1 DEF Flags, Defaults
<1> HIDE DEF args
<1>7. Record(r) /\ r.args = args /\ r.res = FALSE
  BY DEF Record, Idle
<1> HIDE DEF r
<1>8. \A x \in Tracked : ent[x].mine = FALSE
  BY <1>1 DEF Tracked
<1>9. QED
  BY <1>2, <1>3, <1>4, <1>5, <1>6, <1>7, <1>8 DEF Alone

-----------------------------------------------------------------------------
(* Functions that answer what their last statement has seen                *)

\* The call ends with q, which shows its promise, and T; it has the
\* statements O before that.
EndsWith(O, q, T) ==
    /\ \E p \in Seq(O) : th[0].todo = p \o (<<q>> \o T)
    /\ Shows(q, call.done)
    /\ call.yes = "true"
    /\ DOMAIN call.done \subseteq Tracked

\* The invariant: the function is before q, or has a result that means what
\* it says, or has failed, or has answered.
AnswerInv(S, O, q, T) ==
    /\ Alone
    /\ Shows(q, call.done) /\ call.yes = "true"
    /\ DOMAIN call.done \subseteq Tracked
    /\ out[0] = "running" =>
        /\ Record(th[0])
        /\ \/ \E m : Before(S, O, <<q>> \o T, Flags, th[0].todo, th[0].args, m)
           \/ /\ th[0].args = Flags
              /\ \/ th[0].todo = T /\ (th[0].res => Kept(q))
                 \/ th[0].todo = <<Ret("true")>> /\ Kept(q)
                 \/ \E f \in Failures : th[0].todo = <<f>> \o <<Ret("true")>>
    /\ out[0] # "running" =>
        \/ out[0] \in {"raised", "false", "none"}
        \/ out[0] = "true" /\ Kept(q)

(* The invariant holds initially.                                          *)
LEMMA InitAnswerInv ==
    ASSUME NEW S, NEW O, NEW q, NEW T \in Endings, Init, EndsWith(O, q, T)
    PROVE  AnswerInv(S, O, q, T)
<1>1. PICK K : K = <<q>> \o T
  OBVIOUS
<1>2. PICK p \in Seq(O) : th[0].todo = p \o K
  BY <1>1 DEF EndsWith
<1>3. IsTail(K)
  BY <1>1, EndingsPlain, TailOf DEF EndsWith, Shows
<1>4. PICK A : A = Flags
  OBVIOUS
<1>5. Before(S, O, K, A, th[0].todo, th[0].args, 0)
  BY <1>2, <1>3, <1>4, BeforeAtFirst, AtStart
<1>6. QED
  BY <1>1, <1>4, <1>5, AtStart DEF AnswerInv, EndsWith

(* What the result of q means depends on what has been seen only.          *)
LEMMA KeptKept ==
    ASSUME NEW q, UNCHANGED <<call, seen, verdict>>
    PROVE  Kept(q)' <=> Kept(q)
BY DEF Kept, Promised, Refused, Demanded

(* A step of the test in the tail.                                         *)
LEMMA AnswerStep ==
    ASSUME NEW q, NEW T \in Endings, Alone, out[0] = "running",
           Record(th[0]), th[0].args = Flags, Step(0),
           Shows(q, call.done), DOMAIN call.done \subseteq Tracked,
           \/ th[0].todo = <<q>> \o T
           \/ th[0].todo = T /\ (th[0].res => Kept(q))
           \/ th[0].todo = <<Ret("true")>> /\ Kept(q)
           \/ \E f \in Failures : th[0].todo = <<f>> \o <<Ret("true")>>
    PROVE  \/ /\ out' = out
              /\ \E r : /\ Record(r) /\ th' = [th EXCEPT ![0] = r]
                        /\ r.args = Flags
                        /\ \/ r.todo = th[0].todo /\ r.todo = <<q>> \o T
                           \/ r.todo = T /\ (r.res => Kept(q)')
                           \/ r.todo = <<Ret("true")>> /\ Kept(q)'
                           \/ \E f \in Failures :
                                r.todo = <<f>> \o <<Ret("true")>>
           \/ /\ th' = [th EXCEPT ![0] = Idle]
              /\ \E v : /\ out' = [out EXCEPT ![0] = v]
                        /\ \/ v \in {"raised", "false", "none"}
                           \/ v = "true" /\ Kept(q)'
<1>0. Plain(T)
  BY EndingsPlain
<1>1. CASE th[0].todo = <<q>> \o T
  <2>1. CASE q.do = "request"
    BY <1>0, <1>1, <2>1, RequestStep DEF Plain, Kept
  <2>2. CASE q.do \in {"see", "look", "wait"}
    BY <1>0, <1>1, <2>2, SightStep
  <2>3. QED
    BY <2>1, <2>2 DEF Shows
<1>2. ASSUME th[0].todo = T, th[0].res => Kept(q)
      PROVE  \/ /\ out' = out
                /\ \E r : /\ Record(r) /\ th' = [th EXCEPT ![0] = r]
                          /\ r.args = Flags
                          /\ \/ r.todo = <<Ret("true")>> /\ Kept(q)'
                             \/ \E f \in Failures :
                                    r.todo = <<f>> \o <<Ret("true")>>
             \/ /\ th' = [th EXCEPT ![0] = Idle]
                /\ \E v : /\ out' = [out EXCEPT ![0] = v]
                          /\ v = "false" \/ (v = "true" /\ Kept(q)')
  <2>1. CASE T = <<Ret("res")>>
    <3>1. Plain(<<>>)
      BY EmptySeq DEF Plain, Sequence
    <3>2. th[0].todo = <<Ret("res")>> \o <<>>
      <4>1. <<Ret("res")>> \in Seq({Ret("res")})
        <5>1. PICK z : z = Ret("res")
          OBVIOUS
        <5>2. <<z>> \in Seq({z})
          OBVIOUS
        <5>3. QED
          BY <5>1, <5>2
      <4>2. QED
        BY <4>1, <1>2, <2>1, ConcatEmptySeq
    <3>3. PICK v : v = IF th[0].res THEN "true" ELSE "false"
      OBVIOUS
    <3>4. /\ out' = [out EXCEPT ![0] = v] /\ th' = [th EXCEPT ![0] = Idle]
          /\ UNCHANGED <<call, ent, seen, verdict, reasons>>
      BY <3>1, <3>2, <3>3, ResultStep
    <3>5. v = "false" \/ (v = "true" /\ Kept(q)')
      BY <3>3, <3>4, <1>2, KeptKept
    <3>6. QED
      BY <3>4, <3>5
  <2>2. ASSUME NEW f \in Failures, T = <<If(<<>>, <<f>>), Ret("true")>>
        PROVE  /\ out' = out
               /\ \E r : /\ Record(r) /\ th' = [th EXCEPT ![0] = r]
                         /\ r.args = Flags
                         /\ \/ r.todo = <<Ret("true")>> /\ Kept(q)'
                            \/ r.todo = <<f>> \o <<Ret("true")>>
    <3>1. PICK z : z = Ret("true")
      OBVIOUS
    <3>2. PICK i : i = If(<<>>, <<f>>)
      OBVIOUS
    <3>3. i.do = "if" /\ i.yes = <<>> /\ i.no = <<f>>
      BY <3>2 DEF If
    <3>4. th[0].todo = <<i>> \o <<z>> /\ Sequence(<<z>>)
      BY <1>2, <2>2, <3>1, <3>2, Appended, Single
    <3>5. PICK todo : todo = (IF th[0].res THEN i.yes ELSE i.no) \o <<z>>
      OBVIOUS
    <3>6. /\ out' = out /\ UNCHANGED <<call, ent, seen, verdict, reasons>>
          /\ \E r : /\ Record(r) /\ th' = [th EXCEPT ![0] = r]
                    /\ r.todo = todo
                    /\ r.args = th[0].args /\ r.res = th[0].res
      <4>1. PICK U : U = <<z>>
        OBVIOUS
      <4>2. /\ out' = out /\ UNCHANGED <<call, ent, seen, verdict, reasons>>
            /\ \E r : /\ Record(r) /\ th' = [th EXCEPT ![0] = r]
                      /\ r.todo = (IF th[0].res THEN i.yes ELSE i.no) \o U
                      /\ r.args = th[0].args /\ r.res = th[0].res
        <5>1. th[0].todo = <<i>> \o U /\ Sequence(U) /\ i.do = "if"
          BY <4>1, <3>3, <3>4
        <5>2. QED
          BY <5>1, IfStep
      <4>3. QED
        BY <4>1, <4>2, <3>5
    <3>7. \/ todo = <<z>> /\ Kept(q)
          \/ todo = <<f>> \o <<z>>
      BY <3>3, <3>5, <1>2, Appended
    <3>8. Kept(q)' <=> Kept(q)
      BY <3>6, KeptKept
    <3>9. QED
      BY <3>1, <3>6, <3>7, <3>8
  <2>3. QED
    BY <2>1, <2>2 DEF Endings
<1>3. CASE th[0].todo = <<Ret("true")>> /\ Kept(q)
  BY <1>3, TrueStep, KeptKept
<1>4. CASE \E f \in Failures : th[0].todo = <<f>> \o <<Ret("true")>>
  <2>1. Plain(<<Ret("true")>>)
    <3>1. PICK z : z = Ret("true")
      OBVIOUS
    <3>2. z.do = "return"
      BY <3>1 DEF Ret
    <3>3. Plain(<<z>>)
      BY <3>2, Single DEF Plain
    <3>4. QED
      BY <3>1, <3>3
  <2>2. QED
    BY <1>4, <2>1, FailureStep
<1>5. QED
  BY <1>1, <1>2, <1>3, <1>4

(* A change in the engine does not touch the test.                         *)
LEMMA SettleKeeps ==
    ASSUME NEW x, Settle(x)
    PROVE  UNCHANGED <<call, th, out, seen, verdict>> /\ DOMAIN ent' = DOMAIN ent
BY DEF Settle, Advance, Fail

(* Every step keeps the invariant.                                         *)
LEMMA NextAnswerInv ==
    ASSUME NEW S, NEW O, NEW q, NEW T \in Endings, Called(S), Early(O, S),
           AnswerInv(S, O, q, T), [Next]_vars
    PROVE  AnswerInv(S, O, q, T)'
<1> DEFINE K == <<q>> \o T
<1>0. IsTail(K) /\ Alone
  BY EndingsPlain, TailOf DEF AnswerInv, Shows
<1>1. CASE UNCHANGED vars
  BY <1>1, KeptKept DEF vars, AnswerInv, Alone, Tracked, Flags
<1>2. ASSUME NEW x \in Tracked, Settle(x) PROVE AnswerInv(S, O, q, T)'
  BY <1>2, SettleKeeps, KeptKept DEF AnswerInv, Alone, Tracked, Flags
<1>3. ASSUME NEW t \in Threads, Step(t) PROVE AnswerInv(S, O, q, T)'
  <2>1. t = 0 /\ out[0] = "running"
    BY <1>0, <1>3, StepRuns DEF Alone, Threads
  <2>2. call' = call /\ DOMAIN ent' = DOMAIN ent /\ DOMAIN seen' = DOMAIN seen
    BY <1>3, StepKeeps
  <2>3. Flags' = Flags
    BY <2>2 DEF Flags
  <2>4. PICK A : A = Flags
    OBVIOUS
  <2>5. /\ Shows(q, call'.done) /\ call'.yes = "true"
        /\ DOMAIN call'.done \subseteq Tracked'
    BY <2>2 DEF AnswerInv, Tracked
  <2> DEFINE Answered(v) == \/ v \in {"raised", "false", "none"}
                            \/ v = "true" /\ Kept(q)'
  <2>6. ASSUME NEW v, out' = [out EXCEPT ![0] = v],
               th' = [th EXCEPT ![0] = Idle], Answered(v)
        PROVE  AnswerInv(S, O, q, T)'
    <3>1. Alone' /\ out'[0] = v
      BY <2>6, <2>2, <1>0, StillAlone DEF Alone, Threads
    <3>2. v # "running"
      BY <2>6
    <3>3. QED
      BY <3>1, <3>2, <2>5, <2>6 DEF AnswerInv
  <2>7. ASSUME NEW r, Record(r), out' = out, th' = [th EXCEPT ![0] = r],
               \/ \E m : Before(S, O, K, A, r.todo, r.args, m)
               \/ /\ r.args = Flags
                  /\ \/ r.todo = T /\ (r.res => Kept(q)')
                     \/ r.todo = <<Ret("true")>> /\ Kept(q)'
                     \/ \E f \in Failures : r.todo = <<f>> \o <<Ret("true")>>
        PROVE  AnswerInv(S, O, q, T)'
    <3>1. Alone' /\ th'[0] = r
      BY <2>7, <2>2, <1>0, StillAlone
    <3>2. out'[0] = "running"
      BY <2>1, <2>7
    <3> HIDE DEF K
    <3>3. \/ \E m : Before(S, O, K, Flags', th'[0].todo, th'[0].args, m)
          \/ /\ th'[0].args = Flags'
             /\ \/ th'[0].todo = T /\ (th'[0].res => Kept(q)')
                \/ th'[0].todo = <<Ret("true")>> /\ Kept(q)'
                \/ \E f \in Failures : th'[0].todo = <<f>> \o <<Ret("true")>>
      BY <3>1, <2>3, <2>4, <2>7
    <3>4. QED
      BY <3>1, <3>2, <3>3, <2>5, <2>7 DEF AnswerInv, K
  <2> HIDE DEF Answered
  <2>8. CASE \E m : Before(S, O, K, A, th[0].todo, th[0].args, m)
    <3>1. PICK m : Before(S, O, K, A, th[0].todo, th[0].args, m)
      BY <2>8
    <3>2. CASE Len(th[0].todo) > Len(K)
      <4> HIDE DEF K
      <4>1. Moves(S, O, K, A)
        BY <3>1, <3>2, <2>1, <1>0, <1>3, EarlyStep DEF AnswerInv
      <4>2. QED
        BY <4>1, <2>6, <2>7 DEF Moves, Underway, Answered
    <3>3. CASE ~ (Len(th[0].todo) > Len(K))
      <4> HIDE DEF K
      <4>1. th[0].todo = K /\ th[0].args = Flags
        BY <3>1, <3>3, <2>4, <1>0, AtTail
      <4>2. \/ /\ out' = out
               /\ \E r : /\ Record(r) /\ th' = [th EXCEPT ![0] = r]
                         /\ r.args = Flags
                         /\ \/ r.todo = th[0].todo
                            \/ r.todo = T /\ (r.res => Kept(q)')
                            \/ r.todo = <<Ret("true")>> /\ Kept(q)'
                            \/ \E f \in Failures :
                                r.todo = <<f>> \o <<Ret("true")>>
            \/ /\ th' = [th EXCEPT ![0] = Idle]
               /\ \E v : out' = [out EXCEPT ![0] = v] /\ Answered(v)
        BY <4>1, <2>1, <1>0, <1>3, AnswerStep DEF AnswerInv, Answered, K
      <4>3. ASSUME NEW r, r.todo = th[0].todo, r.args = Flags
            PROVE  \E l : Before(S, O, K, A, r.todo, r.args, l)
        BY <4>1, <4>3, <2>4, <3>1
      <4>4. QED
        BY <4>2, <4>3, <2>6, <2>7
    <3>4. QED
      BY <3>2, <3>3
  <2>9. CASE /\ th[0].args = Flags
             /\ \/ th[0].todo = T /\ (th[0].res => Kept(q))
                \/ th[0].todo = <<Ret("true")>> /\ Kept(q)
                \/ \E f \in Failures : th[0].todo = <<f>> \o <<Ret("true")>>
    <3>1. th[0].todo # <<q>> \o T \/ th[0].todo = <<q>> \o T
      OBVIOUS
    <3>2. \/ /\ out' = out
             /\ \E r : /\ Record(r) /\ th' = [th EXCEPT ![0] = r]
                       /\ r.args = Flags
                       /\ \/ r.todo = th[0].todo /\ r.todo = K
                          \/ r.todo = T /\ (r.res => Kept(q)')
                          \/ r.todo = <<Ret("true")>> /\ Kept(q)'
                          \/ \E f \in Failures :
                              r.todo = <<f>> \o <<Ret("true")>>
          \/ /\ th' = [th EXCEPT ![0] = Idle]
             /\ \E v : out' = [out EXCEPT ![0] = v] /\ Answered(v)
      BY <2>9, <2>1, <1>0, <1>3, AnswerStep DEF AnswerInv, Answered
    <3>3. ASSUME NEW r, r.todo = K, r.args = Flags
          PROVE  \E l : Before(S, O, K, A, r.todo, r.args, l)
      <4>1. PICK p \in Seq(O) : p = <<>>
        BY EmptySeq
      <4>2. p \o K = K
        BY <4>1, <1>0, ConcatEmptySeq DEF IsTail, Sequence
      <4> HIDE DEF K
      <4>3. Before(S, O, K, A, K, A, 0)
        BY <4>1, <4>2, <1>0, BeforeAtFirst
      <4>4. QED
        BY <4>3, <3>3, <2>4
    <3> HIDE DEF K
    <3>4. QED
      BY <3>2, <3>3, <2>6, <2>7
  <2>10. QED
    BY <2>1, <2>4, <2>8, <2>9 DEF AnswerInv
<1>4. QED
  BY <1>1, <1>2, <1>3 DEF Next, Over

(* The invariant, for the calls of such functions.                         *)
LEMMA AnswerInvariant ==
    ASSUME NEW S, NEW O, NEW q, NEW T \in Endings, Called(S), Early(O, S)
    PROVE  Spec /\ EndsWith(O, q, T) => []AnswerInv(S, O, q, T)
<1>1. Init /\ EndsWith(O, q, T) => AnswerInv(S, O, q, T)
  BY InitAnswerInv
<1>2. AnswerInv(S, O, q, T) /\ [Next]_vars => AnswerInv(S, O, q, T)'
  BY NextAnswerInv
<1>3. QED
  BY <1>1, <1>2, PTL DEF Spec

(* A function of the library that ends with a request, a test or a wait    *)
(* that shows what the function promises, and answers its result, answers  *)
(* True to a positive call only when the test has seen what it promises:   *)
(* that the engine has accepted the request and the entity that came back  *)
(* matched, or the entities in a promised status.  The operation, the      *)
(* entities and their statuses are any, and so are the functions that it   *)
(* calls before, as long as an early return of its own answers False or    *)
(* None.                                                                   *)
THEOREM AnswerSeen ==
    ASSUME NEW S, NEW O, NEW q, NEW T \in Endings, Called(S), Early(O, S)
    PROVE  Spec /\ EndsWith(O, q, T) => []TrueMeansSeen
<1>1. AnswerInv(S, O, q, T) => TrueMeansSeen
  BY DEF AnswerInv, TrueMeansSeen, Kept, Promised
<1>2. QED
  BY <1>1, AnswerInvariant, PTL

(* ... and True to a negative call only when the engine has refused the    *)
(* request that it ends with.                                              *)
THEOREM AnswerRefused ==
    ASSUME NEW S, NEW O, NEW q, NEW T \in Endings, Called(S), Early(O, S),
           q.do = "request", q.sign = "given"
    PROVE  Spec /\ EndsWith(O, q, T) => []NegativeMeansRefused
<1>1. AnswerInv(S, O, q, T) => NegativeMeansRefused
  BY DEF AnswerInv, NegativeMeansRefused, Kept, Refused
<1>2. QED
  BY <1>1, AnswerInvariant, PTL

=============================================================================
