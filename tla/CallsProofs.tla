---------------------------- MODULE CallsProofs ----------------------------
(***************************************************************************)
(* Proofs about Calls.  Type correctness, for every library that is        *)
(* written in the vocabulary of Statements; and what the answer of a call  *)
(* means, for every library whose functions keep to courses of             *)
(* CallCourses: a call that fails does so for a reason, one that answers   *)
(* yes has seen what the function promises, and a negative one that        *)
(* answers True has been refused.                                          *)
(***************************************************************************)
EXTENDS CallCourses, CallIdioms, SequenceTheorems, WellFoundedInduction,
        TLAPS

-----------------------------------------------------------------------------
(* Sequences, of whatever elements                                         *)

Sequence(s) == \E U : s \in Seq(U)

\* n is a and then b.
Joins(n, a, b) ==
    /\ Sequence(n)
    /\ Len(n) = Len(a) + Len(b)
    /\ Len(a) \in Nat /\ Len(b) \in Nat
    /\ \A i \in 1 .. Len(a) : n[i] = a[i]
    /\ \A i \in 1 .. Len(b) : n[Len(a) + i] = b[i]

(* Two sequences, one after the other.                                     *)
LEMMA Joined ==
    ASSUME NEW a, NEW b, Sequence(a), Sequence(b)
    PROVE  Joins(a \o b, a, b)
<1>1. PICK U : a \in Seq(U)
  BY DEF Sequence
<1>2. PICK V : b \in Seq(V)
  BY DEF Sequence
<1> DEFINE W == U \cup V
<1>3. a \in Seq(W) /\ b \in Seq(W)
  BY <1>1, <1>2, SeqMonotonic
<1> HIDE DEF W
<1>4. /\ a \o b \in Seq(W)
      /\ Len(a \o b) = Len(a) + Len(b)
      /\ \A i \in 1 .. Len(a) + Len(b) :
            (a \o b)[i] = IF i <= Len(a) THEN a[i] ELSE b[i - Len(a)]
  BY <1>3, ConcatProperties
<1>5. Len(a) \in Nat /\ Len(b) \in Nat
  BY <1>3, LenProperties
<1>6. \A i \in 1 .. Len(a) : (a \o b)[i] = a[i]
  BY <1>4, <1>5
<1>7. \A i \in 1 .. Len(b) : (a \o b)[Len(a) + i] = b[i]
  <2> SUFFICES ASSUME NEW i \in 1 .. Len(b)
               PROVE  (a \o b)[Len(a) + i] = b[i]
    OBVIOUS
  <2>1. /\ Len(a) + i \in 1 .. Len(a) + Len(b)
        /\ ~ (Len(a) + i <= Len(a))
        /\ (Len(a) + i) - Len(a) = i
    BY <1>5
  <2>2. QED
    BY <2>1, <1>4
<1>8. QED
  BY <1>4, <1>5, <1>6, <1>7 DEF Sequence, Joins

(* A sequence without its first i elements.                                *)
LEMMA Dropped ==
    ASSUME NEW s, Sequence(s), NEW i \in 0 .. Len(s)
    PROVE  LET d == SubSeq(s, i + 1, Len(s))
           IN /\ Sequence(d)
              /\ Len(d) = Len(s) - i
              /\ Len(s) \in Nat
              /\ \A j \in 1 .. Len(s) - i : d[j] = s[i + j]
<1>1. PICK U : s \in Seq(U)
  BY DEF Sequence
<1>2. Len(s) \in Nat /\ \A j \in 1 .. Len(s) : s[j] \in U
  BY <1>1, LenProperties
<1>3. \A j \in (i + 1) .. Len(s) : s[j] \in U
  BY <1>2
<1> DEFINE d == SubSeq(s, i + 1, Len(s))
<1>4. /\ d \in Seq(U)
      /\ Len(d) = IF i + 1 <= Len(s) THEN Len(s) - (i + 1) + 1 ELSE 0
      /\ \A j \in 1 .. Len(s) - (i + 1) + 1 : d[j] = s[(i + 1) + j - 1]
  BY <1>2, <1>3, SubSeqProperties
<1> HIDE DEF d
<1>5. Len(d) = Len(s) - i
  BY <1>4, <1>2
<1>6. \A j \in 1 .. Len(s) - i : d[j] = s[i + j]
  <2> SUFFICES ASSUME NEW j \in 1 .. Len(s) - i PROVE d[j] = s[i + j]
    OBVIOUS
  <2>1. j \in 1 .. Len(s) - (i + 1) + 1 /\ (i + 1) + j - 1 = i + j
    BY <1>2
  <2>2. QED
    BY <2>1, <1>4
<1>7. QED
  BY <1>2, <1>4, <1>5, <1>6 DEF d, Sequence

(* The first element and the others.                                       *)
LEMMA Opened ==
    ASSUME NEW s, Sequence(s), s # <<>>
    PROVE  /\ Len(s) \in Nat /\ Len(s) > 0
           /\ Head(s) = s[1]
           /\ Tail(s) = SubSeq(s, 2, Len(s))
<1>1. PICK U : s \in Seq(U)
  BY DEF Sequence
<1>2. Len(s) \in Nat \ {0}
  BY <1>1, EmptySeq
<1>3. Tail(s) = SubSeq(s, 2, Len(s))
  BY <1>1, TailIsSubSeq
<1>4. Head(s) = s[1]
  BY <1>1, <1>2
<1>5. QED
  BY <1>2, <1>3, <1>4

(* One element.                                                            *)
LEMMA Single ==
    ASSUME NEW x
    PROVE  Sequence(<<x>>) /\ Len(<<x>>) = 1 /\ <<x>>[1] = x
<1>1. <<x>> \in Seq({x})
  OBVIOUS
<1>2. QED
  BY <1>1 DEF Sequence

(* Elements of a sequence over a set.                                      *)
LEMMA Elements ==
    ASSUME NEW S, NEW s \in Seq(S)
    PROVE  /\ Sequence(s) /\ Len(s) \in Nat
           /\ \A i \in 1 .. Len(s) : s[i] \in S
BY LenProperties DEF Sequence

(* A sequence over S and then another one.                                 *)
LEMMA SequencesOver ==
    ASSUME NEW S, NEW a \in Seq(S), NEW b \in Seq(S)
    PROVE  /\ a \o b \in Seq(S)
           /\ Sequence(a \o b)
           /\ \A j \in 1 .. Len(a \o b) : (a \o b)[j] \in S
BY ConcatProperties, Elements

-----------------------------------------------------------------------------
(* The handler that an exception reaches, the frame that a return ends.    *)

(* A set of numbers has a smallest one.                                    *)
LEMMA Smallest ==
    ASSUME NEW I, I \subseteq Nat, I # {}
    PROVE  Min(I) \in I /\ \A y \in I : Min(I) <= y
<1> DEFINE R == { ss \in Nat \X Nat : ss[1] < ss[2] }
<1>1. IsWellFoundedOn(R, Nat)
  BY NatLessThanWellFounded, Zenon DEF OpToRel
<1> HIDE DEF R
<1>2. PICK x \in I : \A y \in I : ~ (<<y, x>> \in R)
  BY <1>1, WFMin
<1>3. \A y \in I : x <= y
  <2> SUFFICES ASSUME NEW y \in I PROVE x <= y
    OBVIOUS
  <2>1. <<y, x>> \in Nat \X Nat /\ <<y, x>>[1] = y /\ <<y, x>>[2] = x
    OBVIOUS
  <2>2. ~ (y < x)
    BY <1>2, <2>1 DEF R
  <2>3. QED
    BY <2>2
<1>4. QED
  BY <1>3 DEF Min

\* i is the place of the first statement of s that catches the exception x.
Catches(s, x, i) ==
    i = SelectInSeq(s, LAMBDA z : \/ z.do = "finally"
                                  \/ z.do = "except" /\ x \in z.on)

\* i is the place of the first statement of s that a return ends or enters.
Stops(s, i) == i = SelectInSeq(s, LAMBDA z : z.do \in {"end", "finally"})

(* An exception is caught by a handler, or by none.                        *)
LEMMA Caught ==
    ASSUME NEW s, NEW x, NEW i, Sequence(s), Catches(s, x, i)
    PROVE  \/ i = 0
           \/ i \in 1 .. Len(s) /\ s[i].do \in {"except", "finally"}
<1> DEFINE I == { j \in 1 .. Len(s) :
                    \/ s[j].do = "finally"
                    \/ s[j].do = "except" /\ x \in s[j].on }
<1>1. i = IF I # {} THEN Min(I) ELSE 0
  BY DEF Catches, SelectInSeq
<1>2. Len(s) \in Nat
  BY LenProperties DEF Sequence
<1>3. I \subseteq Nat
  BY <1>2
<1>4. ASSUME I # {} PROVE i \in I
  BY <1>1, <1>3, <1>4, Smallest
<1>5. QED
  BY <1>1, <1>4

(* A return ends at the first frame or `finally`, or the function.         *)
LEMMA Stopped ==
    ASSUME NEW s, NEW i, Sequence(s), Stops(s, i)
    PROVE  \/ /\ i = 0
              /\ \A j \in 1 .. Len(s) : s[j].do \notin {"end", "finally"}
           \/ /\ i \in 1 .. Len(s)
              /\ s[i].do \in {"end", "finally"}
              /\ \A j \in 1 .. (i - 1) : s[j].do \notin {"end", "finally"}
<1> DEFINE I == { j \in 1 .. Len(s) : s[j].do \in {"end", "finally"} }
<1>1. i = IF I # {} THEN Min(I) ELSE 0
  BY DEF Stops, SelectInSeq
<1>2. Len(s) \in Nat
  BY LenProperties DEF Sequence
<1>3. I \subseteq Nat
  BY <1>2
<1>4. CASE I = {}
  BY <1>1, <1>4
<1>5. CASE I # {}
  <2>1. i \in I /\ \A y \in I : i <= y
    BY <1>1, <1>3, <1>5, Smallest
  <2>2. \A j \in 1 .. (i - 1) : s[j].do \notin {"end", "finally"}
    BY <2>1, <1>2
  <2>3. QED
    BY <2>1, <2>2
<1>6. QED
  BY <1>4, <1>5

-----------------------------------------------------------------------------
(* Threads                                                                 *)

\* A thread of Calls has these parts.
Record(r) ==
    r \in [todo : {r.todo}, res : {r.res}, acc : {r.acc}, mem : {r.mem},
           args : {r.args}, polls : {r.polls}]

(* A thread with other statements left.                                    *)
LEMMA Goes ==
    ASSUME NEW u, Record(u), NEW todo
    PROVE  LET r == [u EXCEPT !.todo = todo]
           IN /\ Record(r)
              /\ r.todo = todo
              /\ r.args = u.args
              /\ r.res = u.res
BY DEF Record

(* A statement without a result: the record of the thread after it.        *)
LEMMA Went ==
    ASSUME NEW t, Record(th[t]), NEW todo, Goto(t, todo)
    PROVE  \E r : /\ Record(r) /\ th' = [th EXCEPT ![t] = r]
                  /\ r.todo = todo /\ r.args = th[t].args /\ r.res = th[t].res
<1> DEFINE r == [th[t] EXCEPT !.todo = todo]
<1>1. th' = [th EXCEPT ![t] = r]
  BY DEF Goto
<1>2. Record(r) /\ r.todo = todo /\ r.args = th[t].args /\ r.res = th[t].res
  BY DEF Record
<1>3. QED
  BY <1>1, <1>2

(* A statement with a result: the same record with the result in it.       *)
LEMMA Resulted ==
    ASSUME NEW t \in DOMAIN th, Record(th[t]), NEW todo, NEW x,
           Result(t, x, todo)
    PROVE  \E r : /\ Record(r) /\ th' = [th EXCEPT ![t] = r]
                  /\ r.todo = todo /\ r.args = th[t].args /\ r.res = x
<1> DEFINE r == [[[th[t] EXCEPT !.todo = todo] EXCEPT !.res = x]
                  EXCEPT !.polls = 0]
<1>1. th' = [th EXCEPT ![t] = r]
  BY DEF Result
<1>2. Record(r) /\ r.todo = todo /\ r.args = th[t].args /\ r.res = x
  BY DEF Record
<1>3. QED
  BY <1>1, <1>2

-----------------------------------------------------------------------------
(* Type correctness                                                        *)

Answers == {"idle", "true", "false", "none", "raised"}

\* What is left of a thread: statements, and the frames of the functions
\* that it is in.
Runs(s, S) ==
    Sequence(s) /\ \A i \in 1 .. Len(s) : s[i] \in S \/ s[i].do = "end"

\* The inductive invariant.
TypeInv(S) ==
    /\ TypeOK
    /\ DOMAIN th = Threads
    /\ \A t \in Threads :
        out[t] = "running" => Record(th[t]) /\ Runs(th[t].todo, S)

\* A step of t alone: it goes on, or it ends.
Advances(S, t) ==
    \/ /\ out' = out
       /\ \E r : /\ Record(r) /\ th' = [th EXCEPT ![t] = r]
                 /\ Runs(r.todo, S)
    \/ \E v \in Answers :
        out' = [out EXCEPT ![t] = v] /\ th' = [th EXCEPT ![t] = Idle]

(* The next statement, and the others.                                     *)
LEMMA RunsOpened ==
    ASSUME NEW S, NEW s, Runs(s, S), s # <<>>
    PROVE  Runs(Tail(s), S) /\ (Head(s) \in S \/ Head(s).do = "end")
<1>1. /\ Sequence(s) /\ Len(s) \in Nat /\ Len(s) > 0
      /\ Head(s) = s[1] /\ Tail(s) = SubSeq(s, 2, Len(s))
  BY Opened DEF Runs
<1> DEFINE d == SubSeq(s, 1 + 1, Len(s))
<1>2. 1 \in 0 .. Len(s) /\ 1 \in 1 .. Len(s)
  BY <1>1
<1>3. /\ Sequence(d) /\ Len(d) = Len(s) - 1
      /\ \A j \in 1 .. Len(s) - 1 : d[j] = s[1 + j]
  BY <1>1, <1>2, Dropped
<1>4. Tail(s) = d
  <2>1. 1 + 1 = 2
    OBVIOUS
  <2>2. QED
    BY <2>1, <1>1
<1> HIDE DEF d
<1>5. \A j \in 1 .. Len(s) - 1 : 1 + j \in 1 .. Len(s)
  BY <1>1
<1>6. Runs(d, S)
  BY <1>1, <1>3, <1>5 DEF Runs
<1>7. QED
  BY <1>1, <1>2, <1>4, <1>6 DEF Runs

(* What follows the first i statements.                                    *)
LEMMA RunsDropped ==
    ASSUME NEW S, NEW s, Runs(s, S), NEW i \in 0 .. Len(s)
    PROVE  Runs(SubSeq(s, i + 1, Len(s)), S)
<1> DEFINE d == SubSeq(s, i + 1, Len(s))
<1>1. /\ Sequence(d) /\ Len(d) = Len(s) - i /\ Len(s) \in Nat
      /\ \A j \in 1 .. Len(s) - i : d[j] = s[i + j]
  BY Dropped DEF Runs
<1> HIDE DEF d
<1>2. \A j \in 1 .. Len(s) - i : i + j \in 1 .. Len(s)
  BY <1>1
<1>3. Runs(d, S)
  BY <1>1, <1>2 DEF Runs
<1>4. QED
  BY <1>3 DEF d

(* Statements and then others.                                             *)
LEMMA RunsJoined ==
    ASSUME NEW S, NEW a, NEW b, Runs(a, S), Runs(b, S)
    PROVE  Runs(a \o b, S)
<1> DEFINE n == a \o b
<1>1. Joins(n, a, b)
  BY Joined DEF Runs
<1> HIDE DEF n
<1>2. \A i \in 1 .. Len(n) : n[i] \in S \/ n[i].do = "end"
  <2> SUFFICES ASSUME NEW i \in 1 .. Len(n)
               PROVE  n[i] \in S \/ n[i].do = "end"
    OBVIOUS
  <2>1. CASE i \in 1 .. Len(a)
    BY <2>1, <1>1 DEF Joins, Runs
  <2>2. CASE i \notin 1 .. Len(a)
    <3>1. i - Len(a) \in 1 .. Len(b) /\ Len(a) + (i - Len(a)) = i
      BY <2>2, <1>1 DEF Joins
    <3>2. n[i] = b[i - Len(a)]
      BY <3>1, <1>1 DEF Joins
    <3>3. QED
      BY <3>1, <3>2 DEF Runs
  <2>3. QED
    BY <2>1, <2>2
<1>3. Runs(n, S)
  BY <1>1, <1>2 DEF Joins, Runs
<1>4. QED
  BY <1>3 DEF n

(* Statements of S.                                                        *)
LEMMA RunsOver ==
    ASSUME NEW S, NEW b \in Seq(S)
    PROVE  Runs(b, S)
BY Elements DEF Runs

(* One statement, or a frame.                                              *)
LEMMA RunsOne ==
    ASSUME NEW S, NEW z, z \in S \/ z.do = "end"
    PROVE  Runs(<<z>>, S)
<1> DEFINE s == <<z>>
<1>1. Sequence(s) /\ Len(s) = 1 /\ s[1] = z
  BY Single
<1> HIDE DEF s
<1>2. Runs(s, S)
  BY <1>1 DEF Runs
<1>3. QED
  BY <1>2 DEF s

(* The frame or handler at which a thread goes on.                         *)
LEMMA FrameOf ==
    ASSUME NEW t, Record(th[t]), NEW f, NEW s, NEW i
    PROVE  Record(Frame(t, f)) /\ Record(Unwound(t, s, i))
<1>1. \A g : Record(Frame(t, g))
  BY DEF Record, Frame
<1>2. Record([th[t] EXCEPT !.polls = 0])
  BY DEF Record
<1>3. QED
  BY <1>1, <1>2 DEF Unwound

(* An exception.                                                           *)
LEMMA ThrowAdvances ==
    ASSUME NEW S, Written(S), NEW t \in DOMAIN th, Record(th[t]),
           Runs(Rest(t), S), NEW x \in AnyException, Throw(t, x)
    PROVE  Advances(S, t)
<1> DEFINE s == Rest(t)
<1>0. Len(s) \in Nat /\ Sequence(s)
  BY LenProperties DEF Runs, Sequence
<1>1. PICK i : Catches(s, x, i)
  BY DEF Catches
<1> DEFINE X == IF s[i].do = "finally" THEN <<Raise(x)>> ELSE <<>>
           d == SubSeq(s, i + 1, Len(s))
           n == s[i].body \o X \o d
           u == Unwound(t, s, i)
           r == [u EXCEPT !.todo = n]
<1>2. IF i = 0
      THEN out' = [out EXCEPT ![t] = "raised"] /\ th' = [th EXCEPT ![t] = Idle]
      ELSE th' = [th EXCEPT ![t] = r] /\ out' = out
  BY <1>1 DEF Throw, Catches
<1>3. CASE i = 0
  BY <1>2, <1>3 DEF Advances, Answers
<1>4. CASE i # 0
  <2>1. i \in 1 .. Len(s) /\ s[i].do \in {"except", "finally"}
    BY <1>0, <1>1, <1>4, Caught
  <2>2. s[i] \in S /\ i \in 0 .. Len(s)
    BY <2>1, <1>0 DEF Runs
  <2>3. Runs(s[i].body, S)
    BY <2>1, <2>2, RunsOver DEF Written
  <2>4. Runs(X, S)
    <3>1. Runs(<<Raise(x)>>, S)
      <4>1. PICK z : z = Raise(x)
        OBVIOUS
      <4>2. z \in S
        BY <4>1 DEF Written
      <4>3. QED
        BY <4>1, <4>2, RunsOne
    <3>2. Runs(<<>>, S)
      <4>1. <<>> \in Seq(S)
        OBVIOUS
      <4>2. QED
        BY <4>1, RunsOver
    <3>3. QED
      BY <3>1, <3>2
  <2>5. Runs(d, S)
    BY <2>2, RunsDropped
  <2>6. Record(u)
    BY FrameOf
  <2> HIDE DEF X, d, u, s
  <2>7. Runs(n, S)
    BY <2>3, <2>4, <2>5, RunsJoined
  <2> HIDE DEF n
  <2>8. Record(r) /\ r.todo = n
    BY <2>6, Goes
  <2>9. QED
    BY <1>2, <1>4, <2>7, <2>8 DEF Advances
<1>5. QED
  BY <1>3, <1>4

(* A return.                                                               *)
LEMMA LeaveAdvances ==
    ASSUME NEW S, Written(S), NEW t \in DOMAIN th, Record(th[t]),
           NEW s, Runs(s, S), NEW v \in {"true", "false", "none"},
           Leave(t, v, s)
    PROVE  Advances(S, t)
<1>0. Len(s) \in Nat /\ Sequence(s)
  BY LenProperties DEF Runs, Sequence
<1>1. PICK i : Stops(s, i)
  BY DEF Stops
<1> DEFINE after == SubSeq(s, i + 1, Len(s))
           n == s[i].body \o <<Ret(v)>> \o after
           f == Frame(t, s[i])
           r == IF s[i].do = "end"
                THEN [f EXCEPT !.todo = after, !.res = (v = "true")]
                ELSE [th[t] EXCEPT !.todo = n]
<1>2. IF i = 0
      THEN out' = [out EXCEPT ![t] = v] /\ th' = [th EXCEPT ![t] = Idle]
      ELSE th' = [th EXCEPT ![t] = r] /\ out' = out
  BY <1>1 DEF Leave, Stops
<1>3. CASE i = 0
  BY <1>2, <1>3 DEF Advances, Answers
<1>4. CASE i # 0
  <2>1. i \in 1 .. Len(s) /\ s[i].do \in {"end", "finally"}
    BY <1>0, <1>1, <1>4, Stopped
  <2>2. Runs(after, S)
    <3>1. i \in 0 .. Len(s)
      BY <2>1, <1>0
    <3>2. QED
      BY <3>1, RunsDropped
  <2> HIDE DEF after
  <2>3. Record(r) /\ Runs(r.todo, S)
    <3>1. CASE s[i].do = "end"
      <4>1. Record(f)
        BY FrameOf
      <4> HIDE DEF f
      <4>2. r = [[f EXCEPT !.todo = after] EXCEPT !.res = (v = "true")]
        BY <3>1
      <4> HIDE DEF r
      <4>3. Record(r) /\ r.todo = after
        BY <4>1, <4>2 DEF Record
      <4>4. QED
        BY <4>3, <2>2
    <3>2. CASE s[i].do = "finally"
      <4>1. s[i] \in S
        BY <2>1, <3>2 DEF Runs
      <4>2. Runs(s[i].body, S)
        BY <4>1, <3>2, RunsOver DEF Written
      <4>3. Runs(<<Ret(v)>>, S)
        <5>1. PICK z : z = Ret(v)
          OBVIOUS
        <5>2. z \in S
          BY <5>1 DEF Written
        <5>3. QED
          BY <5>1, <5>2, RunsOne
      <4>4. Runs(n, S)
        BY <4>2, <4>3, <2>2, RunsJoined
      <4> HIDE DEF n
      <4>5. r = [th[t] EXCEPT !.todo = n]
        BY <3>2
      <4> HIDE DEF r
      <4>6. Record(r) /\ r.todo = n
        BY <4>5, Goes
      <4>7. QED
        BY <4>4, <4>6
    <3>3. QED
      BY <2>1, <3>1, <3>2
  <2>4. QED
    BY <1>2, <1>4, <2>3 DEF Advances
<1>5. QED
  BY <1>3, <1>4

(* Every step of a thread, but the start and the end of other threads.     *)
LEMMA StepAdvances ==
    ASSUME NEW S, Written(S), NEW t \in DOMAIN th, out[t] = "running",
           Record(th[t]), Runs(th[t].todo, S), Step(t), ~ fork(t), ~ join(t)
    PROVE  Advances(S, t)
<1>1. ASSUME Todo(t) # <<>>
      PROVE  Runs(Rest(t), S) /\ (Now(t) \in S \/ Now(t).do = "end")
  BY <1>1, RunsOpened DEF Todo, Rest, Now
<1>2. ASSUME NEW x \in AnyException, Throw(t, x), Todo(t) # <<>>
      PROVE  Advances(S, t)
  BY <1>1, <1>2, ThrowAdvances
<1>3. ASSUME NEW x, Result(t, x, Rest(t)), out' = out, Todo(t) # <<>>
      PROVE  Advances(S, t)
  BY <1>1, <1>3, Resulted DEF Advances
<1>4. ASSUME NEW b, Runs(b, S), Goto(t, b \o Rest(t)), out' = out,
             Todo(t) # <<>>
      PROVE  Advances(S, t)
  <2>1. Runs(b \o Rest(t), S)
    BY <1>1, <1>4, RunsJoined
  <2>2. QED
    BY <1>4, <2>1, Went DEF Advances
<1>5. ASSUME Goto(t, Rest(t)), out' = out, Todo(t) # <<>>
      PROVE  Advances(S, t)
  BY <1>1, <1>5, Went DEF Advances
<1>6. CASE found(t)
  BY <1>6, <1>5 DEF found, At
<1>7. CASE notFound(t)
  BY <1>7, <1>2 DEF notFound, At, AnyException
<1>8. CASE see(t)
  BY <1>8, <1>3 DEF see, At
<1>9. CASE remember(t)
  <2> DEFINE v == Status(CHOOSE e \in Now(t).es : TRUE)
             r == [[th[t] EXCEPT !.todo = Rest(t)] EXCEPT !.mem = v]
  <2>1. out' = out /\ Todo(t) # <<>>
    BY <1>9 DEF remember, At
  <2>2. th' = [[th EXCEPT ![t].todo = Rest(t)] EXCEPT ![t].mem = v]
    BY <1>9 DEF remember
  <2> HIDE DEF v
  <2>3. th' = [th EXCEPT ![t] = r]
    BY <2>2
  <2>4. Record(r) /\ r.todo = Rest(t)
    BY DEF Record
  <2>5. QED
    BY <2>1, <2>3, <2>4, <1>1 DEF Advances
<1>10. CASE accepted(t) \/ refused(t)
  BY <1>10, <1>3 DEF accepted, refused, At
<1>23. CASE lost(t)
  BY <1>23, <1>2 DEF lost, At, AnyException
<1>11. CASE sampled(t) \/ gaveUp(t)
  BY <1>11, <1>3 DEF sampled, gaveUp, At
<1>12. CASE sleeps(t)
  <2> DEFINE r == [th[t] EXCEPT !.polls = @ + 1]
  <2>1. th' = [th EXCEPT ![t] = r] /\ out' = out
    BY <1>12 DEF sleeps
  <2>2. Record(r) /\ r.todo = th[t].todo
    BY DEF Record
  <2>3. QED
    BY <2>1, <2>2 DEF Advances
<1>13. CASE timeout(t)
  BY <1>13, <1>2, <1>3 DEF timeout, At, AnyException
<1>14. CASE branch(t)
  <2>1. out' = out /\ Todo(t) # <<>> /\ Now(t).do \in {"if", "when", "either"}
    BY <1>14 DEF branch, Local, At
  <2>2. PICK b : Goto(t, b \o Rest(t)) /\
                 \/ Now(t).do \in {"if", "when"} /\ b \in {Now(t).yes, Now(t).no}
                 \/ Now(t).do = "either" /\ b \in Now(t).alts
    BY <1>14 DEF branch, At
  <2>3. b \in Seq(S)
    BY <2>1, <2>2, <1>1 DEF Written
  <2>4. QED
    BY <2>1, <2>2, <2>3, <1>4, RunsOver
<1>15. CASE keep(t)
  <2> DEFINE v == th[t].acc /\ th[t].res
             r == [[th[t] EXCEPT !.todo = Rest(t)] EXCEPT !.acc = v]
  <2>1. out' = out /\ Todo(t) # <<>>
    BY <1>15 DEF keep, Local, At
  <2>2. [th[t] EXCEPT !.todo = Rest(t)].acc = th[t].acc
    BY DEF Record
  <2>3. th' = [th EXCEPT ![t] = r]
    BY <1>15, <2>2 DEF keep
  <2> HIDE DEF v
  <2>4. Record(r) /\ r.todo = Rest(t)
    BY DEF Record
  <2>5. QED
    BY <2>1, <2>3, <2>4, <1>1 DEF Advances
<1>16. CASE calls(t)
  <2> DEFINE E == [do |-> "end", acc |-> th[t].acc, mem |-> th[t].mem,
                   args |-> th[t].args]
             todo == Now(t).body \o <<E>> \o Rest(t)
             args == (th[t].args \cap Now(t).keep) \cup Now(t).given
             r == [[Idle EXCEPT !.todo = todo] EXCEPT !.args = args]
  <2>1. out' = out /\ Todo(t) # <<>> /\ Now(t).do = "call"
    BY <1>16 DEF calls, Local, At
  <2>2. th' = [th EXCEPT ![t] = r]
    BY <1>16 DEF calls
  <2>3. Runs(Now(t).body, S)
    BY <2>1, <1>1, RunsOver DEF Written
  <2>4. E.do = "end"
    OBVIOUS
  <2> HIDE DEF E
  <2>5. Runs(<<E>>, S)
    BY <2>4, RunsOne
  <2>6. Runs(todo, S)
    BY <2>1, <2>3, <2>5, <1>1, RunsJoined
  <2> HIDE DEF todo, args
  <2>7. Record(r) /\ r.todo = todo
    BY DEF Record, Idle
  <2>8. QED
    BY <2>1, <2>2, <2>6, <2>7 DEF Advances
<1>17. CASE enterTry(t)
  <2>1. out' = out /\ Todo(t) # <<>> /\ Now(t).do \in {"try", "tryfinally"}
    BY <1>17 DEF enterTry, Local, At
  <2>2. PICK z : /\ Goto(t, Now(t).body \o <<z>> \o Rest(t))
                 /\ z = IF Now(t).do = "try"
                        THEN [do |-> "except", on |-> Now(t).on,
                              body |-> Now(t).handler]
                        ELSE [do |-> "finally", body |-> Now(t).last]
    BY <1>17, <2>1 DEF enterTry, At
  <2>3. z \in S /\ Now(t).body \in Seq(S)
    BY <2>1, <2>2, <1>1 DEF Written
  <2>4. Runs(Now(t).body \o <<z>>, S)
    BY <2>3, RunsOver, RunsOne, RunsJoined
  <2>5. QED
    BY <2>1, <2>2, <2>4, <1>4
<1>18. CASE leaveTry(t)
  <2>1. out' = out /\ Todo(t) # <<>> /\ Now(t).do \in {"except", "finally"}
    BY <1>18 DEF leaveTry, Local, At
  <2>2. CASE Now(t).do = "except"
    BY <2>1, <2>2, <1>5, <1>18 DEF leaveTry, At
  <2>3. CASE Now(t).do = "finally"
    <3>1. Goto(t, Now(t).body \o Rest(t))
      BY <2>3, <1>18 DEF leaveTry, At
    <3>2. Runs(Now(t).body, S)
      BY <2>1, <2>3, <1>1, RunsOver DEF Written
    <3>3. QED
      BY <3>1, <3>2, <2>1, <1>4
  <2>4. QED
    BY <2>1, <2>2, <2>3
<1>19. CASE return(t)
  <2> DEFINE v == Value(t, Now(t).v)
  <2>1. Todo(t) # <<>> /\ Now(t).do = "return" /\ Leave(t, v, Rest(t))
    BY <1>19 DEF return, At
  <2>2. Now(t).v \in {"true", "false", "none", "res", "acc", "positive",
                      "same", "negative"}
    BY <2>1, <1>1 DEF Written
  <2>3. v \in {"true", "false", "none"}
    BY <2>2 DEF Value, Truth
  <2> HIDE DEF v
  <2>4. QED
    BY <2>1, <2>3, <1>1, LeaveAdvances
<1>20. CASE fallOff(t)
  <2>1. Leave(t, "none", Todo(t))
    BY <1>20 DEF fallOff
  <2>2. QED
    BY <2>1, LeaveAdvances DEF Todo
<1>21. CASE raise(t)
  <2>1. Todo(t) # <<>> /\ Now(t).do = "raise" /\ Throw(t, Now(t).x)
    BY <1>21 DEF raise, At
  <2>2. Now(t).x \in AnyException
    BY <2>1, <1>1 DEF Written
  <2>3. QED
    BY <2>1, <2>2, <1>2
<1>22. QED
  BY <1>6, <1>7, <1>8, <1>9, <1>10, <1>11, <1>12, <1>13, <1>14, <1>15, <1>16,
     <1>17, <1>18, <1>19, <1>20, <1>21, <1>23 DEF Step

(* What no step of a thread changes.                                       *)
LEMMA StepKeeps ==
    ASSUME NEW t, Step(t)
    PROVE  call' = call /\ DOMAIN ent' = DOMAIN ent /\ DOMAIN seen' = DOMAIN seen
<1>1. ASSUME NEW es, Saw(es) PROVE DOMAIN seen' = DOMAIN seen
  BY <1>1 DEF Saw
<1>2. ASSUME NEW e, NEW what, Learn(e, what) PROVE DOMAIN seen' = DOMAIN seen
  BY <1>2 DEF Learn
<1>3. CASE found(t) \/ notFound(t) \/ see(t) \/ remember(t)
  BY <1>3, <1>1 DEF found, notFound, see, remember
<1>4. CASE accepted(t)
  BY <1>4, <1>2 DEF accepted
<1>5. CASE refused(t) \/ lost(t)
  BY <1>5 DEF refused, lost
<1>6. CASE sampled(t) \/ gaveUp(t)
  BY <1>6, <1>1 DEF sampled, gaveUp
<1>7. CASE sleeps(t)
  BY <1>7 DEF sleeps
<1>8. CASE timeout(t)
  BY <1>8 DEF timeout
<1>9. CASE branch(t) \/ keep(t) \/ calls(t) \/ enterTry(t) \/ leaveTry(t)
  BY <1>9 DEF branch, keep, calls, enterTry, leaveTry, Local
<1>10. CASE return(t) \/ fallOff(t) \/ raise(t)
  BY <1>10 DEF return, fallOff, raise
<1>11. CASE fork(t)
  BY <1>11, Zenon DEF fork
<1>12. CASE join(t)
  BY <1>12 DEF join
<1>13. QED
  BY <1>3, <1>4, <1>5, <1>6, <1>7, <1>8, <1>9, <1>10, <1>11, <1>12 DEF Step

(* Only a thread that is running takes a step.                             *)
LEMMA StepRuns ==
    ASSUME NEW t, Step(t) PROVE out[t] = "running"
<1>1. CASE found(t) \/ notFound(t) \/ see(t) \/ remember(t)
  BY <1>1 DEF found, notFound, see, remember, At
<1>2. CASE accepted(t) \/ refused(t) \/ lost(t)
  BY <1>2 DEF accepted, refused, lost, At
<1>3. CASE sampled(t) \/ gaveUp(t) \/ sleeps(t) \/ timeout(t)
  BY <1>3 DEF sampled, gaveUp, sleeps, timeout, At
<1>4. CASE branch(t) \/ keep(t) \/ calls(t) \/ enterTry(t) \/ leaveTry(t)
  BY <1>4 DEF branch, keep, calls, enterTry, leaveTry, At
<1>5. CASE return(t) \/ fallOff(t) \/ raise(t)
  BY <1>5 DEF return, fallOff, raise, At
<1>6. CASE fork(t)
  BY <1>6, Zenon DEF fork, At
<1>7. CASE join(t)
  BY <1>7, Zenon DEF join, At
<1>8. QED
  BY <1>1, <1>2, <1>3, <1>4, <1>5, <1>6, <1>7 DEF Step

(* The history of the requests and of the reasons.                         *)
LEMMA HistoryTyped ==
    ASSUME TypeOK, NEW t, Step(t),
           At(t, "see") \/ At(t, "look") => Now(t).why \in {"never", "state"}
    PROVE  /\ verdict' \in {"none", "accepted", "refused", "missing", "lost"}
           /\ reasons' \subseteq {"refused", "mismatch", "failed", "late",
                                  "missing", "lost", "state", "early", "missed"}
<1> DEFINE V == {"none", "accepted", "refused", "missing", "lost"}
           R == {"refused", "mismatch", "failed", "late", "missing", "lost",
                 "state", "early", "missed"}
<1>0. verdict \in V /\ reasons \subseteq R
  BY DEF TypeOK
<1>3. CASE found(t) \/ notFound(t) \/ remember(t)
  BY <1>3, <1>0 DEF found, notFound, remember
<1>4. CASE see(t)
  BY <1>4, <1>0 DEF see
<1>5. CASE accepted(t)
  <2>1. verdict' \in V
    BY <1>5, <1>0 DEF accepted, Noted
  <2>2. QED
    BY <1>5, <1>0, <2>1 DEF accepted
<1>6. CASE refused(t) \/ lost(t)
  BY <1>6, <1>0 DEF refused, lost, Noted
<1>7. CASE sampled(t) \/ gaveUp(t)
  BY <1>7, <1>0 DEF sampled, gaveUp
<1>8. CASE sleeps(t)
  BY <1>8, <1>0 DEF sleeps
<1>9. CASE timeout(t)
  BY <1>9, <1>0 DEF timeout
<1>10. CASE branch(t) \/ keep(t) \/ calls(t) \/ enterTry(t) \/ leaveTry(t)
  BY <1>10, <1>0 DEF branch, keep, calls, enterTry, leaveTry, Local
<1>11. CASE return(t) \/ fallOff(t) \/ raise(t)
  BY <1>11, <1>0 DEF return, fallOff, raise
<1>12. CASE fork(t)
  BY <1>12, <1>0, Zenon DEF fork
<1>13. CASE join(t)
  BY <1>13, <1>0, Zenon DEF join
<1>14. QED
  BY <1>3, <1>4, <1>5, <1>6, <1>7, <1>8, <1>9, <1>10, <1>11, <1>12, <1>13
  DEF Step

(* One thread goes on, the others are where they were.                     *)
LEMMA AdvancesTyped ==
    ASSUME NEW S, TypeInv(S), NEW t \in Threads, Advances(S, t)
    PROVE  /\ out' \in [Threads -> Answers \cup {"running"}]
           /\ DOMAIN th' = Threads
           /\ \A u \in Threads : out'[u] = "running" =>
                Record(th'[u]) /\ Runs(th'[u].todo, S)
<1>0. /\ out \in [Threads -> Answers \cup {"running"}] /\ DOMAIN th = Threads
      /\ \A u \in Threads :
            out[u] = "running" => Record(th[u]) /\ Runs(th[u].todo, S)
  BY DEF TypeInv, TypeOK, Answers
<1>1. CASE out' = out /\ \E r : /\ Record(r) /\ th' = [th EXCEPT ![t] = r]
                                /\ Runs(r.todo, S)
  BY <1>0, <1>1
<1>2. CASE \E v \in Answers :
            out' = [out EXCEPT ![t] = v] /\ th' = [th EXCEPT ![t] = Idle]
  <2>1. PICK v \in Answers :
            out' = [out EXCEPT ![t] = v] /\ th' = [th EXCEPT ![t] = Idle]
    BY <1>2
  <2>2. v # "running"
    BY DEF Answers
  <2>3. QED
    BY <2>1, <2>2, <1>0
<1>3. QED
  BY <1>1, <1>2 DEF Advances

(* Threads are started.                                                    *)
LEMMA ForkTyped ==
    ASSUME NEW S, Written(S), TypeInv(S), NEW t \in Threads, fork(t)
    PROVE  /\ out' \in [Threads -> Answers \cup {"running"}]
           /\ DOMAIN th' = Threads
           /\ \A u \in Threads : out'[u] = "running" =>
                Record(th'[u]) /\ Runs(th'[u].todo, S)
<1> DEFINE J == [do |-> "join", onerror |-> Now(t).onerror]
           todo == <<J>> \o Rest(t)
           r == [th[t] EXCEPT !.todo = todo]
           w(u) == [[Idle EXCEPT !.todo = Now(t).bodies[u]]
                    EXCEPT !.args = Now(t).given]
<1>1. /\ out[t] = "running" /\ Todo(t) # <<>> /\ Now(t).do = "fork"
      /\ th' = [u \in Threads |-> IF u = t THEN r
                                  ELSE IF u \in Workers(t) THEN w(u) ELSE th[u]]
      /\ out' = [u \in Threads |-> IF u \in Workers(t) THEN "running"
                                   ELSE out[u]]
  <2>1. At(t, "fork")
    BY Zenon DEF fork
  <2>2. /\ th' = [u \in Threads |-> IF u = t THEN r
                                    ELSE IF u \in Workers(t) THEN w(u)
                                    ELSE th[u]]
        /\ out' = [u \in Threads |-> IF u \in Workers(t) THEN "running"
                                     ELSE out[u]]
    BY Zenon DEF fork
  <2>3. QED
    BY <2>1, <2>2 DEF At
<1>2. /\ out \in [Threads -> Answers \cup {"running"}]
      /\ \A u \in Threads :
            out[u] = "running" => Record(th[u]) /\ Runs(th[u].todo, S)
  BY DEF TypeInv, TypeOK, Answers
<1>3. Runs(Rest(t), S) /\ (Now(t) \in S \/ Now(t).do = "end")
  BY <1>1, <1>2, RunsOpened DEF Todo, Rest, Now
<1>4. Now(t) \in S
  BY <1>1, <1>3
<1>5. J \in S /\ Now(t).bodies \in Seq(Seq(S))
  BY <1>1, <1>4 DEF Written
<1> HIDE DEF J
<1>6. Runs(<<J>>, S)
  BY <1>5, RunsOne
<1>7. Runs(todo, S)
  BY <1>3, <1>6, RunsJoined
<1> HIDE DEF todo
<1>8. Record(r) /\ r.todo = todo
  BY <1>1, <1>2 DEF Record
<1>9. ASSUME NEW u \in Workers(t) PROVE Record(w(u)) /\ Runs(w(u).todo, S)
  <2>1. Now(t).bodies[u] \in Seq(S)
    BY <1>5, <1>9 DEF Workers
  <2>2. PICK b : b = Now(t).bodies[u]
    OBVIOUS
  <2>3. Record(w(u)) /\ w(u).todo = b
    BY <2>2 DEF Record, Idle
  <2>4. QED
    BY <2>1, <2>2, <2>3, RunsOver
<1> HIDE DEF r, w
<1>10. \A u \in Threads : out'[u] = "running" =>
            Record(th'[u]) /\ Runs(th'[u].todo, S)
  BY <1>1, <1>2, <1>7, <1>8, <1>9
<1>11. out' \in [Threads -> Answers \cup {"running"}] /\ DOMAIN th' = Threads
  BY <1>1, <1>2
<1>12. QED
  BY <1>10, <1>11

(* Threads have ended.                                                     *)
LEMMA JoinTyped ==
    ASSUME NEW S, Written(S), TypeInv(S), NEW t \in Threads, join(t)
    PROVE  /\ out' \in [Threads -> Answers \cup {"running"}]
           /\ DOMAIN th' = Threads
           /\ \A u \in Threads : out'[u] = "running" =>
                Record(th'[u]) /\ Runs(th'[u].todo, S)
<1>1. /\ out \in [Threads -> Answers \cup {"running"}] /\ DOMAIN th = Threads
      /\ \A u \in Threads :
            out[u] = "running" => Record(th[u]) /\ Runs(th[u].todo, S)
  BY DEF TypeInv, TypeOK, Answers
<1>2. At(t, "join")
  BY Zenon DEF join
<1>3. Runs(Rest(t), S) /\ Record(th[t])
  BY <1>1, <1>2, RunsOpened DEF At, Todo, Rest
<1>4. CASE Throw(t, "Error")
  <2>1. Advances(S, t)
    BY <1>1, <1>3, <1>4, ThrowAdvances DEF AnyException
  <2>2. QED
    BY <2>1, AdvancesTyped
<1>5. CASE /\ \E x : Result(t, x, Rest(t))
           /\ out' = [u \in Threads |-> IF u = t THEN out[t] ELSE "idle"]
  <2>1. PICK r : /\ Record(r) /\ th' = [th EXCEPT ![t] = r]
                 /\ r.todo = Rest(t)
    BY <1>1, <1>3, <1>5, Resulted
  <2>2. \A u \in Threads : out'[u] = "running" => u = t
    BY <1>5
  <2>3. out' \in [Threads -> Answers \cup {"running"}]
    BY <1>1, <1>5 DEF Answers
  <2>4. QED
    BY <2>1, <2>2, <2>3, <1>1, <1>3
<1>6. QED
  BY <1>4, <1>5, Zenon DEF join

(* Every step keeps the invariant.                                         *)
LEMMA NextTypeInv ==
    ASSUME NEW S, Written(S), TypeInv(S), [Next]_vars
    PROVE  TypeInv(S)'
<1>1. CASE UNCHANGED vars \/ Over
  <2>1. UNCHANGED vars
    BY <1>1 DEF Over
  <2>2. QED
    BY <2>1 DEF vars, TypeInv, TypeOK, Tracked
<1>2. ASSUME NEW t \in Threads, Step(t) PROVE TypeInv(S)'
  <2>0. /\ out \in [Threads -> Answers \cup {"running"}] /\ DOMAIN th = Threads
        /\ \A u \in Threads :
            out[u] = "running" => Record(th[u]) /\ Runs(th[u].todo, S)
        /\ call.args \subseteq call.flags /\ DOMAIN seen = Tracked
    BY DEF TypeInv, TypeOK, Answers
  <2>1. out[t] = "running"
    BY <1>2, StepRuns
  <2>2. /\ out' \in [Threads -> Answers \cup {"running"}]
        /\ DOMAIN th' = Threads
        /\ \A u \in Threads : out'[u] = "running" =>
                Record(th'[u]) /\ Runs(th'[u].todo, S)
    <3>1. CASE fork(t)
      BY <3>1, ForkTyped
    <3>2. CASE join(t)
      BY <3>2, JoinTyped
    <3>3. CASE ~ fork(t) /\ ~ join(t)
      <4>1. Advances(S, t)
        BY <1>2, <2>0, <2>1, <3>3, StepAdvances
      <4>2. QED
        BY <4>1, AdvancesTyped
    <3>4. QED
      BY <3>1, <3>2, <3>3
  <2>3. call' = call /\ DOMAIN ent' = DOMAIN ent /\ DOMAIN seen' = DOMAIN seen
    BY <1>2, StepKeeps
  <2>4. At(t, "see") \/ At(t, "look") => Now(t).why \in {"never", "state"}
    <3> SUFFICES ASSUME Todo(t) # <<>>, Now(t).do \in {"see", "look"}
                 PROVE  Now(t).why \in {"never", "state"}
      BY DEF At
    <3>1. Now(t) \in S \/ Now(t).do = "end"
      BY <2>0, <2>1, RunsOpened DEF Todo, Now
    <3>2. QED
      BY <3>1 DEF Written
  <2>5. /\ verdict' \in {"none", "accepted", "refused", "missing", "lost"}
        /\ reasons' \subseteq {"refused", "mismatch", "failed", "late",
                               "missing", "lost", "state", "early", "missed"}
    BY <1>2, <2>4, HistoryTyped DEF TypeInv
  <2>6. QED
    BY <2>0, <2>2, <2>3, <2>5 DEF TypeInv, TypeOK, Tracked, Answers
<1>3. ASSUME NEW e \in Tracked, Settle(e) PROVE TypeInv(S)'
  <2>1. /\ UNCHANGED <<call, th, out, seen, verdict>>
        /\ DOMAIN ent' = DOMAIN ent
        /\ reasons' \in {reasons, reasons \cup {"failed"}}
    BY <1>3 DEF Settle, Advance, Fail
  <2>2. QED
    BY <2>1 DEF TypeInv, TypeOK, Tracked
<1>4. QED
  BY <1>1, <1>2, <1>3 DEF Next

(* A call starts with the statements of its function.                      *)
LEMMA InitTypeInv ==
    ASSUME NEW S, \A c \in Library : c.body \in Seq(S), Init
    PROVE  TypeInv(S)
<1>0. PICK c \in Library : \E a \in SUBSET c.flags :
        /\ call = [fn |-> c.fn, flags |-> c.flags, args |-> a,
                   done |-> c.done, yes |-> c.yes]
        /\ \E f \in Starts(c.given) :
            ent = [e \in DOMAIN f |->
                    [st |-> f[e], path |-> StartPath(f[e]),
                     fail |-> "never", mine |-> FALSE]]
        /\ th = [t \in Threads |->
                IF t = 0
                THEN [Idle EXCEPT !.todo = c.body, !.args = a \cup Defaults(c)]
                ELSE Idle]
  BY Zenon DEF Init
<1>1. PICK a \in SUBSET c.flags :
        /\ call = [fn |-> c.fn, flags |-> c.flags, args |-> a,
                   done |-> c.done, yes |-> c.yes]
        /\ th = [t \in Threads |->
                IF t = 0
                THEN [Idle EXCEPT !.todo = c.body, !.args = a \cup Defaults(c)]
                ELSE Idle]
  BY <1>0, Zenon
<1>2. /\ out = [t \in Threads |-> IF t = 0 THEN "running" ELSE "idle"]
      /\ DOMAIN seen = Tracked
      /\ verdict = "none" /\ reasons = {}
  BY DEF Init, Tracked
<1> DEFINE args == a \cup Defaults(c)
           r == [[Idle EXCEPT !.todo = c.body] EXCEPT !.args = args]
<1>3. th[0] = r /\ DOMAIN th = Threads
  BY <1>1 DEF Threads
<1>4. call.args \subseteq call.flags
  BY <1>1
<1> HIDE DEF args
<1>5. Record(r) /\ r.todo = c.body
  BY DEF Record, Idle
<1>6. Runs(c.body, S)
  BY RunsOver
<1> HIDE DEF r
<1>7. \A t \in Threads :
        out[t] = "running" => Record(th[t]) /\ Runs(th[t].todo, S)
  BY <1>2, <1>3, <1>5, <1>6
<1>8. TypeOK
  BY <1>2, <1>4 DEF TypeOK
<1>9. QED
  BY <1>3, <1>7, <1>8 DEF TypeInv

(* Calls of a library that is written in the vocabulary keep to the types: *)
(* a call answers True, False or None or raises, its threads too, and the  *)
(* reasons of a failure are those of the code.                             *)
THEOREM TypeCorrect ==
    ASSUME NEW S, Written(S), \A c \in Library : c.body \in Seq(S)
    PROVE  Spec => []TypeOK
<1>1. Init => TypeInv(S)
  BY InitTypeInv
<1>2. TypeInv(S) /\ [Next]_vars => TypeInv(S)'
  BY NextTypeInv
<1>3. TypeInv(S) => TypeOK
  BY DEF TypeInv
<1>4. QED
  BY <1>1, <1>2, <1>3, PTL DEF Spec

-----------------------------------------------------------------------------
(* The test and the points of its courses                                  *)

\* The only thread is the test.
Alone ==
    /\ DOMAIN th = Threads /\ DOMAIN out = Threads
    /\ out[1] # "running" /\ out[2] # "running"
    /\ DOMAIN seen = Tracked

\* The thread r is at the point c.
Same(c, r) ==
    /\ Point(c) /\ Record(r)
    /\ c.todo = r.todo /\ c.res = r.res /\ c.acc = r.acc
    /\ c.mem = r.mem /\ c.args = r.args

\* The test goes on at a point of D.
GoesOn(D) ==
    /\ out' = out
    /\ \E d \in D : \E r : th' = [th EXCEPT ![0] = r] /\ Same(d, r)

\* The function answers v.
Ends(v) == out' = [out EXCEPT ![0] = v] /\ th' = [th EXCEPT ![0] = Idle]

\* All points of D know what c knows.
Knowing(D, c) == \A d \in D : d.know = c.know

(* Other statements to do, and other frames.                               *)
LEMMA SameGoes ==
    ASSUME NEW c, NEW r, Same(c, r), NEW todo
    PROVE  /\ Same([c EXCEPT !.todo = todo], [r EXCEPT !.todo = todo])
           /\ [c EXCEPT !.todo = todo].know = c.know
<1> DEFINE d == [c EXCEPT !.todo = todo]
           q == [r EXCEPT !.todo = todo]
<1>1. /\ Point(d) /\ d.todo = todo /\ d.res = c.res /\ d.acc = c.acc
      /\ d.mem = c.mem /\ d.args = c.args /\ d.know = c.know
  BY DEF Same, Point
<1>2. /\ Record(q) /\ q.todo = todo /\ q.res = r.res /\ q.acc = r.acc
      /\ q.mem = r.mem /\ q.args = r.args
  BY DEF Same, Record
<1> HIDE DEF d, q
<1>3. Same(d, q) /\ d.know = c.know
  BY <1>1, <1>2 DEF Same
<1>4. QED
  BY <1>3 DEF d, q

(* Other statements to do, and another status that is remembered.          *)
LEMMA SameRemembers ==
    ASSUME NEW c, NEW r, Same(c, r), NEW todo, NEW m
    PROVE  /\ Same([c EXCEPT !.todo = todo, !.mem = m],
                   [r EXCEPT !.todo = todo, !.mem = m])
           /\ [c EXCEPT !.todo = todo, !.mem = m].know = c.know
<1> DEFINE d == [c EXCEPT !.todo = todo, !.mem = m]
           q == [r EXCEPT !.todo = todo, !.mem = m]
<1>1. /\ Point(d) /\ d.todo = todo /\ d.res = c.res /\ d.acc = c.acc
      /\ d.mem = m /\ d.args = c.args /\ d.know = c.know
  BY DEF Same, Point
<1>2. /\ Record(q) /\ q.todo = todo /\ q.res = r.res /\ q.acc = r.acc
      /\ q.mem = m /\ q.args = r.args
  BY DEF Same, Record
<1> HIDE DEF d, q
<1>3. Same(d, q) /\ d.know = c.know
  BY <1>1, <1>2 DEF Same
<1>4. QED
  BY <1>3 DEF d, q

(* The frame of a function that is left.                                   *)
LEMMA SameFrame ==
    ASSUME NEW c, Same(c, th[0]), NEW f
    PROVE  /\ Same(InFrame(c, f), Frame(0, f))
           /\ InFrame(c, f).know = c.know
<1>1. LET d == InFrame(c, f)
      IN /\ Point(d) /\ d.todo = c.todo /\ d.res = c.res /\ d.acc = f.acc
         /\ d.mem = f.mem /\ d.args = f.args /\ d.know = c.know
  BY DEF Same, Point, InFrame
<1>2. LET q == Frame(0, f)
      IN /\ Record(q) /\ q.todo = th[0].todo /\ q.res = th[0].res
         /\ q.acc = f.acc /\ q.mem = f.mem /\ q.args = f.args
  BY DEF Same, Record, Frame
<1>3. QED
  BY <1>1, <1>2 DEF Same

(* An exception is handled at a point, or is what the function answers.    *)
LEMMA ThrowTurns ==
    ASSUME NEW c, Same(c, th[0]), NEW x, Throw(0, x)
    PROVE  /\ Knowing(Handled(c, x, Rest(0)), c)
           /\ \/ GoesOn(Handled(c, x, Rest(0)))
              \/ Ends("raised") /\ Handled(c, x, Rest(0)) = {}
<1> DEFINE s == Rest(0)
<1>1. PICK i : Catches(s, x, i)
  BY DEF Catches
<1>2. PICK ends : ends = { j \in 1 .. (i - 1) : s[j].do = "end" }
  OBVIOUS
<1>3. PICK n : n = s[i].body
                   \o (IF s[i].do = "finally" THEN <<Raise(x)>> ELSE <<>>)
                   \o SubSeq(s, i + 1, Len(s))
  OBVIOUS
<1> DEFINE u == Unwound(0, s, i)
           w == IF ends = {} THEN c ELSE InFrame(c, s[Max(ends)])
<1>4. IF i = 0 THEN Ends("raised")
      ELSE th' = [th EXCEPT ![0] = [u EXCEPT !.todo = n]] /\ out' = out
  BY <1>1, <1>3 DEF Throw, Catches, Ends
<1>5. Handled(c, x, s) = IF i = 0 THEN {} ELSE {[w EXCEPT !.todo = n]}
  BY <1>1, <1>2, <1>3 DEF Handled, Catches
<1>6. Same(w, u) /\ w.know = c.know
  <2>1. CASE ends = {}
    <3>1. u = [th[0] EXCEPT !.polls = 0]
      BY <1>2, <2>1 DEF Unwound
    <3>2. Same(c, u)
      BY <3>1 DEF Same, Record
    <3>3. QED
      BY <3>2, <2>1
  <2>2. CASE ends # {}
    <3>1. u = Frame(0, s[Max(ends)])
      BY <1>2, <2>2 DEF Unwound
    <3>2. QED
      BY <3>1, <2>2, SameFrame
  <2>3. QED
    BY <2>1, <2>2
<1> HIDE DEF s, u, w
<1>7. /\ Same([w EXCEPT !.todo = n], [u EXCEPT !.todo = n])
      /\ [w EXCEPT !.todo = n].know = c.know
  BY <1>6, SameGoes
<1>8. CASE i = 0
  BY <1>4, <1>5, <1>8 DEF Knowing, s
<1>9. CASE i # 0
  <2> DEFINE d == [w EXCEPT !.todo = n]
             r == [u EXCEPT !.todo = n]
  <2>1. Handled(c, x, s) = {d} /\ th' = [th EXCEPT ![0] = r] /\ out' = out
    BY <1>4, <1>5, <1>9
  <2>2. Same(d, r) /\ d.know = c.know
    BY <1>7
  <2> HIDE DEF d, r
  <2>3. QED
    BY <2>1, <2>2 DEF GoesOn, Knowing, s
<1>10. QED
  BY <1>8, <1>9

(* A return leads to a point, or is the answer.                            *)
LEMMA LeaveTurns ==
    ASSUME NEW c, Same(c, th[0]), NEW v, NEW s, Leave(0, v, s)
    PROVE  /\ Knowing(Returned(c, v, s), c)
           /\ \/ GoesOn(Returned(c, v, s))
              \/ Ends(v) /\ Returned(c, v, s) = {}
<1>1. PICK i : Stops(s, i)
  BY DEF Stops
<1>2. PICK after : after = SubSeq(s, i + 1, Len(s))
  OBVIOUS
<1>3. PICK n : n = s[i].body \o <<Ret(v)>> \o after
  OBVIOUS
<1>4. CASE i = 0
  <2>1. Ends(v) /\ Returned(c, v, s) = {}
    BY <1>1, <1>4 DEF Leave, Stops, Returned, Ends
  <2>2. QED
    BY <2>1 DEF Knowing
<1>5. CASE i # 0 /\ s[i].do = "end"
  <2> DEFINE w == InFrame(c, s[i])
             u == Frame(0, s[i])
             d == [[w EXCEPT !.todo = after] EXCEPT !.res = (v = "true")]
             r == [[u EXCEPT !.todo = after] EXCEPT !.res = (v = "true")]
  <2>1. Returned(c, v, s) = {d}
    BY <1>1, <1>2, <1>5 DEF Stops, Returned
  <2>2. th' = [th EXCEPT ![0] = r] /\ out' = out
    BY <1>1, <1>2, <1>5 DEF Leave, Stops
  <2>3. Same(w, u) /\ w.know = c.know
    BY SameFrame
  <2> HIDE DEF w, u
  <2>4. Same(d, r) /\ d.know = c.know
    <3>1. /\ Same([w EXCEPT !.todo = after], [u EXCEPT !.todo = after])
          /\ [w EXCEPT !.todo = after].know = c.know
      BY <2>3, SameGoes
    <3>2. QED
      BY <3>1 DEF Same, Point, Record
  <2> HIDE DEF d, r
  <2>5. QED
    BY <2>1, <2>2, <2>4 DEF GoesOn, Knowing
<1>6. CASE i # 0 /\ s[i].do # "end"
  <2> DEFINE d == [c EXCEPT !.todo = n]
             r == [th[0] EXCEPT !.todo = n]
  <2>1. Returned(c, v, s) = {d}
    BY <1>1, <1>2, <1>3, <1>6 DEF Stops, Returned
  <2>2. th' = [th EXCEPT ![0] = r] /\ out' = out
    BY <1>1, <1>2, <1>3, <1>6 DEF Leave, Stops
  <2>3. Same(d, r) /\ d.know = c.know
    BY SameGoes
  <2> HIDE DEF d, r
  <2>4. QED
    BY <2>1, <2>2, <2>3 DEF GoesOn, Knowing
<1>7. QED
  BY <1>4, <1>5, <1>6

(* A statement that does not ask the engine leads to a point of Turns, or  *)
(* is the end of the call.                                                 *)
LEMMA TurnStep ==
    ASSUME NEW c, Same(c, th[0]), DOMAIN th = Threads,
           \/ branch(0) \/ keep(0) \/ calls(0) \/ enterTry(0) \/ leaveTry(0)
           \/ return(0) \/ fallOff(0) \/ raise(0)
    PROVE  /\ UNCHANGED <<call, ent, seen, verdict, reasons>>
           /\ Knowing(Turns(c), c)
           /\ GoesOn(Turns(c)) \/ \E v \in Replies(c) : Ends(v)
<1>0. /\ Todo(0) = c.todo /\ Now(0) = Head(c.todo) /\ Rest(0) = Tail(c.todo)
      /\ 0 \in DOMAIN th
  BY DEF Same, Todo, Now, Rest, Threads
<1>1. ASSUME NEW todo, Turns(c) = {[c EXCEPT !.todo = todo]}, Goto(0, todo),
             Local
      PROVE  /\ UNCHANGED <<call, ent, seen, verdict, reasons>>
             /\ Knowing(Turns(c), c) /\ GoesOn(Turns(c))
  <2> DEFINE d == [c EXCEPT !.todo = todo]
             r == [th[0] EXCEPT !.todo = todo]
  <2>1. Same(d, r) /\ d.know = c.know
    BY SameGoes
  <2>2. th' = [th EXCEPT ![0] = r]
    BY <1>1 DEF Goto
  <2>3. Turns(c) = {d}
    BY <1>1
  <2> HIDE DEF d, r
  <2>4. QED
    BY <2>1, <2>2, <2>3, <1>1 DEF GoesOn, Knowing, Local
<1>2. ASSUME At(0, "if") \/ At(0, "when"), branch(0)
      PROVE  \E todo : /\ Turns(c) = {[c EXCEPT !.todo = todo]}
                       /\ Goto(0, todo) /\ Local
  <2>1. CASE At(0, "if")
    <3>1. PICK todo : todo = (IF th[0].res THEN Now(0).yes ELSE Now(0).no)
                             \o Rest(0)
      OBVIOUS
    <3>2. Goto(0, todo) /\ Local
      BY <1>2, <2>1, <3>1 DEF branch, At
    <3>3. Turns(c) = {[c EXCEPT !.todo = todo]}
      BY <1>0, <2>1, <3>1 DEF Turns, At, Same
    <3>4. QED
      BY <3>2, <3>3
  <2>2. CASE At(0, "when")
    <3>1. PICK todo : todo = (IF Now(0).flag \in th[0].args THEN Now(0).yes
                              ELSE Now(0).no) \o Rest(0)
      OBVIOUS
    <3>2. Goto(0, todo) /\ Local
      BY <1>2, <2>2, <3>1 DEF branch, At
    <3>3. Turns(c) = {[c EXCEPT !.todo = todo]}
      BY <1>0, <2>2, <3>1 DEF Turns, At, Same
    <3>4. QED
      BY <3>2, <3>3
  <2>3. QED
    BY <1>2, <2>1, <2>2
<1>3. CASE branch(0) /\ At(0, "either")
  <2>1. PICK a \in Now(0).alts : Goto(0, a \o Rest(0)) /\ Local
    BY <1>3 DEF branch, At
  <2>2. Turns(c) = { [c EXCEPT !.todo = b \o Rest(0)] : b \in Now(0).alts }
    BY <1>0, <1>3 DEF Turns, At
  <2>3. Knowing(Turns(c), c)
    <3>1. \A b : [c EXCEPT !.todo = b \o Rest(0)].know = c.know
      BY SameGoes
    <3>2. QED
      BY <2>2, <3>1 DEF Knowing
  <2> DEFINE todo == a \o Rest(0)
             d == [c EXCEPT !.todo = todo]
             r == [th[0] EXCEPT !.todo = todo]
  <2>4. d \in Turns(c)
    BY <2>2
  <2>5. th' = [th EXCEPT ![0] = r] /\ Local
    BY <2>1 DEF Goto
  <2> HIDE DEF todo
  <2>6. Same(d, r)
    BY SameGoes
  <2> HIDE DEF d, r
  <2>7. QED
    BY <2>3, <2>4, <2>5, <2>6 DEF GoesOn, Local
<1>4. CASE keep(0)
  <2> DEFINE d == [[c EXCEPT !.todo = Tail(c.todo)] EXCEPT !.acc = @ /\ c.res]
             r == [[th[0] EXCEPT !.todo = Rest(0)]
                    EXCEPT !.acc = @ /\ th[0].res]
  <2>1. Turns(c) = {d}
    BY <1>0, <1>4 DEF Turns, keep, At
  <2>2. th' = [th EXCEPT ![0] = r] /\ Local
    BY <1>4 DEF keep
  <2>3. Same(d, r) /\ d.know = c.know
    BY <1>0 DEF Same, Point, Record
  <2> HIDE DEF d, r
  <2>4. QED
    BY <2>1, <2>2, <2>3 DEF GoesOn, Knowing, Local
<1>5. CASE calls(0)
  <2>1. PICK todo : todo = Now(0).body
                           \o <<[do |-> "end", acc |-> c.acc,
                                 mem |-> c.mem, args |-> c.args]>>
                           \o Rest(0)
    OBVIOUS
  <2>2. PICK args : args = (c.args \cap Now(0).keep) \cup Now(0).given
    OBVIOUS
  <2> DEFINE d == [[[[[c EXCEPT !.todo = todo] EXCEPT !.res = FALSE]
                      EXCEPT !.acc = TRUE] EXCEPT !.mem = "none"]
                    EXCEPT !.args = args]
             r == [[Idle EXCEPT !.todo = todo] EXCEPT !.args = args]
  <2>3. Turns(c) = {d}
    BY <1>0, <1>5, <2>1, <2>2 DEF Turns, calls, At
  <2>4. th' = [th EXCEPT ![0] = r] /\ Local
    BY <1>0, <1>5, <2>1, <2>2 DEF calls, Same
  <2>5. Same(d, r) /\ d.know = c.know
    BY DEF Same, Point, Record, Idle
  <2> HIDE DEF d, r
  <2>6. QED
    BY <2>3, <2>4, <2>5 DEF GoesOn, Knowing, Local
<1>6. ASSUME enterTry(0) \/ leaveTry(0)
      PROVE  \E todo : /\ Turns(c) = {[c EXCEPT !.todo = todo]}
                       /\ Goto(0, todo) /\ Local
  <2>1. CASE enterTry(0) /\ At(0, "try")
    <3>1. PICK todo : todo = Now(0).body
                             \o <<[do |-> "except", on |-> Now(0).on,
                                   body |-> Now(0).handler]>>
                             \o Rest(0)
      OBVIOUS
    <3>2. Goto(0, todo) /\ Local
      BY <2>1, <3>1 DEF enterTry, At
    <3>3. Turns(c) = {[c EXCEPT !.todo = todo]}
      BY <1>0, <2>1, <3>1 DEF Turns, At
    <3>4. QED
      BY <3>2, <3>3
  <2>2. CASE enterTry(0) /\ At(0, "tryfinally")
    <3>1. PICK todo : todo = Now(0).body
                             \o <<[do |-> "finally", body |-> Now(0).last]>>
                             \o Rest(0)
      OBVIOUS
    <3>2. Goto(0, todo) /\ Local
      BY <2>2, <3>1 DEF enterTry, At
    <3>3. Turns(c) = {[c EXCEPT !.todo = todo]}
      BY <1>0, <2>2, <3>1 DEF Turns, At
    <3>4. QED
      BY <3>2, <3>3
  <2>3. CASE leaveTry(0) /\ At(0, "except")
    <3>1. PICK todo : todo = Rest(0)
      OBVIOUS
    <3>2. Goto(0, todo) /\ Local
      BY <2>3, <3>1 DEF leaveTry, At
    <3>3. Turns(c) = {[c EXCEPT !.todo = todo]}
      BY <1>0, <2>3, <3>1 DEF Turns, At
    <3>4. QED
      BY <3>2, <3>3
  <2>4. CASE leaveTry(0) /\ At(0, "finally")
    <3>1. PICK todo : todo = Now(0).body \o Rest(0)
      OBVIOUS
    <3>2. Goto(0, todo) /\ Local
      BY <2>4, <3>1 DEF leaveTry, At
    <3>3. Turns(c) = {[c EXCEPT !.todo = todo]}
      BY <1>0, <2>4, <3>1 DEF Turns, At
    <3>4. QED
      BY <3>2, <3>3
  <2>5. QED
    BY <1>6, <2>1, <2>2, <2>3, <2>4 DEF enterTry, leaveTry
<1>7. CASE return(0)
  <2>1. PICK v : v = ValueAt(c, Head(c.todo).v)
    OBVIOUS
  <2>2. Head(c.todo).do = "return" /\ c.todo # <<>>
    BY <1>0, <1>7 DEF return, At
  <2>3. v = Value(0, Now(0).v)
    BY <1>0, <2>1 DEF Value, ValueAt, Positive, Same
  <2>4. Leave(0, v, Rest(0))
    BY <1>7, <2>3 DEF return
  <2>5. Turns(c) = Returned(c, v, Rest(0))
    BY <1>0, <2>1, <2>2 DEF Turns
  <2>6. Returned(c, v, Rest(0)) = {} => v \in Replies(c)
    BY <1>0, <2>1, <2>2 DEF Replies
  <2>7. UNCHANGED <<call, ent, seen, verdict, reasons>>
    BY <1>7 DEF return
  <2>8. QED
    BY <2>4, <2>5, <2>6, <2>7, LeaveTurns
<1>8. CASE fallOff(0)
  <2>1. UNCHANGED <<call, ent, seen, verdict, reasons>>
        /\ Leave(0, "none", Todo(0))
    BY <1>8 DEF fallOff
  <2>2. CASE c.todo = <<>>
    <3>1. Ends("none")
      <4>1. PICK i : Stops(<<>>, i)
        BY DEF Stops
      <4>2. Sequence(<<>>) /\ Len(<<>>) = 0
        BY EmptySeq DEF Sequence
      <4>3. i = 0
        BY <4>1, <4>2, Stopped
      <4>4. QED
        BY <4>1, <4>3, <2>1, <2>2, <1>0 DEF Leave, Stops, Ends
    <3>2. Turns(c) = {} /\ "none" \in Replies(c)
      BY <2>2 DEF Turns, Replies
    <3>3. QED
      BY <2>1, <3>1, <3>2 DEF Knowing
  <2>3. CASE c.todo # <<>>
    <3>1. Head(c.todo).do = "end"
      BY <1>0, <1>8, <2>3 DEF fallOff, At
    <3>2. Turns(c) = Returned(c, "none", Todo(0))
      BY <1>0, <2>3, <3>1 DEF Turns
    <3>3. Returned(c, "none", Todo(0)) = {} => "none" \in Replies(c)
      BY <1>0, <2>3, <3>1 DEF Replies
    <3>4. QED
      BY <2>1, <3>2, <3>3, LeaveTurns
  <2>4. QED
    BY <2>2, <2>3
<1>9. CASE raise(0)
  <2>1. Head(c.todo).do = "raise" /\ c.todo # <<>>
    BY <1>0, <1>9 DEF raise, At
  <2>2. PICK x : x = Head(c.todo).x
    OBVIOUS
  <2>3. Throw(0, x) /\ UNCHANGED <<call, ent, seen, verdict, reasons>>
    BY <1>0, <1>9, <2>2 DEF raise
  <2>4. Turns(c) = Handled(c, x, Rest(0))
    BY <1>0, <2>1, <2>2 DEF Turns
  <2>5. Handled(c, x, Rest(0)) = {} => "raised" \in Replies(c)
    BY <1>0, <2>1, <2>2 DEF Replies
  <2>6. QED
    BY <2>3, <2>4, <2>5, ThrowTurns
<1>10. QED
  BY <1>1, <1>2, <1>3, <1>4, <1>5, <1>6, <1>7, <1>8, <1>9 DEF branch

-----------------------------------------------------------------------------
(* The way of an entity                                                    *)

\* The entity n has gone no further than the requests of the call have sent
\* it: w are the statuses from where it may be to the end, or <<>> before
\* the first request.
OnWay(n, w) ==
    /\ n \in [st : {n.st}, path : {n.path}, fail : {n.fail}, mine : {n.mine}]
    /\ Sequence(w) /\ Sequence(n.path)
    /\ w = <<>> => /\ ~ n.mine
                   /\ Len(n.path) <= 1
                   /\ n.path # <<>> => n.st \notin Final
    /\ w # <<>> => \E i \in 1 .. Len(w) :
                      /\ n.st = w[i]
                      /\ Len(n.path) = Len(w) - i
                      /\ \A j \in 1 .. Len(n.path) : n.path[j] = w[i + j]

(* A sequence is empty if it has no elements.                              *)
LEMMA Empty ==
    ASSUME NEW s, Sequence(s)
    PROVE  Len(s) \in Nat /\ (s = <<>> <=> Len(s) = 0)
BY EmptySeq, LenProperties DEF Sequence

(* It is at the end of its way, or at a status that is pending.            *)
LEMMA OnWayAt ==
    ASSUME NEW n, NEW w, OnWay(n, w), w # <<>>
    PROVE  /\ n.path = <<>> => n.st = w[Len(w)]
           /\ n.path # <<>> => n.st \in Pending(w)
<1>1. PICK i \in 1 .. Len(w) : n.st = w[i] /\ Len(n.path) = Len(w) - i
  BY DEF OnWay
<1>2. Len(w) \in Nat /\ Len(n.path) \in Nat /\ (n.path = <<>> <=> Len(n.path) = 0)
  BY Empty DEF OnWay
<1>3. CASE n.path = <<>>
  <2>1. i = Len(w)
    BY <1>1, <1>2, <1>3
  <2>2. QED
    BY <1>1, <1>3, <2>1
<1>4. CASE n.path # <<>>
  <2>1. i \in 1 .. (Len(w) - 1)
    BY <1>1, <1>2, <1>4
  <2>2. QED
    BY <1>1, <1>4, <2>1 DEF Pending
<1>5. QED
  BY <1>3, <1>4

(* A wait for a status that is pending nowhere ends the way.               *)
LEMMA OnWayPassed ==
    ASSUME NEW n, NEW w, OnWay(n, w), NEW goal, n.st \in goal
    PROVE  OnWay(n, Passed(w, goal))
<1>1. CASE w # <<>> /\ Pending(w) \cap goal = {}
  <2>1. n.path = <<>> /\ n.st = w[Len(w)]
    BY <1>1, OnWayAt
  <2>2. Len(n.path) = 0
    BY <2>1, Empty DEF OnWay
  <2>3. PICK l : l = w[Len(w)]
    OBVIOUS
  <2>4. /\ Sequence(<<l>>) /\ Len(<<l>>) = 1 /\ <<l>>[1] = l
        /\ <<l>> # <<>>
    BY Single, Empty
  <2>5. PICK s : s = <<l>>
    OBVIOUS
  <2>6. OnWay(n, s)
    <3>1. \A j \in 1 .. Len(n.path) : n.path[j] = s[1 + j]
      BY <2>2
    <3>2. 1 \in 1 .. Len(s) /\ n.st = s[1] /\ Len(n.path) = Len(s) - 1
      BY <2>1, <2>2, <2>3, <2>4, <2>5
    <3>3. QED
      BY <3>1, <3>2, <2>4, <2>5 DEF OnWay
  <2>7. QED
    BY <1>1, <2>3, <2>5, <2>6 DEF Passed
<1>2. CASE ~ (w # <<>> /\ Pending(w) \cap goal = {})
  BY <1>2 DEF Passed
<1>3. QED
  BY <1>1, <1>2

(* The engine takes the entity a step further.                             *)
LEMMA OnWayNext ==
    ASSUME NEW n, NEW w, OnWay(n, w), n.path # <<>>
    PROVE  OnWay([[n EXCEPT !.st = Head(n.path)] EXCEPT !.path = Tail(@)], w)
<1> DEFINE m == [[n EXCEPT !.st = Head(n.path)] EXCEPT !.path = Tail(@)]
<1>1. /\ m \in [st : {m.st}, path : {m.path}, fail : {m.fail}, mine : {m.mine}]
      /\ m.st = Head(n.path) /\ m.path = Tail(n.path) /\ m.mine = n.mine
  BY DEF OnWay
<1> HIDE DEF m
<1>2. Len(n.path) \in Nat /\ Len(n.path) > 0 /\ Head(n.path) = n.path[1]
  BY Opened DEF OnWay
<1>3. /\ Sequence(m.path) /\ Len(m.path) = Len(n.path) - 1
      /\ \A j \in 1 .. Len(m.path) : m.path[j] = n.path[1 + j]
  <2>1. Tail(n.path) = SubSeq(n.path, 1 + 1, Len(n.path))
    BY Opened DEF OnWay
  <2>2. PICK d : d = SubSeq(n.path, 1 + 1, Len(n.path))
    OBVIOUS
  <2>3. 1 \in 0 .. Len(n.path) /\ Sequence(n.path)
    BY <1>2 DEF OnWay
  <2>4. /\ Sequence(d) /\ Len(d) = Len(n.path) - 1
        /\ \A j \in 1 .. Len(n.path) - 1 : d[j] = n.path[1 + j]
    BY <2>2, <2>3, Dropped
  <2>5. m.path = d
    BY <1>1, <2>1, <2>2
  <2>6. QED
    BY <2>4, <2>5
<1>4. CASE w = <<>>
  <2>1. Len(m.path) = 0
    <3>1. PICK l : l = Len(n.path)
      OBVIOUS
    <3>2. l \in Nat /\ l > 0
      BY <1>2, <3>1
    <3>3. l <= 1
      BY <1>4, <3>1, Zenon DEF OnWay
    <3>4. l = 1
      BY <3>2, <3>3
    <3>5. QED
      BY <1>3, <3>1, <3>4
  <2>2. m.path = <<>>
    BY <2>1, <1>3, Empty
  <2>3. QED
    BY <2>1, <2>2, <1>1, <1>3, <1>4 DEF OnWay, m
<1>5. CASE w # <<>>
  <2>1. PICK i \in 1 .. Len(w) :
            /\ Len(n.path) = Len(w) - i
            /\ \A j \in 1 .. Len(n.path) : n.path[j] = w[i + j]
    BY <1>5 DEF OnWay
  <2>2. Len(w) \in Nat
    BY Empty DEF OnWay
  <2>3. /\ i + 1 \in 1 .. Len(w) /\ m.st = w[i + 1]
        /\ Len(m.path) = Len(w) - (i + 1)
    <3>1. i \in Nat /\ i + 1 <= Len(w) /\ 1 \in 1 .. Len(n.path)
      BY <1>2, <2>1, <2>2
    <3>2. n.path[1] = w[i + 1]
      BY <3>1, <2>1
    <3>3. Len(m.path) = Len(w) - (i + 1)
      BY <3>1, <1>3, <2>1, <2>2
    <3>4. QED
      BY <3>1, <3>2, <3>3, <1>1, <1>2, <2>2
  <2>4. \A j \in 1 .. Len(m.path) : m.path[j] = w[(i + 1) + j]
    <3> SUFFICES ASSUME NEW j \in 1 .. Len(m.path)
                 PROVE  m.path[j] = w[(i + 1) + j]
      OBVIOUS
    <3>1. 1 + j \in 1 .. Len(n.path) /\ i + (1 + j) = (i + 1) + j
      BY <1>2, <1>3, <2>1, <2>2
    <3>2. m.path[j] = n.path[1 + j]
      BY <1>3
    <3>3. n.path[1 + j] = w[i + (1 + j)]
      BY <3>1, <2>1
    <3>4. QED
      BY <3>1, <3>2, <3>3
  <2>5. OnWay(m, w)
    BY <2>3, <2>4, <1>1, <1>3, <1>5 DEF OnWay
  <2>6. QED
    BY <2>5 DEF m
<1>6. QED
  BY <1>4, <1>5

(* A request puts it on another one.                                       *)
LEMMA OnWaySent ==
    ASSUME NEW x, NEW op, NEW w, OnWay(ent[x], w), NEW U, op.path \in Seq(U)
    PROVE  OnWay(After(x, op), IF op.path # <<>> THEN op.path ELSE w)
<1>1. CASE op.path = <<>>
  BY <1>1 DEF After
<1>2. CASE op.path # <<>>
  <2> DEFINE p == op.path
             n == [st |-> Head(p), path |-> Tail(p), fail |-> op.fail,
                   mine |-> TRUE]
  <2>1. After(x, op) = n
    BY <1>2 DEF After
  <2>2. Sequence(p) /\ p # <<>>
    BY <1>2 DEF Sequence
  <2> HIDE DEF p
  <2>3. Len(p) \in Nat /\ Len(p) > 0 /\ Head(p) = p[1]
    BY <2>2, Opened
  <2>4. PICK d : d = SubSeq(p, 1 + 1, Len(p))
    OBVIOUS
  <2>5. /\ Sequence(d) /\ Len(d) = Len(p) - 1
        /\ \A j \in 1 .. Len(p) - 1 : d[j] = p[1 + j]
    <3>1. 1 \in 0 .. Len(p)
      BY <2>3
    <3>2. QED
      BY <3>1, <2>2, <2>4, Dropped
  <2>6. Tail(p) = d
    BY <2>2, <2>4, Opened
  <2>7. OnWay(n, p)
    <3>1. /\ n \in [st : {n.st}, path : {n.path}, fail : {n.fail},
                    mine : {n.mine}]
          /\ n.st = p[1] /\ n.path = d
      BY <2>3, <2>6
    <3> HIDE DEF n
    <3>2. 1 \in 1 .. Len(p)
      BY <2>3
    <3>3. \A j \in 1 .. Len(n.path) : n.path[j] = p[1 + j]
      BY <2>5, <3>1
    <3>4. QED
      BY <2>2, <2>5, <3>1, <3>2, <3>3 DEF OnWay
  <2>8. QED
    BY <1>2, <2>1, <2>7 DEF p
<1>3. QED
  BY <1>1, <1>2

-----------------------------------------------------------------------------
(* Courses in which nothing goes wrong                                     *)

Ways(w) == DOMAIN w = Tracked /\ \A e \in Tracked : OnWay(ent[e], w[e])

\* There is a reason why the call may fail.
Excused == reasons \ {"early", "missed"} # {}

\* The test goes on at a point of D, and the entities are on their ways.
Clear(D) ==
    /\ out' = out
    /\ \E d \in D : /\ Ways(d.know)'
                    /\ \E r : th' = [th EXCEPT ![0] = r] /\ Same(d, r)

(* A result, and what is known.                                            *)
LEMMA SameResult ==
    ASSUME NEW c, Same(c, th[0]), DOMAIN th = Threads, NEW y, NEW todo,
           Result(0, y, todo)
    PROVE  \E r : /\ th' = [th EXCEPT ![0] = r]
                  /\ Same([[c EXCEPT !.todo = todo] EXCEPT !.res = y], r)
<1> DEFINE r == [[[th[0] EXCEPT !.todo = todo] EXCEPT !.res = y]
                  EXCEPT !.polls = 0]
           d == [[c EXCEPT !.todo = todo] EXCEPT !.res = y]
<1>1. th' = [th EXCEPT ![0] = r]
  BY DEF Result, Threads
<1>2. /\ Point(d) /\ d.todo = todo /\ d.res = y /\ d.acc = c.acc
      /\ d.mem = c.mem /\ d.args = c.args
  BY DEF Same, Point
<1>3. /\ Record(r) /\ r.todo = todo /\ r.res = y /\ r.acc = th[0].acc
      /\ r.mem = th[0].mem /\ r.args = th[0].args
  BY DEF Same, Record
<1> HIDE DEF d, r
<1>4. Same(d, r)
  BY <1>2, <1>3 DEF Same
<1>5. QED
  BY <1>1, <1>4 DEF d

(* What is known is no part of the thread.                                 *)
LEMMA SameKnow ==
    ASSUME NEW c, NEW r, Same(c, r), NEW k
    PROVE  Same([c EXCEPT !.know = k], r) /\ [c EXCEPT !.know = k].know = k
BY DEF Same, Point

(* A statement about the engine goes well, or gives the call an excuse.    *)
LEMMA ClearStep ==
    ASSUME NEW c, Same(c, th[0]), Ways(c.know), Answerable(c),
           DOMAIN th = Threads, ~ Excused',
           \/ found(0) \/ notFound(0) \/ see(0) \/ remember(0)
           \/ accepted(0) \/ refused(0) \/ lost(0)
           \/ sampled(0) \/ gaveUp(0) \/ sleeps(0) \/ timeout(0)
    PROVE  Clear(Clears(c) \cup {c})
<1> DEFINE s == Head(c.todo)
           rest == Tail(c.todo)
<1>0. Todo(0) = c.todo /\ Now(0) = s /\ Rest(0) = rest
  BY DEF Same, Todo, Now, Rest, Threads
<1>1. ASSUME NEW do, At(0, do) PROVE c.todo # <<>> /\ s.do = do
  BY <1>0, <1>1 DEF At
<1>2. \A w : Ways(w) /\ ent' = ent => Ways(w)'
  BY DEF Ways, Tracked
<1> HIDE DEF s, rest
<1>3. CASE found(0)
  <2> DEFINE d == [c EXCEPT !.todo = rest]
             r == [th[0] EXCEPT !.todo = rest]
  <2>0. c.todo # <<>> /\ Head(c.todo).do = "find"
    BY <1>1, <1>3 DEF found, s
  <2>1. Clears(c) = {d}
    BY <2>0 DEF Clears, rest
  <2>2. th' = [th EXCEPT ![0] = r] /\ out' = out /\ ent' = ent
    BY <1>0, <1>3 DEF found, Goto
  <2>3. Same(d, r) /\ d.know = c.know
    BY SameGoes
  <2> HIDE DEF d, r
  <2>4. Ways(d.know)'
    BY <1>2, <2>2, <2>3
  <2>5. QED
    BY <2>1, <2>2, <2>3, <2>4 DEF Clear
<1>4. CASE notFound(0) \/ lost(0)
  BY <1>4 DEF notFound, lost, Excused
<1>5. CASE see(0)
  <2>1. PICK y \in BOOLEAN :
            /\ Result(0, y, rest)
            /\ reasons' = IF y \/ s.why = "never" THEN reasons
                          ELSE reasons \cup {s.why}
            /\ out' = out /\ ent' = ent
    BY <1>0, <1>5 DEF see
  <2>2. c.todo # <<>> /\ s.do \in {"see", "look"}
    BY <1>1, <1>5 DEF see
  <2> DEFINE d == [[c EXCEPT !.todo = rest] EXCEPT !.res = y]
  <2>3. s.why = "state" => y
    <3>1. s.why = "state" /\ ~ y => "state" \in reasons'
      BY <2>1
    <3>2. QED
      BY <3>1 DEF Excused
  <2>4. d \in Clears(c)
    <3>1. Clears(c) = { [c EXCEPT !.todo = rest, !.res = r] :
                            r \in IF s.why = "state" THEN {TRUE} ELSE BOOLEAN }
      BY <2>2 DEF Clears, s, rest
    <3>2. QED
      BY <3>1, <2>3
  <2>5. d.know = c.know
    BY DEF Same, Point
  <2>6. \E r : th' = [th EXCEPT ![0] = r] /\ Same(d, r)
    BY <2>1, SameResult
  <2> HIDE DEF d
  <2>7. Ways(d.know)'
    BY <1>2, <2>1, <2>5
  <2>8. QED
    BY <2>1, <2>4, <2>6, <2>7 DEF Clear
<1>6. CASE remember(0)
  BY <1>1, <1>6 DEF remember, Answerable, s
<1>7. CASE accepted(0)
  <2> DEFINE e == s.e
             op == s.op
             k == [x \in DOMAIN c.know |->
                    IF x = e /\ op.path # <<>> THEN op.path ELSE c.know[x]]
  <2>1. PICK match \in BOOLEAN :
            /\ Result(0, Sign(0) /\ match, rest)
            /\ reasons' = IF match THEN reasons
                          ELSE reasons \cup {"mismatch"}
    BY <1>0, <1>7 DEF accepted
  <2>2. /\ out' = out
        /\ ent' = IF e \in Tracked THEN [ent EXCEPT ![e] = After(e, op)]
                  ELSE ent
    BY <1>0, <1>7 DEF accepted
  <2>3. c.todo # <<>> /\ s.do = "request"
    BY <1>1, <1>7 DEF accepted
  <2>4. match
    BY <2>1 DEF Excused
  <2>5. PICK y : y = (s.sign = "true" \/ "positive" \in c.args)
    OBVIOUS
  <2>6. Result(0, y, rest)
    <3>1. Sign(0) = y
      BY <1>0, <2>5 DEF Sign, Positive, Same
    <3>2. (Sign(0) /\ match) = y
      BY <3>1, <2>4, <2>5
    <3>3. QED
      BY <2>1, <3>2
  <2> DEFINE b == [[c EXCEPT !.todo = rest] EXCEPT !.res = y]
             d == [b EXCEPT !.know = k]
  <2>7. Clears(c) = {d}
    BY <2>3, <2>5 DEF Clears, s, rest
  <2>8. PICK r : th' = [th EXCEPT ![0] = r] /\ Same(b, r)
    BY <2>6, SameResult
  <2> HIDE DEF b, k
  <2>9. Same(d, r) /\ d.know = k
    BY <2>8, SameKnow
  <2> HIDE DEF d
  <2>10. Ways(k)'
    <3>1. DOMAIN k = Tracked /\ Tracked' = Tracked
      BY <2>2 DEF Ways, Tracked, k
    <3>2. ASSUME NEW x \in Tracked PROVE OnWay(ent'[x], k[x])
      <4>1. OnWay(ent[x], c.know[x]) /\ DOMAIN c.know = Tracked
        BY DEF Ways
      <4>2. CASE x = e
        <5>1. op.path \in Seq(STRING)
          BY <2>3 DEF Answerable, s
        <5>2. OnWay(After(x, op), IF op.path # <<>> THEN op.path ELSE c.know[x])
          BY <4>1, <5>1, OnWaySent
        <5>3. ent'[x] = After(x, op)
          BY <2>2, <4>2 DEF Tracked
        <5>4. k[x] = IF op.path # <<>> THEN op.path ELSE c.know[x]
          BY <4>1, <4>2 DEF k
        <5>5. QED
          BY <5>2, <5>3, <5>4
      <4>3. CASE x # e
        <5>1. ent'[x] = ent[x]
          BY <2>2, <4>3 DEF Tracked
        <5>2. k[x] = c.know[x]
          BY <4>1, <4>3 DEF k
        <5>3. QED
          BY <4>1, <5>1, <5>2
      <4>4. QED
        BY <4>2, <4>3
    <3>3. QED
      BY <3>1, <3>2 DEF Ways
  <2>11. QED
    BY <2>2, <2>7, <2>8, <2>9, <2>10 DEF Clear
<1>8. CASE refused(0)
  <2>1. s.do = "request" /\ c.todo # <<>>
    BY <1>1, <1>8 DEF refused
  <2>2. /\ s.e \in Tracked /\ ~ Accepts(s.e, s.op)
        /\ ent[s.e].mine /\ ent[s.e].path # <<>>
    <3>1. reasons' = reasons \cup
            {IF s.e \in Tracked /\ ~ Accepts(s.e, s.op)
                /\ ent[s.e].mine /\ ent[s.e].path # <<>>
             THEN "early" ELSE "refused"}
      BY <1>0, <1>8 DEF refused
    <3>2. QED
      BY <3>1 DEF Excused
  <2>3. OnWay(ent[s.e], c.know[s.e]) /\ s.e \in DOMAIN c.know
    BY <2>2 DEF Ways
  <2>4. c.know[s.e] # <<>>
    BY <2>2, <2>3 DEF OnWay
  <2>5. ent[s.e].st \in Pending(c.know[s.e])
    BY <2>2, <2>3, <2>4, OnWayAt
  <2>6. ent[s.e].st \in s.op.from
    BY <2>1, <2>3, <2>5 DEF Answerable, s
  <2>7. QED
    BY <2>2, <2>6 DEF Accepts, Status
<1>9. ASSUME At(0, "wait")
      PROVE  /\ c.todo # <<>> /\ s.do = "wait"
             /\ s.by \notin {"same", "old"}
             /\ Goal(0) = s.goal
             /\ ~ OldValue(0)
             /\ Reached(0) <=> There(0)
  <2>1. c.todo # <<>> /\ s.do = "wait"
    BY <1>1, <1>9
  <2>2. s.by \notin {"same", "old"}
    BY <2>1 DEF Answerable, s
  <2>3. QED
    BY <1>0, <2>1, <2>2 DEF Goal, OldValue, Reached
<1>10. CASE sampled(0)
  <2> DEFINE k == [x \in DOMAIN c.know |->
                    IF x \in s.es THEN Passed(c.know[x], s.goal)
                    ELSE c.know[x]]
             b == [[c EXCEPT !.todo = rest] EXCEPT !.res = TRUE]
             d == [b EXCEPT !.know = k]
  <2>1. Result(0, TRUE, rest) /\ out' = out /\ ent' = ent /\ At(0, "wait")
        /\ There(0)
    BY <1>0, <1>9, <1>10 DEF sampled
  <2>2. Clears(c) = {d}
    BY <1>9, <2>1 DEF Clears, s, rest
  <2>3. PICK r : th' = [th EXCEPT ![0] = r] /\ Same(b, r)
    BY <2>1, SameResult
  <2> HIDE DEF b, k
  <2>4. Same(d, r) /\ d.know = k
    BY <2>3, SameKnow
  <2> HIDE DEF d
  <2>5. Ways(k)
    <3>1. DOMAIN k = Tracked
      BY DEF Ways, k
    <3>2. ASSUME NEW x \in Tracked PROVE OnWay(ent[x], k[x])
      <4>1. OnWay(ent[x], c.know[x]) /\ DOMAIN c.know = Tracked
        BY DEF Ways
      <4>2. CASE x \in s.es
        <5>1. ent[x].st \in s.goal
          BY <1>0, <1>9, <2>1, <4>2 DEF There, Status
        <5>2. OnWay(ent[x], Passed(c.know[x], s.goal))
          BY <4>1, <5>1, OnWayPassed
        <5>3. QED
          BY <4>1, <4>2, <5>2 DEF k
      <4>3. CASE x \notin s.es
        BY <4>1, <4>3 DEF k
      <4>4. QED
        BY <4>2, <4>3
    <3>3. QED
      BY <3>1, <3>2 DEF Ways
  <2>6. Ways(k)'
    BY <1>2, <2>1, <2>5
  <2>7. QED
    BY <2>1, <2>2, <2>3, <2>4, <2>6 DEF Clear
<1>11. CASE gaveUp(0)
  <2>1. At(0, "wait") /\ ~ There(0) /\ GivesUp(0) /\ ~ Stays(0)
    <3>1. reasons' = IF Stays(0) THEN reasons \cup {"state"} ELSE reasons
      BY <1>11 DEF gaveUp
    <3>2. At(0, "wait") /\ ~ Reached(0) /\ GivesUp(0)
      BY <1>11 DEF gaveUp
    <3>3. ~ Stays(0)
      BY <3>1 DEF Excused
    <3>4. QED
      BY <3>2, <3>3, <1>9
  <2>2. PICK e \in s.es :
            \/ s.by \in {"status", "only"} /\ Status(e) = "none"
            \/ s.by = "status" /\ Status(e) \in FailStatuses \cup {"up"}
    BY <1>0, <1>9, <2>1 DEF GivesUp
  <2>3. s.by \in {"status", "only"}
    BY <2>2
  <2>4. PICK f \in s.es : s.es = {f}
    BY <1>9, <2>1, <2>3 DEF Answerable, s
  <2>5. e \in Tracked /\ ent[e].path # <<>>
    BY <1>0, <2>1, <2>2, <2>4 DEF Stays
  <2>6. OnWay(ent[e], c.know[e]) /\ e \in DOMAIN c.know
    BY <2>5 DEF Ways
  <2>7. Status(e) = ent[e].st
    BY <2>5 DEF Status
  <2>8. /\ Status(e) \in Final
        /\ s.by = "only" => Status(e) = "none"
    BY <2>2 DEF Final
  <2>9. c.know[e] # <<>>
    BY <2>5, <2>6, <2>7, <2>8 DEF OnWay
  <2>10. Status(e) \in Pending(c.know[e])
    BY <2>5, <2>6, <2>7, <2>9, OnWayAt
  <2>11. /\ s.by = "status" => Pending(c.know[e]) \cap Final = {}
         /\ s.by = "only" => "none" \notin Pending(c.know[e])
    BY <1>9, <2>1, <2>6, <2>9 DEF Answerable, s
  <2>12. QED
    BY <2>3, <2>8, <2>10, <2>11
<1>12. CASE sleeps(0)
  <2> DEFINE r == [th[0] EXCEPT !.polls = @ + 1]
  <2>1. th' = [th EXCEPT ![0] = r] /\ out' = out /\ ent' = ent
    BY <1>12 DEF sleeps
  <2>2. Same(c, r)
    BY DEF Same, Record
  <2> HIDE DEF r
  <2>3. Ways(c.know)'
    BY <1>2, <2>1
  <2>4. QED
    BY <2>1, <2>2, <2>3 DEF Clear
<1>13. CASE timeout(0)
  <2>1. At(0, "wait") /\ ~ There(0)
    BY <1>9, <1>13 DEF timeout
  <2>2. Missed(0)
    <3>1. ~ Missed(0) => "late" \in reasons'
      BY <1>13, <2>1 DEF timeout
    <3>2. QED
      BY <3>1 DEF Excused
  <2>3. PICK e \in s.es \cap Tracked :
            ent[e].mine /\ ent[e].path = <<>> /\ Status(e) \notin s.goal
    BY <1>0, <1>9, <2>1, <2>2 DEF Missed
  <2>4. OnWay(ent[e], c.know[e]) /\ e \in DOMAIN c.know
    BY DEF Ways
  <2>5. c.know[e] # <<>>
    BY <2>3, <2>4 DEF OnWay
  <2>6. ent[e].st = c.know[e][Len(c.know[e])]
    BY <2>3, <2>4, <2>5, OnWayAt
  <2>7. c.know[e][Len(c.know[e])] \in s.goal
    BY <1>9, <2>1, <2>4, <2>5 DEF Answerable, s
  <2>8. QED
    BY <2>3, <2>6, <2>7 DEF Status
<1>14. QED
  BY <1>3, <1>4, <1>5, <1>6, <1>7, <1>8, <1>10, <1>11, <1>12, <1>13

(* The engine takes an entity further; that it fails is an excuse.         *)
LEMMA ClearSettle ==
    ASSUME NEW x \in Tracked, Settle(x), ~ Excused', NEW w, Ways(w)
    PROVE  Ways(w)'
<1> DEFINE n == [[ent[x] EXCEPT !.st = Head(ent[x].path)]
                  EXCEPT !.path = Tail(@)]
<1>1. Advance(x)
  <2>1. Fail(x) => "failed" \in reasons'
    BY DEF Fail
  <2>2. QED
    BY <2>1 DEF Settle, Excused
<1>2. ent' = [ent EXCEPT ![x] = n] /\ ent[x].path # <<>>
  BY <1>1 DEF Advance, Tracked
<1>3. OnWay(n, w[x])
  BY <1>2, OnWayNext DEF Ways
<1> HIDE DEF n
<1>4. Tracked' = Tracked /\ \A e \in Tracked :
        ent'[e] = IF e = x THEN n ELSE ent[e]
  BY <1>2 DEF Tracked
<1>5. QED
  BY <1>3, <1>4 DEF Ways

(* A reason remains one.                                                   *)
LEMMA ReasonsGrow ==
    ASSUME [Next]_vars
    PROVE  reasons \subseteq reasons'
<1>1. CASE UNCHANGED vars \/ Over
  BY <1>1 DEF vars, Over
<1>2. ASSUME NEW x, Settle(x) PROVE reasons \subseteq reasons'
  BY <1>2 DEF Settle, Advance, Fail
<1>3. ASSUME NEW t, Step(t) PROVE reasons \subseteq reasons'
  <2>1. CASE found(t) \/ notFound(t) \/ see(t) \/ remember(t)
    BY <2>1 DEF found, notFound, see, remember
  <2>2. CASE accepted(t) \/ refused(t) \/ lost(t)
    BY <2>2 DEF accepted, refused, lost
  <2>3. CASE sampled(t) \/ gaveUp(t) \/ sleeps(t)
    BY <2>3 DEF sampled, gaveUp, sleeps
  <2>4. CASE timeout(t)
    BY <2>4 DEF timeout
  <2>5. CASE branch(t) \/ keep(t) \/ calls(t) \/ enterTry(t) \/ leaveTry(t)
    BY <2>5 DEF branch, keep, calls, enterTry, leaveTry, Local
  <2>6. CASE return(t) \/ fallOff(t) \/ raise(t)
    BY <2>6 DEF return, fallOff, raise
  <2>7. CASE fork(t)
    BY <2>7, Zenon DEF fork
  <2>8. CASE join(t)
    BY <2>8, Zenon DEF join
  <2>9. QED
    BY <1>3, <2>1, <2>2, <2>3, <2>4, <2>5, <2>6, <2>7, <2>8 DEF Step
<1>4. QED
  BY <1>1, <1>2, <1>3 DEF Next

(* The only thread is the test, after a step of it too.                    *)
LEMMA StillAlone ==
    ASSUME Alone, DOMAIN ent' = DOMAIN ent, DOMAIN seen' = DOMAIN seen, NEW r,
           th' = [th EXCEPT ![0] = r], NEW v,
           out' = out \/ out' = [out EXCEPT ![0] = v]
    PROVE  Alone' /\ th'[0] = r
<1>1. DOMAIN th' = Threads /\ th'[0] = r
  BY DEF Alone, Threads
<1>2. /\ DOMAIN out' = Threads
      /\ out'[1] = out[1] /\ out'[2] = out[2]
  BY DEF Alone, Threads
<1>3. DOMAIN seen' = DOMAIN ent'
  BY DEF Alone, Tracked
<1>4. QED
  BY <1>1, <1>2, <1>3 DEF Alone, Tracked

(* A step is one about the engine, one of the function, or of threads.     *)
LEMMA StepKinds ==
    ASSUME Step(0)
    PROVE  \/ \/ found(0) \/ notFound(0) \/ see(0) \/ remember(0)
              \/ accepted(0) \/ refused(0) \/ lost(0)
              \/ sampled(0) \/ gaveUp(0) \/ sleeps(0) \/ timeout(0)
           \/ \/ branch(0) \/ keep(0) \/ calls(0) \/ enterTry(0) \/ leaveTry(0)
              \/ return(0) \/ fallOff(0) \/ raise(0)
           \/ Todo(0) # <<>> /\ Now(0).do \in {"fork", "join"}
<1>1. CASE fork(0)
  <2>1. At(0, "fork")
    BY <1>1, Zenon DEF fork
  <2>2. QED
    BY <2>1 DEF At
<1>2. CASE join(0)
  <2>1. At(0, "join")
    BY <1>2, Zenon DEF join
  <2>2. QED
    BY <2>1 DEF At
<1>3. QED
  BY <1>1, <1>2, Zenon DEF Step

\* The inductive invariant: as long as there is no reason to fail, the test
\* is at one of the points, and then the answer is yes.
ReasonInv ==
    Demanded /\ ~ Excused =>
        /\ Alone
        /\ call.yes # "running"
        /\ \E P : /\ Reasoned(P, call.yes)
                  /\ out[0] = "running" =>
                        \E c \in P : Same(c, th[0]) /\ Ways(c.know)
                  /\ out[0] # "running" => out[0] = call.yes

(* Every step keeps it.                                                    *)
LEMMA NextReasonInv ==
    ASSUME ReasonInv, [Next]_vars
    PROVE  ReasonInv'
<1> SUFFICES ASSUME Demanded', ~ Excused'
             PROVE  /\ Alone'
                    /\ call'.yes # "running"
                    /\ \E P : /\ Reasoned(P, call'.yes)
                              /\ out'[0] = "running" =>
                                    \E c \in P : Same(c, th'[0]) /\ Ways(c.know)'
                              /\ out'[0] # "running" => out'[0] = call'.yes
  BY DEF ReasonInv
<1>1. ~ Excused
  BY ReasonsGrow DEF Excused
<1>2. call' = call /\ DOMAIN ent' = DOMAIN ent /\ DOMAIN seen' = DOMAIN seen
  <2>1. CASE UNCHANGED vars \/ Over
    BY <2>1 DEF vars, Over
  <2>2. ASSUME NEW x, Settle(x)
        PROVE  call' = call /\ DOMAIN ent' = DOMAIN ent
               /\ DOMAIN seen' = DOMAIN seen
    BY <2>2 DEF Settle, Advance, Fail
  <2>3. QED
    BY <2>1, <2>2, StepKeeps DEF Next
<1>3. Demanded
  BY <1>2 DEF Demanded
<1>4. PICK PP : /\ Reasoned(PP, call.yes)
                /\ out[0] = "running" =>
                    \E c \in PP : Same(c, th[0]) /\ Ways(c.know)
                /\ out[0] # "running" => out[0] = call.yes
  BY <1>1, <1>3 DEF ReasonInv
<1>5. Alone /\ call.yes # "running"
  BY <1>1, <1>3 DEF ReasonInv
<1> SUFFICES /\ Alone'
             /\ out'[0] = "running" =>
                    \E c \in PP : Same(c, th'[0]) /\ Ways(c.know)'
             /\ out'[0] # "running" => out'[0] = call.yes
  BY <1>2, <1>4, <1>5
<1>6. CASE UNCHANGED vars \/ Over
  <2>1. UNCHANGED vars
    BY <1>6 DEF Over
  <2>2. QED
    BY <2>1, <1>4, <1>5 DEF vars, Alone, Tracked, Ways
<1>7. ASSUME NEW x \in Tracked, Settle(x)
      PROVE  /\ Alone'
             /\ out'[0] = "running" =>
                    \E c \in PP : Same(c, th'[0]) /\ Ways(c.know)'
             /\ out'[0] # "running" => out'[0] = call.yes
  <2>1. UNCHANGED <<call, th, out, seen>>
    BY <1>7 DEF Settle
  <2>2. Alone'
    BY <2>1, <1>2, <1>5 DEF Alone, Tracked
  <2>3. QED
    BY <2>1, <2>2, <1>4, <1>7, ClearSettle
<1>8. ASSUME NEW t \in Threads, Step(t)
      PROVE  /\ Alone'
             /\ out'[0] = "running" =>
                    \E c \in PP : Same(c, th'[0]) /\ Ways(c.know)'
             /\ out'[0] # "running" => out'[0] = call.yes
  <2>1. t = 0 /\ out[0] = "running"
    BY <1>5, <1>8, StepRuns DEF Alone, Threads
  <2>2. PICK c \in PP : Same(c, th[0]) /\ Ways(c.know)
    BY <1>4, <2>1
  <2>3. /\ Answerable(c) /\ Replies(c) \subseteq {call.yes}
        /\ Turns(c) \subseteq PP /\ Clears(c) \cup {c} \subseteq PP
    BY <1>4, <2>2 DEF Reasoned
  <2>4. DOMAIN th = Threads /\ 0 \in DOMAIN out
    BY <1>5 DEF Alone, Threads
  <2>5. CASE \/ found(0) \/ notFound(0) \/ see(0) \/ remember(0)
             \/ accepted(0) \/ refused(0) \/ lost(0)
             \/ sampled(0) \/ gaveUp(0) \/ sleeps(0) \/ timeout(0)
    <3>1. Clear(Clears(c) \cup {c})
      BY <2>2, <2>3, <2>4, <2>5, ClearStep
    <3>2. PICK d \in PP : /\ Ways(d.know)'
                          /\ \E r : th' = [th EXCEPT ![0] = r] /\ Same(d, r)
      BY <3>1, <2>3 DEF Clear
    <3>3. out' = out
      BY <3>1 DEF Clear
    <3>4. PICK r : th' = [th EXCEPT ![0] = r] /\ Same(d, r)
      BY <3>2
    <3>5. Alone' /\ th'[0] = r
      BY <3>3, <3>4, <1>2, <1>5, StillAlone
    <3>6. QED
      BY <3>2, <3>3, <3>4, <3>5, <2>1
  <2>6. CASE \/ branch(0) \/ keep(0) \/ calls(0) \/ enterTry(0) \/ leaveTry(0)
             \/ return(0) \/ fallOff(0) \/ raise(0)
    <3>1. /\ ent' = ent /\ Knowing(Turns(c), c)
          /\ GoesOn(Turns(c)) \/ \E v \in Replies(c) : Ends(v)
      BY <2>2, <2>4, <2>6, TurnStep
    <3>2. Ways(c.know)'
      BY <2>2, <3>1 DEF Ways, Tracked
    <3>3. CASE GoesOn(Turns(c))
      <4>1. PICK d \in Turns(c) : \E r : th' = [th EXCEPT ![0] = r]
                                         /\ Same(d, r)
        BY <3>3 DEF GoesOn
      <4>2. PICK r : th' = [th EXCEPT ![0] = r] /\ Same(d, r)
        BY <4>1
      <4>3. out' = out /\ d \in PP /\ d.know = c.know
        BY <3>1, <3>3, <2>3, <4>1 DEF GoesOn, Knowing
      <4>4. Alone' /\ th'[0] = r
        BY <4>2, <4>3, <1>2, <1>5, StillAlone
      <4>5. QED
        BY <4>2, <4>3, <4>4, <3>2, <2>1
    <3>4. CASE \E v \in Replies(c) : Ends(v)
      <4>1. Ends(call.yes)
        BY <3>4, <2>3
      <4>2. out' = [out EXCEPT ![0] = call.yes]
            /\ th' = [th EXCEPT ![0] = Idle]
        BY <4>1 DEF Ends
      <4>3. Alone'
        BY <4>2, <1>2, <1>5, StillAlone
      <4>4. out'[0] = call.yes
        BY <4>2, <2>4
      <4>5. QED
        BY <4>3, <4>4, <1>5
    <3>5. QED
      BY <3>1, <3>3, <3>4
  <2>7. CASE Todo(0) # <<>> /\ Now(0).do \in {"fork", "join"}
    BY <2>2, <2>3, <2>7 DEF Answerable, Same, Todo, Now
  <2>8. QED
    BY <1>8, <2>1, <2>5, <2>6, <2>7, StepKinds
<1>9. QED
  BY <1>6, <1>7, <1>8 DEF Next

(* An entity that is on its way when a test starts.                        *)
LEMMA OnWayFirst ==
    ASSUME NEW s
    PROVE  OnWay([st |-> s, path |-> StartPath(s), fail |-> "never",
                  mine |-> FALSE], <<>>)
<1>1. PICK p : p = StartPath(s)
  OBVIOUS
<1>2. \/ p = <<>>
      \/ s \notin Final /\ \E z : p = <<z>>
  BY <1>1, Zenon DEF StartPath, Final, FailStatuses
<1>3. Sequence(p) /\ Len(p) <= 1 /\ (p # <<>> => s \notin Final)
  <2>1. CASE p = <<>>
    BY <2>1, EmptySeq DEF Sequence
  <2>2. CASE s \notin Final /\ \E z : p = <<z>>
    BY <2>2, Single
  <2>3. QED
    BY <1>2, <2>1, <2>2
<1>4. Sequence(<<>>)
  BY EmptySeq DEF Sequence
<1> DEFINE n == [st |-> s, path |-> p, fail |-> "never", mine |-> FALSE]
<1>5. /\ n \in [st : {n.st}, path : {n.path}, fail : {n.fail}, mine : {n.mine}]
      /\ n.path = p /\ n.st = s /\ n.mine = FALSE
  OBVIOUS
<1> HIDE DEF n
<1>6. OnWay(n, <<>>)
  BY <1>3, <1>4, <1>5 DEF OnWay
<1>7. QED
  BY <1>1, <1>6 DEF n

\* The test starts the call c with the flags a and the entities in f.
Starting(c, a, f) ==
    /\ call = [fn |-> c.fn, flags |-> c.flags, args |-> a,
               done |-> c.done, yes |-> c.yes]
    /\ ent = [e \in DOMAIN f |->
                [st |-> f[e], path |-> StartPath(f[e]),
                 fail |-> "never", mine |-> FALSE]]
    /\ th[0] = [[Idle EXCEPT !.todo = c.body]
                 EXCEPT !.args = a \cup Defaults(c)]
    /\ Alone /\ out[0] = "running"
    /\ seen = [e \in DOMAIN ent |-> "unseen"]
    /\ verdict = "none" /\ reasons = {}

(* The test at the start of a call.                                        *)
LEMMA Opening ==
    ASSUME Init
    PROVE  \E c \in Library : \E a \in SUBSET c.flags :
             \E f \in Starts(c.given) : Starting(c, a, f)
<1>0. PICK c \in Library : \E a \in SUBSET c.flags :
        /\ call = [fn |-> c.fn, flags |-> c.flags, args |-> a,
                   done |-> c.done, yes |-> c.yes]
        /\ \E f \in Starts(c.given) :
            ent = [e \in DOMAIN f |->
                    [st |-> f[e], path |-> StartPath(f[e]),
                     fail |-> "never", mine |-> FALSE]]
        /\ th = [t \in Threads |->
                IF t = 0
                THEN [Idle EXCEPT !.todo = c.body, !.args = a \cup Defaults(c)]
                ELSE Idle]
  BY Zenon DEF Init
<1>1. PICK a \in SUBSET c.flags :
        /\ call = [fn |-> c.fn, flags |-> c.flags, args |-> a,
                   done |-> c.done, yes |-> c.yes]
        /\ \E f \in Starts(c.given) :
            ent = [e \in DOMAIN f |->
                    [st |-> f[e], path |-> StartPath(f[e]),
                     fail |-> "never", mine |-> FALSE]]
        /\ th = [t \in Threads |->
                IF t = 0
                THEN [Idle EXCEPT !.todo = c.body, !.args = a \cup Defaults(c)]
                ELSE Idle]
  BY <1>0, Zenon
<1>2. PICK f \in Starts(c.given) :
        ent = [e \in DOMAIN f |->
                [st |-> f[e], path |-> StartPath(f[e]),
                 fail |-> "never", mine |-> FALSE]]
  BY <1>1, Zenon
<1>3. /\ out = [t \in Threads |-> IF t = 0 THEN "running" ELSE "idle"]
      /\ seen = [e \in DOMAIN ent |-> "unseen"]
      /\ verdict = "none" /\ reasons = {}
  BY DEF Init
<1>4. DOMAIN th = Threads /\ DOMAIN out = Threads /\ DOMAIN seen = Tracked
  BY <1>1, <1>3 DEF Tracked
<1>5. out[0] = "running" /\ out[1] = "idle" /\ out[2] = "idle"
  BY <1>3 DEF Threads
<1> DEFINE args == a \cup Defaults(c)
           r == [[Idle EXCEPT !.todo = c.body] EXCEPT !.args = args]
<1>6. th[0] = r
  BY <1>1 DEF Threads
<1>7. Alone
  BY <1>4, <1>5 DEF Alone
<1>8. QED
  BY <1>1, <1>2, <1>3, <1>5, <1>6, <1>7, Zenon DEF Starting

(* The thread of the test at the first point.                              *)
LEMMA SameFirst ==
    ASSUME NEW c, NEW a, NEW f, Starting(c, a, f), NEW k
    PROVE  Same(Beginning(c, a, k), th[0]) /\ Beginning(c, a, k).know = k
<1>1. PICK args : args = a \cup Defaults(c)
  OBVIOUS
<1>2. PICK b : b = c.body
  OBVIOUS
<1> DEFINE d == [todo |-> b, res |-> FALSE, acc |-> TRUE, mem |-> "none",
                 args |-> args, know |-> k]
           r == [[Idle EXCEPT !.todo = b] EXCEPT !.args = args]
<1>3. Same(d, r) /\ d.know = k
  BY DEF Same, Point, Record, Idle
<1>4. th[0] = r
  BY <1>1, <1>2 DEF Starting
<1>5. Beginning(c, a, k) = d
  BY <1>1, <1>2 DEF Beginning
<1> HIDE DEF d, r
<1>6. QED
  BY <1>3, <1>4, <1>5

(* The invariant holds initially.                                          *)
LEMMA InitReasonInv ==
    ASSUME \A c \in Library : \E P : Accounts(P, c), Init
    PROVE  ReasonInv
<1>0. PICK c \in Library : \E a \in SUBSET c.flags :
        \E f \in Starts(c.given) : Starting(c, a, f)
  BY Opening
<1>1. PICK a \in SUBSET c.flags : \E f \in Starts(c.given) : Starting(c, a, f)
  BY <1>0
<1>2. PICK f \in Starts(c.given) : Starting(c, a, f)
  BY <1>1
<1>3. PICK PP : Accounts(PP, c)
  OBVIOUS
<1>4. PICK k : k = Unasked(c)
  OBVIOUS
<1> DEFINE d == Beginning(c, a, k)
<1>5. Demanded => d \in PP
  <2>1. Demanded => a \in Demands(c)
    BY <1>2 DEF Starting, Demanded, Demands
  <2>2. QED
    BY <2>1, <1>3, <1>4 DEF Accounts
<1>6. Same(d, th[0]) /\ d.know = k
  BY <1>2, SameFirst
<1> HIDE DEF d
<1>7. Ways(k)
  <2>1. DOMAIN f = DOMAIN c.given
    BY DEF Starts
  <2>2. DOMAIN k = Tracked
    BY <1>2, <1>4, <2>1 DEF Starting, Unasked, Tracked
  <2>3. ASSUME NEW e \in Tracked PROVE OnWay(ent[e], k[e])
    <3>1. ent[e] = [st |-> f[e], path |-> StartPath(f[e]), fail |-> "never",
                    mine |-> FALSE]
      BY <1>2 DEF Starting, Tracked
    <3>2. k[e] = <<>>
      BY <1>4, <2>2 DEF Unasked
    <3>3. QED
      BY <3>1, <3>2, OnWayFirst
  <2>4. QED
    BY <2>2, <2>3 DEF Ways
<1>8. Alone /\ out[0] = "running" /\ call.yes = c.yes
  BY <1>2 DEF Starting
<1>9. QED
  BY <1>3, <1>5, <1>6, <1>7, <1>8 DEF ReasonInv, Accounts

(* A call that demands what the function promises fails only for a reason  *)
(* in the engine, if the points of the function can be told: it sends no   *)
(* request before the engine has finished the one before it, and waits for *)
(* no status that the engine may have left.                                *)
THEOREM ReasonGiven ==
    ASSUME \A c \in Library : \E P : Accounts(P, c)
    PROVE  Spec => []FailsForAReason
<1>1. Init => ReasonInv
  BY InitReasonInv
<1>2. ReasonInv /\ [Next]_vars => ReasonInv'
  BY NextReasonInv
<1>3. ReasonInv => FailsForAReason
  BY DEF ReasonInv, FailsForAReason, Excused
<1>4. QED
  BY <1>1, <1>2, <1>3, PTL DEF Spec

-----------------------------------------------------------------------------
(* Courses in which anything goes wrong                                    *)

\* k is what the test has seen, and the verdict.
Knows(k) ==
    /\ DOMAIN k.seen = Tracked
    /\ \A e \in Tracked : seen[e] \in k.seen[e]
    /\ k.verdict = verdict

\* The engine keeps to the statuses of X.
Within(X) ==
    \A e \in Tracked :
        ent[e] \in [st : X, path : Seq(X), fail : X \cup {"never"},
                    mine : BOOLEAN]

\* The test goes on at a point of D, or raises.
Follow(D) ==
    \/ /\ out' = out
       /\ \E d \in D : /\ Knows(d.know)'
                       /\ \E r : th' = [th EXCEPT ![0] = r] /\ Same(d, r)
    \/ Ends("raised")

(* What the test learns is no part of the thread.                          *)
LEMMA SameLearns ==
    ASSUME NEW c, NEW r, Same(c, r), NEW es, NEW S
    PROVE  Same(Learns(c, es, S), r)
<1>1. PICK k : k = [seen |-> [e \in DOMAIN c.know.seen |->
                                IF e \in es THEN S ELSE c.know.seen[e]],
                    verdict |-> c.know.verdict]
  OBVIOUS
<1>2. Learns(c, es, S) = [c EXCEPT !.know = k]
  BY <1>1 DEF Learns
<1>3. QED
  BY <1>2, SameKnow

(* The test learns the statuses S of the entities es.                      *)
LEMMA Learned ==
    ASSUME NEW c, Point(c), NEW es, NEW S, DOMAIN c.know.seen = Tracked,
           c.know.verdict = verdict', Tracked' = Tracked,
           \A e \in Tracked : e \in es => seen'[e] \in S,
           \A e \in Tracked : e \notin es => seen'[e] \in c.know.seen[e]
    PROVE  Knows(Learns(c, es, S).know)'
<1>1. PICK g : g = [e \in DOMAIN c.know.seen |->
                        IF e \in es THEN S ELSE c.know.seen[e]]
  OBVIOUS
<1>2. PICK k : k = [seen |-> g, verdict |-> c.know.verdict]
  OBVIOUS
<1>3. Learns(c, es, S).know = k
  BY <1>1, <1>2 DEF Learns, Point
<1>4. DOMAIN g = Tracked /\ \A e \in Tracked : seen'[e] \in g[e]
  BY <1>1
<1>5. k.seen = g /\ k.verdict = verdict'
  BY <1>2
<1>6. QED
  BY <1>3, <1>4, <1>5 DEF Knows

(* The result of a statement.                                              *)
LEMMA SamePast ==
    ASSUME NEW c, Same(c, th[0]), DOMAIN th = Threads, NEW y,
           Result(0, y, Rest(0))
    PROVE  /\ \E r : th' = [th EXCEPT ![0] = r] /\ Same(Past(c, y), r)
           /\ Point(Past(c, y)) /\ Past(c, y).know = c.know
<1>1. PICK rest : rest = Rest(0)
  OBVIOUS
<1>2. Past(c, y) = [[c EXCEPT !.todo = rest] EXCEPT !.res = y]
  BY <1>1 DEF Past, Rest, Todo, Same
<1>3. PICK r : /\ th' = [th EXCEPT ![0] = r]
               /\ Same([[c EXCEPT !.todo = rest] EXCEPT !.res = y], r)
  BY <1>1, SameResult
<1>4. Same(Past(c, y), r)
  BY <1>2, <1>3
<1>5. Past(c, y).know = c.know
  BY <1>2 DEF Same, Point
<1>6. QED
  BY <1>3, <1>4, <1>5 DEF Same

(* The verdict on a request is no part of the thread.                      *)
LEMMA SameJudged ==
    ASSUME NEW c, Same(c, th[0]), NEW v, Knows(c.know), Noted(0, v)
    PROVE  /\ Same(Judged(c, v), th[0])
           /\ Judged(c, v).know.seen = c.know.seen
           /\ Judged(c, v).know.verdict = verdict'
<1>1. Now(0) = Head(c.todo)
  BY DEF Same, Now, Todo
<1>2. CASE Now(0).sign = "given"
  <2>1. PICK k : k = [seen |-> c.know.seen, verdict |-> v]
    OBVIOUS
  <2>2. Judged(c, v) = [c EXCEPT !.know = k] /\ verdict' = v
    BY <1>1, <1>2, <2>1 DEF Judged, Noted
  <2>3. Same(Judged(c, v), th[0]) /\ Judged(c, v).know = k
    BY <2>2, SameKnow
  <2>4. QED
    BY <2>1, <2>2, <2>3
<1>3. CASE Now(0).sign # "given"
  BY <1>1, <1>3 DEF Judged, Noted, Knows
<1>4. QED
  BY <1>2, <1>3

(* The engine keeps to X when it goes on with an entity.                   *)
LEMMA WithinSettle ==
    ASSUME NEW X, Within(X), NEW x \in Tracked, Settle(x)
    PROVE  Within(X)'
<1> DEFINE E == [st : X, path : Seq(X), fail : X \cup {"never"},
                 mine : BOOLEAN]
<1>1. PICK n \in E : ent' = [ent EXCEPT ![x] = n]
  <2>1. ent[x] \in E
    BY DEF Within
  <2>2. CASE Advance(x)
    <3> DEFINE m == [[ent[x] EXCEPT !.st = Head(ent[x].path)]
                      EXCEPT !.path = Tail(@)]
    <3>1. ent' = [ent EXCEPT ![x] = m] /\ ent[x].path # <<>>
      BY <2>2 DEF Advance, Tracked
    <3>2. Head(ent[x].path) \in X /\ Tail(ent[x].path) \in Seq(X)
      BY <2>1, <3>1
    <3>3. m \in E
      BY <2>1, <3>2
    <3>4. QED
      BY <3>1, <3>3
  <2>3. CASE Fail(x)
    <3> DEFINE m == [[ent[x] EXCEPT !.st = ent[x].fail] EXCEPT !.path = <<>>]
    <3>1. ent' = [ent EXCEPT ![x] = m] /\ ent[x].fail # "never"
      BY <2>3 DEF Fail, Tracked
    <3>2. ent[x].fail \in X /\ <<>> \in Seq(X)
      BY <2>1, <3>1
    <3>3. m \in E
      BY <2>1, <3>2
    <3>4. QED
      BY <3>1, <3>3
  <2>4. QED
    BY <2>2, <2>3 DEF Settle
<1>2. QED
  BY <1>1 DEF Within, Tracked

(* ... and when it accepts a request.                                      *)
LEMMA WithinAccepted ==
    ASSUME NEW X, Within(X), NEW x, NEW op, op.path \in Seq(X),
           op.fail \in X \cup {"never"},
           ent' = IF x \in Tracked THEN [ent EXCEPT ![x] = After(x, op)]
                  ELSE ent
    PROVE  Within(X)' /\ Tracked' = Tracked
<1>1. Tracked' = Tracked
  BY DEF Tracked
<1>2. ASSUME x \in Tracked
      PROVE  After(x, op) \in [st : X, path : Seq(X),
                               fail : X \cup {"never"}, mine : BOOLEAN]
  <2>1. CASE op.path = <<>>
    BY <1>2, <2>1 DEF After, Within
  <2>2. CASE op.path # <<>>
    <3>1. Head(op.path) \in X /\ Tail(op.path) \in Seq(X)
      BY <2>2
    <3>2. QED
      BY <3>1, <2>2 DEF After
  <2>3. QED
    BY <2>1, <2>2
<1>3. QED
  BY <1>1, <1>2 DEF Within, Tracked

(* An exception, after which the test knows what c knows.                  *)
LEMMA FollowThrow ==
    ASSUME NEW c, Same(c, th[0]), Knows(c.know)', NEW x, Throw(0, x), NEW D,
           Handled(c, x, Rest(0)) \subseteq D
    PROVE  Follow(D)
<1>1. /\ Knowing(Handled(c, x, Rest(0)), c)
      /\ GoesOn(Handled(c, x, Rest(0))) \/ Ends("raised")
  BY ThrowTurns
<1>2. CASE GoesOn(Handled(c, x, Rest(0)))
  <2>1. PICK d \in Handled(c, x, Rest(0)) :
            \E r : th' = [th EXCEPT ![0] = r] /\ Same(d, r)
    BY <1>2 DEF GoesOn
  <2>2. d \in D /\ d.know = c.know /\ out' = out
    BY <1>1, <1>2, <2>1 DEF Knowing, GoesOn
  <2>3. Knows(d.know)'
    BY <2>2
  <2>4. QED
    BY <2>1, <2>2, <2>3 DEF Follow
<1>3. QED
  BY <1>1, <1>2 DEF Follow

\* The engine is asked at c in the way of Followed.
Allowed(c, X) ==
    c.todo # <<>> =>
        LET s == Head(c.todo)
        IN /\ s.do \notin {"fork", "join"}
           /\ s.do = "request" =>
                s.op.path \in Seq(X) /\ s.op.fail \in X \cup {"never"}

(* A statement about the engine leads to one of its outcomes.              *)
LEMMA FollowStep ==
    ASSUME NEW c, NEW X, Same(c, th[0]), Knows(c.know), Within(X), Allowed(c, X),
           DOMAIN th = Threads, DOMAIN seen = Tracked,
           \/ found(0) \/ notFound(0) \/ see(0) \/ remember(0)
           \/ accepted(0) \/ refused(0) \/ lost(0)
           \/ sampled(0) \/ gaveUp(0) \/ sleeps(0) \/ timeout(0)
    PROVE  Follow(Outcomes(c, X) \cup {c}) /\ Within(X)'
<1> DEFINE s == Head(c.todo)
           rest == Tail(c.todo)
           D == Outcomes(c, X) \cup {c}
<1>0. Todo(0) = c.todo /\ Now(0) = s /\ Rest(0) = rest
  BY DEF Same, Todo, Now, Rest, Threads
<1>1. ASSUME NEW do, At(0, do) PROVE c.todo # <<>> /\ s.do = do
  BY <1>0, <1>1 DEF At
<1>2. ASSUME ent' = ent PROVE Within(X)' /\ Tracked' = Tracked
  BY <1>2 DEF Within, Tracked
<1>3. \A e \in Tracked : Status(e) \in X
  BY DEF Within, Status
<1>4. Point(c) /\ DOMAIN c.know.seen = Tracked /\ c.know.verdict = verdict
      /\ \A e \in Tracked : seen[e] \in c.know.seen[e]
  BY DEF Same, Knows
<1> HIDE DEF s, rest, D
\* The test saw the entities es in statuses of S, at a point with what c knows.
<1>5. ASSUME NEW d, Point(d), d.know = c.know, NEW es, Saw(es), ent' = ent,
             verdict' = verdict, NEW S,
             \A e \in Tracked : e \in es => Status(e) \in S
      PROVE  Knows(Learns(d, es, S).know)'
  <2>1. \A e \in Tracked : seen'[e] = IF e \in es THEN Status(e) ELSE seen[e]
    BY <1>5 DEF Saw
  <2>2. /\ \A e \in Tracked : e \in es => seen'[e] \in S
        /\ \A e \in Tracked : e \notin es => seen'[e] \in d.know.seen[e]
    BY <2>1, <1>4, <1>5
  <2>3. QED
    BY <2>2, <1>2, <1>4, <1>5, Learned
\* It has a result y.
<1>6. ASSUME NEW y, Result(0, y, rest), NEW es, Saw(es), ent' = ent, NEW S,
             verdict' = verdict, out' = out,
             \A e \in Tracked : e \in es => Status(e) \in S,
             Learns(Past(c, y), es, S) \in D
      PROVE  Follow(D)
  <2>1. Point(Past(c, y)) /\ Past(c, y).know = c.know
    BY <1>0, <1>6, SamePast
  <2>2. PICK r : th' = [th EXCEPT ![0] = r] /\ Same(Past(c, y), r)
    BY <1>0, <1>6, SamePast
  <2>3. Knows(Learns(Past(c, y), es, S).know)'
    BY <2>1, <1>5, <1>6
  <2>4. Same(Learns(Past(c, y), es, S), r)
    BY <2>2, SameLearns
  <2>5. QED
    BY <2>2, <2>3, <2>4, <1>6 DEF Follow
\* It has learned nothing.
<1>7. ASSUME NEW y, Result(0, y, rest), UNCHANGED <<ent, seen, verdict, out>>,
             Past(c, y) \in D
      PROVE  Follow(D)
  <2>1. Past(c, y).know = c.know
    BY <1>0, <1>7, SamePast
  <2>2. PICK r : th' = [th EXCEPT ![0] = r] /\ Same(Past(c, y), r)
    BY <1>0, <1>7, SamePast
  <2>3. Knows(Past(c, y).know)'
    BY <2>1, <1>4, <1>7 DEF Knows, Tracked
  <2>4. QED
    BY <2>2, <2>3, <1>7 DEF Follow
<1>8. CASE found(0)
  <2>1. /\ c.todo # <<>> /\ s.do = "find"
        /\ \A e \in s.es : Status(e) # "none"
        /\ Saw(s.es) /\ UNCHANGED <<ent, out, verdict>>
    BY <1>0, <1>1, <1>8 DEF found
  <2> DEFINE d == [c EXCEPT !.todo = rest]
             r == [th[0] EXCEPT !.todo = rest]
  <2>2. Learns(d, s.es, X \ {"none"}) \in D
    BY <2>1 DEF Outcomes, s, rest, D
  <2>3. th' = [th EXCEPT ![0] = r]
    BY <1>0, <1>8 DEF found, Goto
  <2>4. Same(d, r) /\ d.know = c.know
    BY SameGoes
  <2> HIDE DEF d, r
  <2>5. \A e \in Tracked : e \in s.es => Status(e) \in X \ {"none"}
    BY <1>3, <2>1
  <2>6. Knows(Learns(d, s.es, X \ {"none"}).know)'
    BY <2>1, <2>4, <2>5, <1>5 DEF Same
  <2>7. Same(Learns(d, s.es, X \ {"none"}), r)
    BY <2>4, SameLearns
  <2>8. QED
    BY <2>1, <2>2, <2>3, <2>6, <2>7, <1>2 DEF Follow, D
<1>9. CASE notFound(0)
  <2>1. /\ c.todo # <<>>
        /\ \/ s.do \in {"find", "look", "remember"}
           \/ s.do = "wait" /\ s.by \in {"watch", "watchq"}
        /\ Saw(s.es) /\ Throw(0, "EntityNotFound") /\ UNCHANGED <<ent, verdict>>
    <3>1. \/ At(0, "find") \/ At(0, "look") \/ At(0, "remember")
          \/ At(0, "wait") /\ Now(0).by \in {"watch", "watchq"}
      BY <1>9 DEF notFound
    <3>2. Saw(s.es) /\ Throw(0, "EntityNotFound") /\ UNCHANGED <<ent, verdict>>
      BY <1>0, <1>9 DEF notFound
    <3>3. QED
      BY <1>0, <3>1, <3>2 DEF At
  <2> DEFINE d == Learns(c, s.es, X)
  <2>2. Handled(d, "EntityNotFound", rest) \subseteq D
    BY <2>1 DEF Outcomes, s, rest, D
  <2>3. Knows(d.know)'
    BY <2>1, <1>3, <1>4, <1>5
  <2>4. Same(d, th[0])
    BY SameLearns
  <2> HIDE DEF d
  <2>5. Follow(D)
    BY <2>1, <2>2, <2>3, <2>4, <1>0, FollowThrow
  <2>6. QED
    BY <2>1, <2>5, <1>2 DEF D
<1>10. CASE see(0)
  <2> DEFINE y == \A e \in s.es : Status(e) \in s.goal
             others == IF \E e \in s.es : s.es = {e} THEN X \ s.goal ELSE X
  <2>1. /\ c.todo # <<>> /\ s.do \in {"see", "look"}
        /\ Result(0, y, rest)
        /\ Saw(s.es) /\ UNCHANGED <<ent, out, verdict>>
    <3>1. At(0, "see") \/ At(0, "look")
      BY <1>10 DEF see
    <3>2. QED
      BY <1>0, <1>1, <1>10, <3>1 DEF see
  <2>2. /\ Learns(Past(c, TRUE), s.es, s.goal) \in D
        /\ Learns(Past(c, FALSE), s.es, others) \in D
    BY <2>1 DEF Outcomes, s, rest, D
  <2>3. CASE y
    <3>1. Result(0, TRUE, rest)
      <4>1. y = TRUE
        BY <2>3
      <4>2. QED
        BY <4>1, <2>1
    <3>2. Follow(D)
      BY <3>1, <2>1, <2>2, <2>3, <1>6
    <3>3. QED
      BY <3>2, <2>1, <1>2 DEF D
  <2>4. CASE ~ y
    <3>1. Result(0, FALSE, rest)
      <4>1. y = FALSE
        BY <2>4
      <4>2. QED
        BY <4>1, <2>1
    <3>2. \A e \in Tracked : e \in s.es => Status(e) \in others
      <4>1. CASE \E e \in s.es : s.es = {e}
        <5>1. \A e \in s.es : Status(e) \notin s.goal
          BY <2>4, <4>1
        <5>2. QED
          BY <4>1, <5>1, <1>3
      <4>2. CASE ~ \E e \in s.es : s.es = {e}
        BY <4>2, <1>3
      <4>3. QED
        BY <4>1, <4>2
    <3> HIDE DEF others, y
    <3>3. Follow(D)
      BY <3>1, <3>2, <2>1, <2>2, <1>6
    <3>4. QED
      BY <3>3, <2>1, <1>2 DEF D
  <2>5. QED
    BY <2>3, <2>4
<1>11. CASE remember(0)
  <2>1. /\ c.todo # <<>> /\ s.do = "remember"
        /\ \A e \in s.es : Status(e) # "none"
        /\ Saw(s.es) /\ UNCHANGED <<ent, out, verdict>>
    BY <1>0, <1>1, <1>11 DEF remember
  <2>2. PICK m : m = Status(CHOOSE e \in Now(0).es : TRUE)
    OBVIOUS
  <2> DEFINE d == [c EXCEPT !.todo = rest, !.mem = m]
             r == [th[0] EXCEPT !.todo = rest, !.mem = m]
  <2>3. m \in X \cup {"ok"}
    BY <2>2, <1>3 DEF Status
  <2>4. Learns(d, s.es, X \ {"none"}) \in D
    BY <2>1, <2>3 DEF Outcomes, s, rest, D
  <2>5. th' = [th EXCEPT ![0] = r]
    <3>1. th' = [th EXCEPT ![0].todo = Rest(0), ![0].mem = m]
      BY <1>11, <2>2, Zenon DEF remember
    <3>2. QED
      BY <1>0, <3>1 DEF Threads
  <2>6. Same(d, r) /\ d.know = c.know
    BY SameRemembers
  <2> HIDE DEF d, r
  <2>7. \A e \in Tracked : e \in s.es => Status(e) \in X \ {"none"}
    BY <1>3, <2>1
  <2>8. Knows(Learns(d, s.es, X \ {"none"}).know)'
    BY <2>1, <2>6, <2>7, <1>5 DEF Same
  <2>9. Same(Learns(d, s.es, X \ {"none"}), r)
    BY <2>6, SameLearns
  <2>10. QED
    BY <2>1, <2>4, <2>5, <2>8, <2>9, <1>2 DEF Follow, D
<1>12. Sign(0) = (s.sign = "true" \/ "positive" \in c.args)
  BY <1>0 DEF Sign, Positive, Same
<1>13. CASE accepted(0)
  <2> DEFINE e == s.e
             d == Judged(c, "accepted")
  <2>1. c.todo # <<>> /\ s.do = "request"
    BY <1>1, <1>13 DEF accepted
  <2>2. PICK match \in BOOLEAN :
            /\ s.op.verb = "delete" => match
            /\ Result(0, Sign(0) /\ match, rest)
            /\ Learn(e, IF match THEN "asked" ELSE "unseen")
    BY <1>0, <1>13 DEF accepted
  <2>3. /\ ent' = IF e \in Tracked THEN [ent EXCEPT ![e] = After(e, s.op)]
                  ELSE ent
        /\ Noted(0, "accepted") /\ out' = out
    BY <1>0, <1>13 DEF accepted
  <2>4. Within(X)' /\ Tracked' = Tracked
    BY <2>1, <2>3, WithinAccepted DEF Allowed, s
  <2>5. /\ Same(d, th[0]) /\ d.know.seen = c.know.seen
        /\ d.know.verdict = verdict'
    BY <2>3, SameJudged
  <2>6. PICK y : y = (Sign(0) /\ match)
    OBVIOUS
  <2>7. PICK what : what = IF match THEN "asked" ELSE "unseen"
    OBVIOUS
  <2>8. Learns(Past(d, y), {e}, {what}) \in D
    <3>1. CASE match
      <4>1. y = (s.sign = "true" \/ "positive" \in c.args) /\ what = "asked"
        BY <3>1, <2>6, <2>7, <1>12
      <4>2. Learns(Past(d, s.sign = "true" \/ "positive" \in c.args), {e},
                   {"asked"}) \in D
        BY <2>1 DEF Outcomes, s, rest, D
      <4>3. QED
        BY <4>1, <4>2
    <3>2. CASE ~ match
      <4>1. y = FALSE /\ what = "unseen" /\ s.op.verb # "delete"
        BY <3>2, <2>2, <2>6, <2>7
      <4>2. Learns(Past(d, FALSE), {e}, {"unseen"}) \in D
        BY <2>1, <4>1 DEF Outcomes, s, rest, D
      <4>3. QED
        BY <4>1, <4>2
    <3>3. QED
      BY <3>1, <3>2
  <2> HIDE DEF d
  <2>9. Result(0, y, Rest(0))
    BY <2>2, <2>6, <1>0
  <2>10. Point(Past(d, y)) /\ Past(d, y).know = d.know
    BY <2>5, <2>9, SamePast
  <2>11. PICK r : th' = [th EXCEPT ![0] = r] /\ Same(Past(d, y), r)
    BY <2>5, <2>9, SamePast
  <2>12. Same(Learns(Past(d, y), {e}, {what}), r)
    BY <2>11, SameLearns
  <2>13. \A x \in Tracked : seen'[x] = IF x = e THEN what ELSE seen[x]
    BY <2>2, <2>7 DEF Learn
  <2>14. Knows(Learns(Past(d, y), {e}, {what}).know)'
    <3>1. /\ \A x \in Tracked : x \in {e} => seen'[x] \in {what}
          /\ \A x \in Tracked :
                x \notin {e} => seen'[x] \in Past(d, y).know.seen[x]
      BY <2>5, <2>10, <2>13, <1>4
    <3>2. QED
      BY <3>1, <2>4, <2>5, <2>10, <1>4, Learned
  <2>15. QED
    BY <2>3, <2>4, <2>8, <2>11, <2>12, <2>14 DEF Follow, D
<1>14. CASE refused(0)
  <2> DEFINE missing == s.op.verb # "create" /\ Status(s.e) = "none"
  <2>1. c.todo # <<>> /\ s.do = "request"
    BY <1>1, <1>14 DEF refused
  <2>2. /\ Result(0, ~ Sign(0) /\ ~ missing, rest)
        /\ Noted(0, IF missing THEN "missing" ELSE "refused")
        /\ UNCHANGED <<ent, out, seen>>
    BY <1>0, <1>14 DEF refused
  <2>3. PICK v : v = IF missing THEN "missing" ELSE "refused"
    OBVIOUS
  <2>4. PICK y : y = (~ Sign(0) /\ ~ missing)
    OBVIOUS
  <2> DEFINE d == Judged(c, v)
  <2>5. Past(d, y) \in D
    <3>1. CASE missing
      <4>1. y = FALSE /\ v = "missing" /\ s.op.verb # "create"
        BY <3>1, <2>3, <2>4
      <4>2. Past(Judged(c, "missing"), FALSE) \in D
        BY <2>1, <4>1 DEF Outcomes, s, rest, D
      <4>3. QED
        BY <4>1, <4>2
    <3>2. CASE ~ missing
      <4>1. y = (~ (s.sign = "true" \/ "positive" \in c.args))
            /\ v = "refused"
        BY <3>2, <2>3, <2>4, <1>12
      <4>2. Past(Judged(c, "refused"),
                 ~ (s.sign = "true" \/ "positive" \in c.args)) \in D
        BY <2>1 DEF Outcomes, s, rest, D
      <4>3. QED
        BY <4>1, <4>2
    <3>3. QED
      BY <3>1, <3>2
  <2>6. /\ Same(d, th[0]) /\ d.know.seen = c.know.seen
        /\ d.know.verdict = verdict'
    BY <2>2, <2>3, SameJudged
  <2>7. Result(0, y, Rest(0))
    BY <2>2, <2>4, <1>0
  <2> HIDE DEF d, missing
  <2>8. Past(d, y).know = d.know
    BY <2>6, <2>7, SamePast
  <2>9. PICK r : th' = [th EXCEPT ![0] = r] /\ Same(Past(d, y), r)
    BY <2>6, <2>7, SamePast
  <2>10. Knows(Past(d, y).know)'
    BY <2>2, <2>6, <2>8, <1>4 DEF Knows, Tracked
  <2>11. QED
    BY <2>2, <2>5, <2>9, <2>10, <1>2 DEF Follow, D
<1>21. CASE lost(0)
  <2>1. Throw(0, "ConnectionError") /\ seen' = seen
    BY <1>21 DEF lost
  <2>2. CASE At(0, "request")
    <3> DEFINE d == Judged(c, "lost")
    <3>1. c.todo # <<>> /\ s.do = "request" /\ Noted(0, "lost")
      BY <2>2, <1>1, <1>21 DEF lost, At
    <3>2. Within(X)' /\ Tracked' = Tracked
      <4>1. CASE ent' = ent
        BY <4>1, <1>2
      <4>2. CASE s.e \in Tracked /\ ent' = [ent EXCEPT ![s.e] = After(s.e, s.op)]
        BY <3>1, <4>2, WithinAccepted DEF Allowed, s
      <4>3. QED
        BY <2>2, <4>1, <4>2, <1>0, <1>21 DEF lost, At
    <3>3. Handled(d, "ConnectionError", rest) \subseteq D
      BY <3>1 DEF Outcomes, s, rest, D
    <3>4. /\ Same(d, th[0]) /\ d.know.seen = c.know.seen
          /\ d.know.verdict = verdict'
      BY <3>1, SameJudged
    <3> HIDE DEF d
    <3>5. Knows(d.know)'
      BY <2>1, <3>2, <3>4, <1>4 DEF Knows
    <3>6. Follow(D)
      BY <2>1, <3>3, <3>4, <3>5, <1>0, FollowThrow
    <3>7. QED
      BY <3>2, <3>6 DEF D
  <2>3. CASE ~ At(0, "request")
    <3>1. /\ c.todo # <<>> /\ s.do \in {"find", "look", "remember", "wait"}
          /\ UNCHANGED <<ent, verdict>>
      BY <2>3, <1>0, <1>21 DEF lost, At
    <3>2. Handled(c, "ConnectionError", rest) \subseteq D
      BY <3>1 DEF Outcomes, s, rest, D
    <3>3. Knows(c.know)'
      BY <2>1, <3>1 DEF Knows, Tracked
    <3>4. Follow(D)
      BY <2>1, <3>2, <3>3, <1>0, FollowThrow
    <3>5. QED
      BY <3>1, <3>4, <1>2 DEF D
  <2>4. QED
    BY <2>2, <2>3
<1> DEFINE goal == IF s.by = "same" THEN {c.mem} ELSE s.goal
<1>15. ASSUME At(0, "wait")
       PROVE  c.todo # <<>> /\ s.do = "wait" /\ Goal(0) = goal
  <2>1. c.todo # <<>> /\ s.do = "wait"
    BY <1>1, <1>15
  <2>2. c.mem = th[0].mem
    BY DEF Same
  <2>3. QED
    BY <1>0, <2>1, <2>2 DEF Goal
<1> HIDE DEF goal
<1>16. CASE sampled(0)
  <2>1. /\ At(0, "wait") /\ There(0) /\ Result(0, TRUE, rest) /\ Saw(s.es)
        /\ UNCHANGED <<ent, out, verdict>>
    BY <1>0, <1>16 DEF sampled, Reached
  <2>2. Learns(Past(c, TRUE), s.es, goal) \in D
    BY <2>1, <1>15 DEF Outcomes, s, rest, goal, D
  <2>3. \A e \in Tracked : e \in s.es => Status(e) \in goal
    BY <2>1, <1>0, <1>15 DEF There
  <2>4. Follow(D)
    BY <2>1, <2>2, <2>3, <1>6
  <2>5. QED
    BY <2>1, <2>4, <1>2 DEF D
<1>17. CASE gaveUp(0)
  <2>1. /\ At(0, "wait") /\ GivesUp(0) /\ Result(0, FALSE, rest) /\ Saw(s.es)
        /\ UNCHANGED <<ent, out, verdict>>
    BY <1>0, <1>17 DEF gaveUp
  <2>2. s.by \in {"status", "same", "only"}
    BY <2>1, <1>0, <1>15 DEF GivesUp
  <2>3. Learns(Past(c, FALSE), s.es, X) \in D
    BY <2>1, <2>2, <1>15 DEF Outcomes, s, rest, D
  <2>4. Follow(D)
    BY <2>1, <2>3, <1>3, <1>6
  <2>5. QED
    BY <2>1, <2>4, <1>2 DEF D
<1>18. CASE sleeps(0)
  <2> DEFINE r == [th[0] EXCEPT !.polls = @ + 1]
  <2>1. /\ At(0, "wait") /\ th' = [th EXCEPT ![0] = r]
        /\ UNCHANGED <<ent, out, verdict>>
        /\ seen' = seen \/ Saw(s.es)
    BY <1>0, <1>18 DEF sleeps, Saw
  <2>2. Same(c, r)
    BY DEF Same, Record
  <2> HIDE DEF r
  <2>3. CASE seen' = seen
    <3>1. Knows(c.know)'
      BY <2>1, <2>3 DEF Knows, Tracked
    <3>2. QED
      BY <3>1, <2>1, <2>2, <1>2 DEF Follow, D
  <2>4. CASE Saw(s.es)
    <3>1. Learns(c, s.es, X) \in D
      BY <2>1, <1>15 DEF Outcomes, s, rest, D
    <3>2. Knows(Learns(c, s.es, X).know)'
      BY <2>1, <2>4, <1>3, <1>4, <1>5
    <3>3. Same(Learns(c, s.es, X), r)
      BY <2>2, SameLearns
    <3>4. QED
      BY <3>1, <3>2, <3>3, <2>1, <1>2 DEF Follow, D
  <2>5. QED
    BY <2>1, <2>3, <2>4
<1>19. CASE timeout(0)
  <2>1. /\ At(0, "wait") /\ UNCHANGED <<ent, seen, verdict>>
        /\ IF s.by \in {"sampler", "old", "watch"} THEN Throw(0, "APITimeout")
           ELSE Result(0, FALSE, rest) /\ out' = out
    BY <1>0, <1>19 DEF timeout
  <2>2. Knows(c.know)'
    BY <2>1 DEF Knows, Tracked
  <2>3. CASE s.by \in {"sampler", "old", "watch"}
    <3>1. Handled(c, "APITimeout", rest) \subseteq D
      BY <2>1, <2>3, <1>15 DEF Outcomes, s, rest, D
    <3>2. Follow(D)
      BY <3>1, <2>1, <2>2, <2>3, <1>0, FollowThrow
    <3>3. QED
      BY <3>2, <2>1, <1>2 DEF D
  <2>4. CASE s.by \notin {"sampler", "old", "watch"}
    <3>1. Past(c, FALSE) \in D
      BY <2>1, <2>4, <1>15 DEF Outcomes, s, rest, D
    <3>2. Follow(D)
      BY <3>1, <2>1, <2>4, <1>7
    <3>3. QED
      BY <3>2, <2>1, <1>2 DEF D
  <2>5. QED
    BY <2>3, <2>4
<1>20. QED
  BY <1>8, <1>9, <1>10, <1>11, <1>13, <1>14, <1>16, <1>17, <1>18, <1>19, <1>21

\* The inductive invariant: the test is at one of the points PP, where it
\* knows what it has seen, and it has answered at one of them.
Following(PP, X) ==
    /\ Alone
    /\ Followed(PP, X)
    /\ Within(X)
    /\ out[0] = "running" => \E c \in PP : Same(c, th[0]) /\ Knows(c.know)
    /\ out[0] # "running" =>
        \/ out[0] = "raised"
        \/ \E c \in PP : out[0] \in Replies(c) /\ Knows(c.know)

(* Every step keeps it.                                                    *)
LEMMA NextFollowing ==
    ASSUME NEW PP, NEW X, Following(PP, X), [Next]_vars
    PROVE  Following(PP, X)'
<1>1. Alone /\ Followed(PP, X) /\ Within(X)
  BY DEF Following
<1>2. CASE UNCHANGED vars \/ Over
  <2>1. UNCHANGED vars
    BY <1>2 DEF Over
  <2>2. QED
    BY <2>1 DEF vars, Following, Alone, Tracked, Within, Knows
<1>3. ASSUME NEW x \in Tracked, Settle(x) PROVE Following(PP, X)'
  <2>1. UNCHANGED <<th, out, seen, verdict>> /\ Tracked' = Tracked
    BY <1>3 DEF Settle, Advance, Fail, Tracked
  <2>2. Within(X)'
    BY <1>1, <1>3, WithinSettle
  <2>3. QED
    BY <2>1, <2>2 DEF Following, Alone, Knows
<1>4. ASSUME NEW t \in Threads, Step(t) PROVE Following(PP, X)'
  <2>1. t = 0 /\ out[0] = "running"
    BY <1>1, <1>4, StepRuns DEF Alone, Threads
  <2>2. DOMAIN ent' = DOMAIN ent /\ DOMAIN seen' = DOMAIN seen
    BY <1>4, StepKeeps
  <2>3. PICK c \in PP : Same(c, th[0]) /\ Knows(c.know)
    BY <2>1 DEF Following
  <2>4. /\ Allowed(c, X) /\ "running" \notin Replies(c)
        /\ Turns(c) \subseteq PP /\ Outcomes(c, X) \cup {c} \subseteq PP
    BY <1>1, <2>3 DEF Followed, Allowed
  <2>5. DOMAIN th = Threads /\ DOMAIN seen = Tracked /\ 0 \in DOMAIN out
    BY <1>1 DEF Alone, Threads
  <2>6. ASSUME Within(X)', out' = out, NEW d \in PP, Knows(d.know)', NEW r,
               th' = [th EXCEPT ![0] = r], Same(d, r)
        PROVE  Following(PP, X)'
    <3>1. Alone' /\ th'[0] = r
      BY <2>2, <2>6, <1>1, StillAlone
    <3>2. QED
      BY <3>1, <2>1, <2>6, <1>1 DEF Following
  <2>7. ASSUME Within(X)', NEW v, Ends(v), v # "running",
               v = "raised" \/ (v \in Replies(c) /\ Knows(c.know)')
        PROVE  Following(PP, X)'
    <3>1. out' = [out EXCEPT ![0] = v] /\ th' = [th EXCEPT ![0] = Idle]
      BY <2>7 DEF Ends
    <3>2. Alone'
      BY <3>1, <2>2, <1>1, StillAlone
    <3>3. out'[0] = v
      BY <3>1, <2>5
    <3>4. QED
      BY <3>2, <3>3, <2>3, <2>7, <1>1 DEF Following
  <2>8. CASE \/ found(0) \/ notFound(0) \/ see(0) \/ remember(0)
             \/ accepted(0) \/ refused(0) \/ lost(0)
             \/ sampled(0) \/ gaveUp(0) \/ sleeps(0) \/ timeout(0)
    <3>1. Follow(Outcomes(c, X) \cup {c}) /\ Within(X)'
      BY <2>3, <2>4, <2>5, <2>8, <1>1, FollowStep
    <3>2. CASE Ends("raised")
      BY <3>1, <3>2, <2>7
    <3>3. CASE out' = out /\ \E d \in Outcomes(c, X) \cup {c} :
                    /\ Knows(d.know)'
                    /\ \E r : th' = [th EXCEPT ![0] = r] /\ Same(d, r)
      <4>1. PICK d \in PP :
                /\ Knows(d.know)'
                /\ \E r : th' = [th EXCEPT ![0] = r] /\ Same(d, r)
        BY <3>3, <2>4
      <4>2. PICK r : th' = [th EXCEPT ![0] = r] /\ Same(d, r)
        BY <4>1
      <4>3. QED
        BY <4>1, <4>2, <3>1, <3>3, <2>6
    <3>4. QED
      BY <3>1, <3>2, <3>3 DEF Follow
  <2>9. CASE \/ branch(0) \/ keep(0) \/ calls(0) \/ enterTry(0) \/ leaveTry(0)
             \/ return(0) \/ fallOff(0) \/ raise(0)
    <3>1. /\ UNCHANGED <<ent, seen, verdict>> /\ Knowing(Turns(c), c)
          /\ GoesOn(Turns(c)) \/ \E v \in Replies(c) : Ends(v)
      BY <2>3, <2>5, <2>9, TurnStep
    <3>2. Knows(c.know)' /\ Within(X)'
      BY <2>3, <3>1, <1>1 DEF Knows, Within, Tracked
    <3>3. CASE GoesOn(Turns(c))
      <4>1. PICK d \in Turns(c) : \E r : th' = [th EXCEPT ![0] = r]
                                         /\ Same(d, r)
        BY <3>3 DEF GoesOn
      <4>2. PICK r : th' = [th EXCEPT ![0] = r] /\ Same(d, r)
        BY <4>1
      <4>3. out' = out /\ d \in PP /\ d.know = c.know
        BY <3>1, <3>3, <2>4, <4>1 DEF GoesOn, Knowing
      <4>4. Knows(d.know)'
        BY <3>2, <4>3
      <4>5. QED
        BY <4>2, <4>3, <4>4, <3>2, <2>6
    <3>4. CASE \E v \in Replies(c) : Ends(v)
      BY <3>4, <3>2, <2>4, <2>7
    <3>5. QED
      BY <3>1, <3>3, <3>4
  <2>10. CASE Todo(0) # <<>> /\ Now(0).do \in {"fork", "join"}
    BY <2>3, <2>4, <2>10 DEF Allowed, Same, Todo, Now
  <2>11. QED
    BY <1>4, <2>1, <2>8, <2>9, <2>10, StepKinds
<1>5. QED
  BY <1>2, <1>3, <1>4 DEF Next

(* The call does not change.                                               *)
LEMMA CallKept ==
    ASSUME [Next]_vars
    PROVE  call' = call /\ Tracked' = Tracked
<1>1. CASE UNCHANGED vars \/ Over
  BY <1>1 DEF vars, Over, Tracked
<1>2. ASSUME NEW x, Settle(x) PROVE call' = call /\ Tracked' = Tracked
  BY <1>2 DEF Settle, Advance, Fail, Tracked
<1>3. ASSUME NEW t, Step(t) PROVE call' = call /\ Tracked' = Tracked
  BY <1>3, StepKeeps DEF Tracked
<1>4. QED
  BY <1>1, <1>2, <1>3 DEF Next

(* The first point of a call.                                              *)
LEMMA InitFollowing ==
    ASSUME NEW c, NEW a, NEW f \in Starts(c.given), Starting(c, a, f),
           NEW PP, NEW X, NEW A, Follows(PP, X, c, A), a \in A
    PROVE  Following(PP, X) /\ Tracked = DOMAIN c.given
<1>1. PICK k : k = Unseen(c)
  OBVIOUS
<1> DEFINE d == Beginning(c, a, k)
<1>2. d \in PP
  BY <1>1 DEF Follows
<1>3. Same(d, th[0]) /\ d.know = k
  BY SameFirst
<1> HIDE DEF d
<1>4. DOMAIN f = DOMAIN c.given /\ \A e \in DOMAIN f : f[e] \in c.given[e]
  BY DEF Starts
<1>5. DOMAIN ent = DOMAIN f
  BY DEF Starting
<1>6. Tracked = DOMAIN c.given
  BY <1>4, <1>5 DEF Tracked
<1>7. Knows(k)
  <2>1. \A e \in Tracked : seen[e] = "unseen"
    BY DEF Starting, Tracked
  <2>2. verdict = "none"
    BY DEF Starting
  <2>3. QED
    BY <2>1, <2>2, <1>1, <1>6 DEF Unseen, Knows
<1>8. Within(X)
  <2> SUFFICES ASSUME NEW e \in Tracked
               PROVE  ent[e] \in [st : X, path : Seq(X),
                                  fail : X \cup {"never"}, mine : BOOLEAN]
    BY DEF Within
  <2>1. ent[e] = [st |-> f[e], path |-> StartPath(f[e]), fail |-> "never",
                  mine |-> FALSE]
    BY DEF Starting, Tracked
  <2>2. f[e] \in X /\ StartPath(f[e]) \in Seq(X)
    BY <1>4, <1>6 DEF Follows
  <2>3. QED
    BY <2>1, <2>2
<1>9. Alone /\ out[0] = "running" /\ Followed(PP, X)
  BY DEF Starting, Follows
<1>10. QED
  BY <1>2, <1>3, <1>6, <1>7, <1>8, <1>9 DEF Following

\* A call that answers yes does so where its promise has been seen.
WitnessInv ==
    Demanded =>
        \E PP, X :
            /\ Following(PP, X)
            /\ call.yes \notin {"running", "raised"}
            /\ \A p \in PP : call.yes \in Replies(p) =>
                \A e \in DOMAIN call.done :
                    e \in Tracked /\ p.know.seen[e] \subseteq call.done[e]

\* A negative call answers True where its request has been refused.
RefuseInv ==
    "positive" \in call.flags \ call.args =>
        \E PP, X :
            /\ Following(PP, X)
            /\ \A p \in PP : "true" \in Replies(p) => p.know.verdict = "refused"

(* The first holds initially.                                              *)
LEMMA InitWitnessInv ==
    ASSUME \A c \in Library : \E P, X : Witnesses(P, X, c), Init
    PROVE  WitnessInv
<1>1. PICK c \in Library : \E a \in SUBSET c.flags :
        \E f \in Starts(c.given) : Starting(c, a, f)
  BY Opening
<1>2. PICK a \in SUBSET c.flags : \E f \in Starts(c.given) : Starting(c, a, f)
  BY <1>1
<1>3. PICK f \in Starts(c.given) : Starting(c, a, f)
  BY <1>2
<1>4. PICK PP, X : Witnesses(PP, X, c)
  OBVIOUS
<1>5. Demanded => a \in Demands(c)
  BY <1>3 DEF Starting, Demanded, Demands
<1>6. Demanded => Following(PP, X) /\ Tracked = DOMAIN c.given
  BY <1>3, <1>4, <1>5, InitFollowing DEF Witnesses
<1>7. call.yes = c.yes /\ call.done = c.done
  BY <1>3 DEF Starting
<1>8. QED
  BY <1>4, <1>6, <1>7 DEF Witnesses, WitnessInv

(* ... and after every step.                                               *)
LEMMA NextWitnessInv ==
    ASSUME WitnessInv, [Next]_vars
    PROVE  WitnessInv'
<1>1. call' = call /\ Tracked' = Tracked
  BY CallKept
<1> SUFFICES ASSUME Demanded
             PROVE  WitnessInv'
  BY <1>1 DEF WitnessInv, Demanded
<1>2. PICK PP, X :
        /\ Following(PP, X)
        /\ call.yes \notin {"running", "raised"}
        /\ \A p \in PP : call.yes \in Replies(p) =>
            \A e \in DOMAIN call.done :
                e \in Tracked /\ p.know.seen[e] \subseteq call.done[e]
  BY DEF WitnessInv
<1>3. Following(PP, X)'
  BY <1>2, NextFollowing
<1>4. QED
  BY <1>1, <1>2, <1>3 DEF WitnessInv

(* The second holds initially.                                             *)
LEMMA InitRefuseInv ==
    ASSUME \A c \in Library : \E P, X : Refuses(P, X, c), Init
    PROVE  RefuseInv
<1>1. PICK c \in Library : \E a \in SUBSET c.flags :
        \E f \in Starts(c.given) : Starting(c, a, f)
  BY Opening
<1>2. PICK a \in SUBSET c.flags : \E f \in Starts(c.given) : Starting(c, a, f)
  BY <1>1
<1>3. PICK f \in Starts(c.given) : Starting(c, a, f)
  BY <1>2
<1>4. PICK PP, X : Refuses(PP, X, c)
  OBVIOUS
<1>5. "positive" \in call.flags \ call.args => a \in Refusals(c)
  BY <1>3 DEF Starting, Refusals
<1>6. "positive" \in call.flags \ call.args => Following(PP, X)
  BY <1>3, <1>4, <1>5, InitFollowing DEF Refuses
<1>7. QED
  BY <1>4, <1>6 DEF Refuses, RefuseInv

(* ... and after every step.                                               *)
LEMMA NextRefuseInv ==
    ASSUME RefuseInv, [Next]_vars
    PROVE  RefuseInv'
<1>1. call' = call
  BY CallKept
<1> SUFFICES ASSUME "positive" \in call.flags \ call.args
             PROVE  RefuseInv'
  BY <1>1 DEF RefuseInv
<1>2. PICK PP, X :
        /\ Following(PP, X)
        /\ \A p \in PP : "true" \in Replies(p) => p.know.verdict = "refused"
  BY DEF RefuseInv
<1>3. Following(PP, X)'
  BY <1>2, NextFollowing
<1>4. QED
  BY <1>2, <1>3 DEF RefuseInv

(* A call that demands what the function promises answers yes only when    *)
(* the test has seen the promise: at each point of the function where it   *)
(* answers yes, the last thing that it can have seen of every entity of    *)
(* the promise, whatever the engine has done, is a status of the promise.  *)
THEOREM TrueWitnessed ==
    ASSUME \A c \in Library : \E P, X : Witnesses(P, X, c)
    PROVE  Spec => []TrueMeansSeen
<1>1. Init => WitnessInv
  BY InitWitnessInv
<1>2. WitnessInv /\ [Next]_vars => WitnessInv'
  BY NextWitnessInv
<1>3. WitnessInv => TrueMeansSeen
  <2> SUFFICES ASSUME WitnessInv, out[0] = call.yes, Demanded,
                      NEW e \in DOMAIN call.done
               PROVE  seen[e] \in call.done[e]
    BY DEF TrueMeansSeen
  <2>1. PICK PP, X :
            /\ Following(PP, X)
            /\ call.yes \notin {"running", "raised"}
            /\ \A p \in PP : call.yes \in Replies(p) =>
                \A x \in DOMAIN call.done :
                    x \in Tracked /\ p.know.seen[x] \subseteq call.done[x]
    BY DEF WitnessInv
  <2>2. PICK p \in PP : call.yes \in Replies(p) /\ Knows(p.know)
    BY <2>1 DEF Following
  <2>3. e \in Tracked /\ p.know.seen[e] \subseteq call.done[e]
    BY <2>1, <2>2
  <2>4. QED
    BY <2>2, <2>3 DEF Knows
<1>4. QED
  BY <1>1, <1>2, <1>3, PTL DEF Spec

(* A negative call answers True only when the engine has refused its       *)
(* request: the last request that was sent with the caller's sign before   *)
(* a point where the function answers True has been refused.               *)
THEOREM RefusalWitnessed ==
    ASSUME \A c \in Library : \E P, X : Refuses(P, X, c)
    PROVE  Spec => []NegativeMeansRefused
<1>1. Init => RefuseInv
  BY InitRefuseInv
<1>2. RefuseInv /\ [Next]_vars => RefuseInv'
  BY NextRefuseInv
<1>3. RefuseInv => NegativeMeansRefused
  <2> SUFFICES ASSUME RefuseInv, out[0] = "true",
                      "positive" \in call.flags \ call.args
               PROVE  verdict = "refused"
    BY DEF NegativeMeansRefused
  <2>1. PICK PP, X :
            /\ Following(PP, X)
            /\ \A p \in PP :
                "true" \in Replies(p) => p.know.verdict = "refused"
    BY DEF RefuseInv
  <2>2. PICK p \in PP : "true" \in Replies(p) /\ Knows(p.know)
    BY <2>1 DEF Following
  <2>3. QED
    BY <2>1, <2>2 DEF Knows
<1>4. QED
  BY <1>1, <1>2, <1>3, PTL DEF Spec
=============================================================================
