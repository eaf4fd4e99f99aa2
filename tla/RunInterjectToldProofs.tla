------------------------ MODULE RunInterjectToldProofs ------------------------
(***************************************************************************)
(* What a client is told of its messages stays true, for any set of        *)
(* messages and any number of recoveries.  To the invariant of             *)
(* RunInterjectProofs, Parts adds who waits for which answer, where a      *)
(* message stands and under which number, and what the answers on their    *)
(* way say of it.                                                          *)
(***************************************************************************)
EXTENDS RunInterjectProofs

-----------------------------------------------------------------------------
\* What the operations on queues do to the set of their elements.
LEMMA ToSetEmpty == ToSet(<<>>) = {}
BY DEF ToSet

LEMMA ToSetTyped ==
  ASSUME NEW S, NEW q \in Seq(S)  PROVE ToSet(q) \subseteq S
BY ElementOfSeq, LenProperties DEF ToSet

LEMMA ToSetAppend ==
  ASSUME NEW S, NEW q \in Seq(S), NEW x \in S
  PROVE  ToSet(Append(q, x)) = ToSet(q) \cup {x}
<1> DEFINE r == Append(q, x)
<1>1. /\ r \in Seq(S) /\ Len(r) = Len(q) + 1 /\ r[Len(q) + 1] = x
      /\ \A i \in 1..Len(q) : r[i] = q[i]
  BY AppendProperties
<1> HIDE DEF r
<1>2. Len(q) \in Nat /\ DOMAIN q = 1..Len(q) /\ DOMAIN r = 1..Len(q) + 1
  BY <1>1, LenProperties
<1>3. ToSet(r) \subseteq ToSet(q) \cup {x}
  BY <1>1, <1>2 DEF ToSet
<1>4. ToSet(q) \subseteq ToSet(r) /\ x \in ToSet(r)
  BY <1>1, <1>2 DEF ToSet
<1> QED BY <1>3, <1>4 DEF r

LEMMA ToSetConcat ==
  ASSUME NEW S, NEW q \in Seq(S), NEW r \in Seq(S)
  PROVE  ToSet(q \o r) = ToSet(q) \cup ToSet(r)
<1> DEFINE s == q \o r
<1>1. /\ s \in Seq(S) /\ Len(s) = Len(q) + Len(r)
      /\ \A i \in 1..Len(q) + Len(r) :
           s[i] = IF i <= Len(q) THEN q[i] ELSE r[i - Len(q)]
  BY ConcatProperties
<1> HIDE DEF s
<1>2. /\ Len(q) \in Nat /\ DOMAIN q = 1..Len(q)
      /\ Len(r) \in Nat /\ DOMAIN r = 1..Len(r)
      /\ DOMAIN s = 1..Len(q) + Len(r)
  BY <1>1, LenProperties
<1>3. ASSUME NEW x \in ToSet(s) PROVE x \in ToSet(q) \cup ToSet(r)
  <2>1. PICK i \in DOMAIN s : x = s[i]
    BY DEF ToSet
  <2>2. CASE i <= Len(q)
    BY <1>1, <1>2, <2>1, <2>2 DEF ToSet
  <2>3. CASE ~(i <= Len(q))
    <3>1. i - Len(q) \in DOMAIN r /\ x = r[i - Len(q)]
      BY <1>1, <1>2, <2>1, <2>3
    <3> QED BY <3>1 DEF ToSet
  <2> QED BY <2>2, <2>3
<1>4. ASSUME NEW x \in ToSet(q) PROVE x \in ToSet(s)
  <2>1. PICK i \in DOMAIN q : x = q[i]
    BY DEF ToSet
  <2>2. i \in DOMAIN s /\ s[i] = x
    BY <1>1, <1>2, <2>1
  <2> QED BY <2>2 DEF ToSet
<1>5. ASSUME NEW x \in ToSet(r) PROVE x \in ToSet(s)
  <2>1. PICK i \in DOMAIN r : x = r[i]
    BY DEF ToSet
  <2>2. i + Len(q) \in DOMAIN s /\ s[i + Len(q)] = x
    BY <1>1, <1>2, <2>1
  <2> QED BY <2>2 DEF ToSet
<1> QED BY <1>3, <1>4, <1>5 DEF s

LEMMA ToSetHeadTail ==
  ASSUME NEW S, NEW q \in Seq(S), q # <<>>
  PROVE  Head(q) \in S /\ ToSet(q) = {Head(q)} \cup ToSet(Tail(q))
<1> DEFINE t == Tail(q)
<1>1. /\ Head(q) = q[1] /\ Head(q) \in S /\ t \in Seq(S) /\ Len(t) = Len(q) - 1
      /\ \A i \in 1..Len(t) : t[i] = q[i + 1]
  BY HeadTailProperties
<1> HIDE DEF t
<1>2. /\ Len(q) \in Nat /\ Len(q) # 0 /\ DOMAIN q = 1..Len(q)
      /\ DOMAIN t = 1..Len(q) - 1
  BY <1>1, EmptySeq, LenProperties
<1>3. ASSUME NEW x \in ToSet(q) PROVE x = Head(q) \/ x \in ToSet(t)
  <2>1. PICK i \in DOMAIN q : x = q[i]
    BY DEF ToSet
  <2>2. CASE i # 1
    <3>1. i - 1 \in DOMAIN t /\ t[i - 1] = x
      BY <1>1, <1>2, <2>1, <2>2
    <3> QED BY <3>1 DEF ToSet
  <2> QED BY <1>1, <2>1, <2>2
<1>4. ASSUME NEW x \in ToSet(t) PROVE x \in ToSet(q)
  <2>1. PICK i \in DOMAIN t : x = t[i]
    BY DEF ToSet
  <2>2. i + 1 \in DOMAIN q /\ q[i + 1] = x
    BY <1>1, <1>2, <2>1
  <2> QED BY <2>2 DEF ToSet
<1>5. Head(q) \in ToSet(q)
  BY <1>1, <1>2 DEF ToSet
<1> QED BY <1>1, <1>3, <1>4, <1>5 DEF t

LEMMA ContainsMember ==
  ASSUME NEW S, NEW q \in Seq(S), NEW x
  PROVE  Contains(q, x) <=> x \in ToSet(q)
BY LenProperties DEF Contains, ToSet

\* Taking the elements with one number out leaves the others.
LEMMA WithoutSet ==
  ASSUME NEW S, NEW q \in Seq(S), NEW n
  PROVE  /\ ToSet(Without(q, n)) \subseteq ToSet(q)
         /\ \A x \in ToSet(q) : x.seq # n => x \in ToSet(Without(q, n))
<1>1. CASE Without(q, n) = q
  BY <1>1
<1>2. ASSUME NEW k \in 1..Len(q), q[k].seq = n, Without(q, n) = RemoveAt(q, k)
      PROVE  \A x \in ToSet(q) : x.seq # n => x \in ToSet(RemoveAt(q, k))
  <2> DEFINE r == RemoveAt(q, k)
  <2>1. /\ r \in Seq(S) /\ Len(r) = Len(q) - 1
        /\ \A i \in 1..Len(q) - 1 : r[i] = IF i < k THEN q[i] ELSE q[i + 1]
    BY RemoveAtElements
  <2> HIDE DEF r
  <2>2. Len(q) \in Nat /\ DOMAIN q = 1..Len(q) /\ DOMAIN r = 1..Len(q) - 1
    BY <2>1, LenProperties
  <2>3. ASSUME NEW i \in DOMAIN q, q[i].seq # n PROVE q[i] \in ToSet(r)
    <3>1. CASE i < k
      <4>1. i \in DOMAIN r /\ r[i] = q[i]
        BY <2>1, <2>2, <3>1
      <4> QED BY <4>1 DEF ToSet
    <3>2. CASE ~(i < k)
      <4>1. i # k
        BY <1>2, <2>3
      <4>2. i - 1 \in DOMAIN r /\ r[i - 1] = q[i]
        BY <2>1, <2>2, <3>2, <4>1
      <4> QED BY <4>2 DEF ToSet
    <3> QED BY <3>1, <3>2
  <2> QED BY <2>3 DEF ToSet, r
<1>3. ToSet(Without(q, n)) \subseteq ToSet(q)
  BY WithoutKeeps DEF ToSet
<1> QED BY <1>1, <1>2, <1>3, WithoutRemoves

-----------------------------------------------------------------------------
\* RisesPast(q, n): past the number n no element of q comes before one with the
\* same or a lower number.
RisesPast(q, n) ==
  \A i, j \in DOMAIN q : i < j /\ q[j].seq > n => q[i].seq < q[j].seq

LEMMA RisesPastEmpty == \A n : RisesPast(<<>>, n)
BY DEF RisesPast

LEMMA RisesFurther ==
  ASSUME NEW q \in Seq(Item), NEW n \in Int, NEW k \in Int, n <= k, RisesPast(q, n)
  PROVE  RisesPast(q, k)
<1>1. \A i \in DOMAIN q : q[i] \in Item /\ q[i].seq \in Nat
  <2>1. \A i \in DOMAIN q : q[i] \in Item
    BY ElementOfSeq, LenProperties
  <2> QED BY <2>1 DEF Item
<1> QED BY <1>1 DEF RisesPast

LEMMA RisesAppend ==
  ASSUME NEW q \in Seq(Item), NEW x \in Item, NEW n \in Int, RisesPast(q, n),
         \A y \in ToSet(q) : y.seq < x.seq
  PROVE  RisesPast(Append(q, x), n)
<1> DEFINE r == Append(q, x)
<1>1. /\ r \in Seq(Item) /\ Len(r) = Len(q) + 1 /\ r[Len(q) + 1] = x
      /\ \A i \in 1..Len(q) : r[i] = q[i]
  BY AppendProperties
<1> HIDE DEF r
<1>2. Len(q) \in Nat /\ DOMAIN q = 1..Len(q) /\ DOMAIN r = 1..Len(q) + 1
  BY <1>1, LenProperties
<1>3. SUFFICES ASSUME NEW i \in DOMAIN r, NEW j \in DOMAIN r, i < j, r[j].seq > n
               PROVE  r[i].seq < r[j].seq
  BY DEF RisesPast, r
<1>4. i \in 1..Len(q) /\ r[i] = q[i]
  BY <1>1, <1>2, <1>3
<1>5. CASE j = Len(q) + 1
  <2>1. q[i] \in ToSet(q)
    BY <1>2, <1>4 DEF ToSet
  <2> QED BY <1>1, <1>4, <1>5, <2>1
<1>6. CASE j # Len(q) + 1
  <2>1. j \in 1..Len(q) /\ r[j] = q[j]
    BY <1>1, <1>2, <1>6
  <2> QED BY <1>2, <1>3, <1>4, <2>1 DEF RisesPast
<1> QED BY <1>5, <1>6

LEMMA RisesConcat ==
  ASSUME NEW q \in Seq(Item), NEW r \in Seq(Item), NEW n \in Int, RisesPast(r, n),
         \A x \in ToSet(q) : x.seq <= n
  PROVE  RisesPast(q \o r, n)
<1> DEFINE s == q \o r
<1>1. /\ s \in Seq(Item) /\ Len(s) = Len(q) + Len(r)
      /\ \A i \in 1..Len(q) + Len(r) :
           s[i] = IF i <= Len(q) THEN q[i] ELSE r[i - Len(q)]
  BY ConcatProperties
<1> HIDE DEF s
<1>2. /\ Len(q) \in Nat /\ DOMAIN q = 1..Len(q)
      /\ Len(r) \in Nat /\ DOMAIN r = 1..Len(r)
      /\ DOMAIN s = 1..Len(q) + Len(r)
  BY <1>1, LenProperties
<1>3. SUFFICES ASSUME NEW i \in DOMAIN s, NEW j \in DOMAIN s, i < j, s[j].seq > n
               PROVE  s[i].seq < s[j].seq
  BY DEF RisesPast, s
<1>4. ASSUME NEW k \in DOMAIN s, k <= Len(q)
      PROVE  s[k].seq <= n /\ s[k].seq \in Nat
  <2>1. k \in DOMAIN q /\ s[k] = q[k]
    BY <1>1, <1>2, <1>4
  <2>2. q[k] \in ToSet(q) /\ q[k] \in Item
    BY <2>1, ElementOfSeq, LenProperties DEF ToSet
  <2> QED BY <2>1, <2>2 DEF Item
<1>5. ASSUME NEW k \in DOMAIN s, ~(k <= Len(q))
      PROVE  k - Len(q) \in DOMAIN r /\ s[k] = r[k - Len(q)] /\ s[k].seq \in Nat
  <2>1. k - Len(q) \in DOMAIN r /\ s[k] = r[k - Len(q)]
    BY <1>1, <1>2, <1>5
  <2>2. r[k - Len(q)] \in Item
    BY <2>1, ElementOfSeq, LenProperties
  <2> QED BY <2>1, <2>2 DEF Item
<1>6. i \in Nat /\ j \in Nat
  BY <1>2
<1>7. ~(j <= Len(q))
  BY <1>2, <1>3, <1>4, <1>6
<1>8. CASE i <= Len(q)
  BY <1>3, <1>4, <1>5, <1>7, <1>8
<1>9. CASE ~(i <= Len(q))
  <2>1. i - Len(q) < j - Len(q)
    BY <1>2, <1>3, <1>6
  <2> QED BY <1>3, <1>5, <1>7, <1>9, <2>1 DEF RisesPast
<1> QED BY <1>8, <1>9

LEMMA RisesWithout ==
  ASSUME NEW q \in Seq(Item), NEW n \in Int, NEW k \in Int, RisesPast(q, k)
  PROVE  /\ RisesPast(Without(q, n), k)
         /\ n > k => \A x \in ToSet(Without(q, n)) : x.seq # n
<1>1. CASE Without(q, n) = q /\ \A i \in 1..Len(q) : q[i].seq # n
  BY <1>1, LenProperties DEF ToSet
<1>2. ASSUME NEW p \in 1..Len(q), q[p].seq = n
      PROVE  /\ RisesPast(RemoveAt(q, p), k)
             /\ n > k => \A x \in ToSet(RemoveAt(q, p)) : x.seq # n
  <2> DEFINE r == RemoveAt(q, p)
             at(i) == IF i < p THEN i ELSE i + 1
  <2>1. /\ r \in Seq(Item) /\ Len(r) = Len(q) - 1
        /\ \A i \in 1..Len(q) - 1 : r[i] = IF i < p THEN q[i] ELSE q[i + 1]
    BY RemoveAtElements
  <2> HIDE DEF r
  <2>2. Len(q) \in Nat /\ DOMAIN q = 1..Len(q) /\ DOMAIN r = 1..Len(q) - 1
    BY <2>1, LenProperties
  <2>3. \A i \in DOMAIN r : r[i] = q[at(i)] /\ at(i) \in DOMAIN q /\ at(i) # p
    BY <2>1, <2>2
  <2>4. \A i, j \in DOMAIN r : i < j => at(i) < at(j)
    BY <2>2
  <2> HIDE DEF at
  <2>5. RisesPast(r, k)
    BY <2>3, <2>4 DEF RisesPast
  <2>6. \A i \in DOMAIN q : q[i].seq \in Int
    <3>1. \A i \in DOMAIN q : q[i] \in Item
      BY ElementOfSeq, <2>2
    <3> QED BY <3>1 DEF Item
  <2>7. ASSUME n > k, NEW i \in DOMAIN q, i # p PROVE q[i].seq # n
    <3>1. i < p \/ p < i
      BY <2>2, <2>7
    <3> QED BY <1>2, <2>2, <2>6, <2>7, <3>1 DEF RisesPast
  <2>8. n > k => \A x \in ToSet(r) : x.seq # n
    BY <2>3, <2>7 DEF ToSet
  <2> QED BY <2>5, <2>8 DEF r
<1> QED BY <1>1, <1>2, WithoutRemoves

-----------------------------------------------------------------------------
\* The callers that wait for the store, in the order they are served.
Waits(c) == \E e \in ToSet(asked) : e.by = c
Precedes(c, d) ==
  \E i, j \in DOMAIN asked : i < j /\ asked[i].by = c /\ asked[j].by = d

LEMMA AskWaits ==
  ASSUME asked \in Seq(Calls), NEW c, NEW kind, NEW item, Ask(c, kind, item),
         [by |-> c, kind |-> kind, item |-> item] \in Calls
  PROVE  /\ ToSet(asked)' = ToSet(asked) \cup {[by |-> c, kind |-> kind, item |-> item]}
         /\ \A d : Waits(d)' <=> Waits(d) \/ d = c
         /\ \A d, e : Precedes(d, e)' <=> Precedes(d, e) \/ (Waits(d) /\ e = c)
<1> DEFINE call == [by |-> c, kind |-> kind, item |-> item]
<1>1. call.by = c
  OBVIOUS
<1> HIDE DEF call
<1>2. asked' = Append(asked, call) /\ call \in Calls
  BY DEF Ask, call
<1>3. ToSet(asked)' = ToSet(asked) \cup {call}
  BY <1>2, ToSetAppend
<1>4. /\ Len(asked') = Len(asked) + 1 /\ asked'[Len(asked) + 1] = call
      /\ \A i \in 1..Len(asked) : asked'[i] = asked[i]
      /\ Len(asked) \in Nat /\ DOMAIN asked = 1..Len(asked)
      /\ DOMAIN asked' = 1..Len(asked) + 1
  BY <1>2, AppendProperties, LenProperties
<1>5. \A d : Waits(d)' <=> Waits(d) \/ d = c
  BY <1>1, <1>3 DEF Waits
<1>6. ASSUME NEW d, NEW e, Precedes(d, e)' PROVE Precedes(d, e) \/ (Waits(d) /\ e = c)
  <2>1. PICK i \in DOMAIN asked', j \in DOMAIN asked' :
          i < j /\ asked'[i].by = d /\ asked'[j].by = e
    BY <1>6 DEF Precedes
  <2>2. i \in DOMAIN asked /\ asked[i].by = d
    BY <1>4, <2>1
  <2>3. Waits(d)
    BY <2>2 DEF Waits, ToSet
  <2>4. CASE j = Len(asked) + 1
    BY <1>1, <1>4, <2>1, <2>3, <2>4
  <2>5. CASE j # Len(asked) + 1
    <3>1. j \in DOMAIN asked /\ asked[j].by = e
      BY <1>4, <2>1, <2>5
    <3> QED BY <2>1, <2>2, <3>1 DEF Precedes
  <2> QED BY <2>4, <2>5
<1>7. ASSUME NEW d, NEW e, Precedes(d, e) PROVE Precedes(d, e)'
  <2>1. PICK i \in DOMAIN asked, j \in DOMAIN asked :
          i < j /\ asked[i].by = d /\ asked[j].by = e
    BY <1>7 DEF Precedes
  <2>2. i \in DOMAIN asked' /\ j \in DOMAIN asked' /\ asked'[i].by = d /\ asked'[j].by = e
    BY <1>4, <2>1
  <2> QED BY <2>1, <2>2 DEF Precedes
<1>8. ASSUME NEW d, Waits(d) PROVE Precedes(d, c)'
  <2>1. PICK i \in DOMAIN asked : asked[i].by = d
    BY <1>8 DEF Waits, ToSet
  <2>2. /\ i \in DOMAIN asked' /\ asked'[i].by = d
        /\ Len(asked) + 1 \in DOMAIN asked' /\ asked'[Len(asked) + 1].by = c
        /\ i < Len(asked) + 1
    BY <1>1, <1>4, <2>1
  <2> QED BY <2>2 DEF Precedes
<1> QED BY <1>3, <1>5, <1>6, <1>7, <1>8 DEF call

LEMMA ServeWaits ==
  ASSUME asked \in Seq(Calls), asked # <<>>, asked' = Tail(asked),
         \A c : ~Precedes(c, c)
  PROVE  /\ Head(asked) \in ToSet(asked)
         /\ ToSet(asked)' \subseteq ToSet(asked)
         /\ \A e \in ToSet(asked)' : e.by # Head(asked).by
         /\ \A c : Waits(c)' <=> Waits(c) /\ c # Head(asked).by
         /\ \A c, d : Precedes(c, d)' <=> Precedes(c, d) /\ c # Head(asked).by
         /\ \A c : ~Precedes(c, Head(asked).by)
<1> DEFINE h == Head(asked)
<1>1. /\ h = asked[1] /\ h \in Calls /\ asked' \in Seq(Calls)
      /\ Len(asked') = Len(asked) - 1
      /\ \A i \in 1..Len(asked') : asked'[i] = asked[i + 1]
      /\ ToSet(asked) = {h} \cup ToSet(asked)'
  BY HeadTailProperties, ToSetHeadTail
<1> HIDE DEF h
<1>2. /\ Len(asked) \in Nat /\ Len(asked) # 0 /\ DOMAIN asked = 1..Len(asked)
      /\ DOMAIN asked' = 1..Len(asked) - 1
  BY <1>1, EmptySeq, LenProperties
<1>3. \A i \in DOMAIN asked' : i + 1 \in DOMAIN asked /\ asked'[i] = asked[i + 1]
  BY <1>1, <1>2
<1>4. \A i \in DOMAIN asked : i # 1 => i - 1 \in DOMAIN asked' /\ asked'[i - 1] = asked[i]
  BY <1>1, <1>2
<1>5. ASSUME NEW i \in DOMAIN asked, i # 1 PROVE asked[i].by # h.by
  <2>1. 1 \in DOMAIN asked /\ 1 < i
    BY <1>2, <1>5
  <2> QED BY <1>1, <2>1 DEF Precedes
<1>6. \A e \in ToSet(asked)' : e.by # h.by
  <2>1. \A i \in DOMAIN asked' : i + 1 # 1
    BY <1>2
  <2>2. \A i \in DOMAIN asked' : asked'[i].by # h.by
    BY <1>3, <1>5, <2>1
  <2> QED BY <2>2 DEF ToSet
<1>7. \A c : Waits(c)' <=> Waits(c) /\ c # h.by
  BY <1>1, <1>6 DEF Waits
<1>8. ASSUME NEW c, NEW d, Precedes(c, d)' PROVE Precedes(c, d) /\ c # h.by
  <2>1. PICK i \in DOMAIN asked', j \in DOMAIN asked' :
          i < j /\ asked'[i].by = c /\ asked'[j].by = d
    BY <1>8 DEF Precedes
  <2>2. i + 1 < j + 1 /\ i + 1 # 1
    BY <1>2, <2>1
  <2> QED BY <1>3, <1>5, <2>1, <2>2 DEF Precedes
<1>9. ASSUME NEW c, NEW d, Precedes(c, d), c # h.by PROVE Precedes(c, d)'
  <2>1. PICK i \in DOMAIN asked, j \in DOMAIN asked :
          i < j /\ asked[i].by = c /\ asked[j].by = d
    BY <1>9 DEF Precedes
  <2>2. i # 1
    BY <1>1, <1>9, <2>1
  <2>3. j # 1 /\ i - 1 < j - 1
    BY <1>2, <2>1, <2>2
  <2> QED BY <1>4, <2>1, <2>2, <2>3 DEF Precedes
<1>10. ASSUME NEW c, Precedes(c, h.by) PROVE FALSE
  <2>1. PICK i \in DOMAIN asked, j \in DOMAIN asked :
          i < j /\ asked[i].by = c /\ asked[j].by = h.by
    BY <1>10 DEF Precedes
  <2>2. j # 1
    BY <1>2, <2>1
  <2> QED BY <1>5, <2>1, <2>2
<1> QED BY <1>1, <1>6, <1>7, <1>8, <1>9, <1>10 DEF h

LEMMA PrecedesOne ==
  ASSUME NEW c, NEW d, Precedes(c, d)  PROVE Waits(c) /\ Waits(d)
BY DEF Precedes, Waits, ToSet

-----------------------------------------------------------------------------
\* The inductive invariant, in parts.

\* The one item a message can stand in.
Own(m) == [seq |-> mine[m], msg |-> m]
InHand == pc \in {"enqueue", "claim", "append", "complete"}
\* What the checkpoint still has to give, as a set.
Held == ToSet(pending) \cup ({applying} \ {NoItem})
Sending(m) == Waits(m) /\ told[m] = "sending"

\* A call in the store's queue is one its caller is waiting in.
Sensible(e) ==
  \/ /\ e.by \in Message /\ e.item = Own(e.by)
     /\ \/ e.kind = "enqueue" /\ told[e.by] = "sending"
        \/ e.kind = "cancel" /\ told[e.by] = "cancelling"
  \/ /\ e.by = Loop
     /\ \/ e.kind = pc /\ pc \in {"enqueue", "claim", "complete"} /\ e.item = cur
        \/ e.kind \in {"settle", "discard"} /\ pc \in {"commit", "commitFailure"}
        \/ e.kind = "round" /\ pc = "recovering"

\* A caller has one call or one answer at a time, and one answer is out at most.
Asks ==
  /\ \A c : ~Precedes(c, c)
  /\ \A e \in ToSet(asked) : reply[e.by] = "none" /\ Sensible(e)
  /\ \A c, d \in Caller : reply[c] # "none" /\ reply[d] # "none" => c = d
  /\ \A m \in Message : reply[m] # "none" => told[m] \in {"sending", "cancelling"}
  /\ reply[Loop] # "none" =>
       pc \in {"enqueue", "claim", "complete", "commit", "commitFailure", "recovering"}

\* Wherever a message stands, it stands under the number it was given.
Owned ==
  /\ \A x \in ToSet(items) \cup Held \cup ToSet(transcript) \cup ToSet(listed.queue) :
       told[x.msg] # "nothing" /\ x.seq = mine[x.msg]
  /\ InHand => told[cur.msg] # "nothing" /\ cur.seq = mine[cur.msg]

\* The checkpoint gives a number to one message, and no message enters before its
\* first request is served.
Entries ==
  /\ \A x \in Held \cup ToSet(transcript) \cup ToSet(listed.queue) : x.msg \in entered
  /\ \A m \in entered : told[m] # "nothing" /\ mine[m] <= interjectSeq
  /\ \A m, n \in entered : mine[m] = mine[n] => m = n
  /\ \A m \in Message : Sending(m) =>
       /\ m \notin entered
       /\ InHand /\ cur = Own(m) => pc = "enqueue" /\ Precedes(m, Loop)

\* The transcript was taken from the front of the queue.
InTurn ==
  \A y \in ToSet(transcript) :
    /\ \A x \in ToSet(pending) : y.seq < x.seq
    /\ applying # NoItem => y.seq <= applying.seq

\* What each stage of the loop knows of the checkpoint.
Stages ==
  /\ pc \notin {"off", "recovering"} /\ status # "running" =>
       pc \in {"commit", "commitFailure"} /\ reply[Loop] = "ok"
  /\ pc = "recovering" /\ reply[Loop] = "ok" => status = "running"
  /\ status # "running" => pending = <<>> /\ applying = NoItem
  /\ pc = "off" => items = <<>> /\ received = 0 /\ ~aborted
  /\ pc \in {"enqueue", "claim"} /\ reply[Loop] = "not_pending" =>
       cur.seq <= interjectSeq /\ \A x \in Held : x.seq # cur.seq
  /\ pc = "claim" \/ (pc = "enqueue" /\ reply[Loop] = "ok") => cur.msg \in entered
  /\ \/ pc = "append"
     \/ pc = "claim" /\ reply[Loop] = "ok"
     \/ pc = "complete" /\ reply[Loop] # "ok"
     => applying = cur
  /\ pc = "complete" =>
       cur \in ToSet(transcript) /\ (reply[Loop] = "ok" => applying = NoItem)

\* What the store's answers, consumed or not, say of a message.
Said ==
  \A m \in Message :
    /\ \/ told[m] \in {"accepted", "kept"}
       \/ told[m] = "cancelling" /\ reply[m] # "ok"
       \/ told[m] = "sending" /\ reply[m] = "ok"
       => /\ m \in entered
          /\ status # "aborted" => Own(m) \in Held \cup ToSet(transcript)
    /\ told[m] = "cancelled" \/ (told[m] = "cancelling" /\ reply[m] = "ok")
       => m \in entered /\ Own(m) \notin Held \cup ToSet(transcript)

\* The buffer's numbers rise past the checkpoint's count.
Numbered ==
  /\ RisesPast(items, interjectSeq)
  /\ \A x \in ToSet(items) : x.seq <= received
  /\ pc = "enqueue" => cur.seq <= received
  /\ \A x \in ToSet(listed.queue) : x.seq <= listed.seq
  /\ listed.seq <= interjectSeq

\* First requests with a number up to x's are served before x's own.
Behind(x) ==
  \/ x.seq <= interjectSeq
  \/ \A m \in Message : Sending(m) =>
       mine[m] > x.seq \/ m = x.msg \/ Precedes(m, x.msg)
Served == /\ \A x \in ToSet(items) : Behind(x)
          /\ pc = "enqueue" => Behind(cur)

\* A refused message can never enter: its number is taken or the run is over, or
\* it has left the buffer and the loop's own request for it, if there is one, is
\* refused as well.
Never(m) == status # "running" \/ mine[m] <= interjectSeq
Refused(m) ==
  \/ told[m] = "refused"
  \/ told[m] = "sending" /\ reply[m] \in {"conflict", "not_pending", "terminal"}
Refusals ==
  \A m \in Message : Refused(m) =>
    /\ m \notin entered
    /\ \/ Never(m) \/ aborted \/ Own(m) \notin ToSet(items)
       \/ told[m] = "sending" /\ mine[m] > interjectSeq + 1
    /\ pc = "enqueue" /\ cur = Own(m) /\ reply[Loop] = "none" =>
         \/ Never(m)
         \/ /\ mine[m] > interjectSeq + 1
            /\ \A n \in Message : Sending(n) => mine[n] > mine[m]

Parts == /\ Asks /\ Owned /\ Entries /\ InTurn /\ Stages /\ Said /\ Numbered
         /\ Served /\ Refusals
IInv == Inv /\ Parts

-----------------------------------------------------------------------------
\* What the types say of all that.
Owns(m) == Own(m) \in Item /\ Own(m).seq = mine[m] /\ Own(m).msg = m
Shapes ==
  /\ {items, pending, transcript, listed.queue} \subseteq Seq(Item)
  /\ asked \in Seq(Calls)
  /\ ToSet(items) \subseteq Item /\ Held \subseteq Item /\ ToSet(pending) \subseteq Item
  /\ ToSet(transcript) \subseteq Item /\ ToSet(listed.queue) \subseteq Item
  /\ received \in Nat /\ interjectSeq \in Nat /\ listed.seq \in Int
  /\ reply \in [Caller -> Codes] /\ mine \in [Message -> Nat]
  /\ told \in [Message -> {"nothing", "sending", "accepted", "refused",
                           "unsure", "cancelling", "cancelled", "kept"}]
  /\ entered \subseteq Message /\ applying \in Item \cup {NoItem}
  /\ InHand => cur \in Item
  /\ \A m \in Message : Owns(m)
  /\ \A x \in Item : x.seq = mine[x.msg] => x = Own(x.msg)

LEMMA ItemFields ==
  /\ \A x \in Item : x.msg \in Message /\ x.seq \in Nat /\ x.msg # Loop /\ x # NoItem
  /\ NoItem.seq = 0 /\ NoItem.msg = Loop /\ Loop \notin Message
  /\ Loop \in Caller /\ Message \subseteq Caller /\ Caller \subseteq Message \cup {Loop}
  /\ \A x, y \in Item : x.seq = y.seq /\ x.msg = y.msg => x = y
BY RunInterjectAssumption DEF Item, NoItem, Caller

LEMMA InvShapes == Inv => Shapes
<1> SUFFICES ASSUME Inv PROVE Shapes
  OBVIOUS
<1>1. /\ {items, pending, transcript, listed.queue} \subseteq Seq(Item)
      /\ asked \in Seq(Calls)
      /\ received \in Nat /\ interjectSeq \in Nat /\ listed.seq \in Int
      /\ reply \in [Caller -> Codes] /\ entered \subseteq Message
      /\ applying \in Item \cup {NoItem}
  BY DEF Inv, Types, BufferTypeOK, CheckpointTypeOK, CallTypeOK, RecoveryTypeOK,
         Calls, Kinds, Codes
<1>2. mine \in [Message -> Nat]
      /\ told \in [Message -> {"nothing", "sending", "accepted", "refused",
                               "unsure", "cancelling", "cancelled", "kept"}]
  BY DEF Inv, Types, ClientTypeOK
<1>3. ToSet(items) \subseteq Item /\ ToSet(pending) \subseteq Item
      /\ ToSet(transcript) \subseteq Item /\ ToSet(listed.queue) \subseteq Item
  BY <1>1, ToSetTyped
<1>4. Held \subseteq Item
  BY <1>1, <1>3 DEF Held
<1>5. InHand => cur \in Item
  BY DEF Inv, Carried, InHand
<1>6. \A m \in Message : Owns(m)
  BY <1>2 DEF Owns, Own, Item
<1>7. \A x \in Item : x.seq = mine[x.msg] => x = Own(x.msg)
  BY <1>2 DEF Own, Item
<1> QED BY <1>1, <1>2, <1>3, <1>4, <1>5, <1>6, <1>7 DEF Shapes

LEMMA BothShapes == Inv /\ Inv' => Shapes /\ Shapes'
BY InvShapes, PTL

\* The two parts of Shapes that most steps need, each without the other.
LEMMA Counts ==
  ASSUME Shapes
  PROVE  /\ items \in Seq(Item) /\ ToSet(items) \subseteq Item
         /\ pending \in Seq(Item)
         /\ listed.queue \in Seq(Item) /\ ToSet(listed.queue) \subseteq Item
         /\ received \in Nat /\ interjectSeq \in Nat /\ listed.seq \in Int
         /\ InHand => cur \in Item
BY DEF Shapes

LEMMA Owning ==
  ASSUME Shapes
  PROVE  /\ \A m \in Message : Own(m) \in Item /\ Own(m).seq = mine[m]
                                /\ Own(m).msg = m /\ mine[m] \in Nat
         /\ \A x \in Item : x.seq = mine[x.msg] => x = Own(x.msg)
BY DEF Shapes, Owns

LEMMA QueueHeld ==
  ASSUME CheckpointTypeOK
  PROVE  /\ ToSet(Queue) = Held
         /\ \A n : Known(n) <=> \E x \in Held : x.seq = n
         /\ \A x : Contains(Queue, x) <=> x \in Held
<1>1. Queue \in Seq(Item) /\ pending \in Seq(Item) /\ <<>> \in Seq(Item)
  BY QueueTyped, EmptySeq DEF CheckpointTypeOK
<1>2. ToSet(Queue) = Held
  <2>1. CASE applying = NoItem
    BY <1>1, <2>1, ConcatEmptySeq DEF Queue, Held
  <2>2. CASE applying # NoItem
    <3> DEFINE first == <<applying>>
    <3>1. first \in Seq(Item) /\ ToSet(first) = {applying}
      BY <2>2 DEF CheckpointTypeOK, ToSet
    <3>2. Queue = first \o pending
      BY <2>2 DEF Queue
    <3> HIDE DEF first
    <3>3. ToSet(first \o pending) = {applying} \cup ToSet(pending)
      BY <1>1, <3>1, ToSetConcat
    <3> QED BY <2>2, <3>2, <3>3 DEF Held
  <2> QED BY <2>1, <2>2
<1> QED BY <1>1, <1>2, ContainsMember DEF Known

LEMMA InitParts == Init => Parts
<1> SUFFICES ASSUME Init PROVE Parts
  OBVIOUS
<1> USE ToSetEmpty, RisesPastEmpty
<1>1. Asks
  BY ItemFields DEF Init, Asks, Precedes
<1>2. Owned /\ Entries /\ InTurn
  BY DEF Init, Owned, InHand, Held, Entries, Sending, Waits, InTurn, NoListing
<1>3. Stages
  BY DEF Init, Stages
<1>4. Said
  BY DEF Init, Said
<1>5. Numbered /\ Served
  BY DEF Init, Numbered, Served, NoListing
<1>6. Refusals
  BY DEF Init, Refusals, Refused
<1> QED BY <1>1, <1>2, <1>3, <1>4, <1>5, <1>6 DEF Parts

-----------------------------------------------------------------------------
\* The store.  The head of its queue is served; everybody else goes on waiting.
Serves(h, code) ==
  /\ h \in Caller /\ Waits(h) /\ reply'[h] = code
  /\ \A c \in Caller : reply[c] = "none" /\ (c # h => reply'[c] = "none")
  /\ \A c : Waits(c)' <=> Waits(c) /\ c # h
  /\ \A c, d : Precedes(c, d)' <=> Precedes(c, d) /\ c # h
  /\ \A c : ~Precedes(c, h)
  /\ UNCHANGED <<bufferVars, aborted, pc, cur, outcome, told, mine, listed>>

LEMMA ServesHead ==
  ASSUME IInv, Inv', NEW kind, Turn(kind), NEW code, Answer(code),
         UNCHANGED OutsideStore
  PROVE  /\ Serves(Head(asked).by, code) /\ Asks'
         /\ Sensible(Head(asked)) /\ Head(asked).kind = kind
<1>0. Shapes /\ Shapes'
  BY BothShapes DEF IInv
<1>1. /\ Head(asked) \in ToSet(asked)
      /\ ToSet(asked)' \subseteq ToSet(asked)
      /\ \A e \in ToSet(asked)' : e.by # Head(asked).by
      /\ \A c : Waits(c)' <=> Waits(c) /\ c # Head(asked).by
      /\ \A c, d : Precedes(c, d)' <=> Precedes(c, d) /\ c # Head(asked).by
      /\ \A c : ~Precedes(c, Head(asked).by)
  BY <1>0, ServeWaits DEF Turn, Answer, Shapes, IInv, Parts, Asks
<1>2. Sensible(Head(asked)) /\ Head(asked).by \in Caller
  BY <1>1, ItemFields DEF IInv, Parts, Asks, Sensible
<1>3. UNCHANGED <<bufferVars, aborted, pc, cur, outcome, told, mine, listed>>
  BY DEF OutsideStore, loopVars, clientVars, recoveryVars
<1>4. /\ reply'[Head(asked).by] = code
      /\ \A c \in Caller : reply[c] = "none"
           /\ (c # Head(asked).by => reply'[c] = "none")
  BY <1>0, <1>2 DEF Answer, Turn, Shapes
<1>5. Serves(Head(asked).by, code)
  BY <1>1, <1>2, <1>3, <1>4 DEF Serves, Waits
<1>6. \A e \in ToSet(asked)' : Sensible(e)'
  BY <1>1, <1>3 DEF IInv, Parts, Asks, Sensible, Own
<1>7. \A e \in ToSet(asked)' : reply'[e.by] = "none"
  BY <1>1, <1>4, ItemFields DEF IInv, Parts, Asks, Sensible
<1>8. \A c, d \in Caller : reply'[c] # "none" /\ reply'[d] # "none" => c = d
  BY <1>4
<1>9. \A m \in Message : reply'[m] # "none" => told'[m] \in {"sending", "cancelling"}
  BY <1>2, <1>3, <1>4, ItemFields DEF Sensible
<1>10. reply'[Loop] # "none" =>
         pc' \in {"enqueue", "claim", "complete", "commit", "commitFailure", "recovering"}
  BY <1>2, <1>3, <1>4, ItemFields DEF Sensible
<1>11. \A c : ~Precedes(c, c)'
  BY <1>1 DEF IInv, Parts, Asks
<1> QED BY <1>2, <1>5, <1>6, <1>7, <1>8, <1>9, <1>10, <1>11 DEF Asks, Turn

LEMMA HeldEntered ==
  ASSUME Shapes, Entries
  PROVE  /\ \A m \in Message : Own(m) \in Held => m \in entered
         /\ \A m \in Message : Own(m) \in ToSet(transcript) => m \in entered
<1>1. \A x \in Held : x.msg \in entered
  BY DEF Entries
<1>2. \A x \in ToSet(transcript) : x.msg \in entered
  BY DEF Entries
<1>3. \A m \in Message : Own(m).msg = m
  BY DEF Shapes, Owns
<1> QED BY <1>1, <1>2, <1>3

\* An answer that goes with no write.
Fits(e, code) ==
  /\ e.by \in Message /\ told[e.by] = "sending" =>
       /\ code = "ok" => e.item \in Held
       /\ code \in {"conflict", "not_pending", "terminal"} =>
            Never(e.by) \/ mine[e.by] > interjectSeq + 1
  /\ e.by \in Message /\ told[e.by] = "cancelling" => code # "ok"
  /\ e.by = Loop =>
       /\ pc = "recovering" /\ code = "ok" => status = "running"
       /\ pc = "enqueue" /\ code = "ok" => cur.msg \in entered
       /\ pc = "claim" /\ code = "ok" => applying = cur
       /\ pc \in {"enqueue", "claim"} /\ code = "not_pending" =>
            cur.seq <= interjectSeq /\ \A x \in Held : x.seq # cur.seq
       /\ pc = "complete" => code # "ok"

LEMMA UnwrittenKeeps ==
  ASSUME IInv, Inv', NEW kind, Turn(kind), NEW code, Answer(code),
         UNCHANGED OutsideStore, UNCHANGED durableVars, Fits(Head(asked), code)
  PROVE  Parts'
<1> DEFINE h == Head(asked).by
<1>0. Shapes
  BY BothShapes DEF IInv
<1>1. /\ Serves(h, code) /\ Asks' /\ Sensible(Head(asked))
  BY ServesHead
<1> HIDE DEF h
<1>2. /\ UNCHANGED <<bufferVars, aborted, pc, cur, told, mine, listed, status,
                     interjectSeq, applying, pending, transcript, entered>>
      /\ \A m : Own(m)' = Own(m)
  BY <1>1 DEF Serves, durableVars, Own
<1>3. Held' = Held /\ (\A m \in Message : Sending(m)' <=> Sending(m) /\ m # h)
  BY <1>1, <1>2 DEF Serves, Held, Sending
<1>4. Owned' /\ InTurn' /\ Numbered'
  BY <1>2, <1>3 DEF IInv, Parts, Owned, InHand, InTurn, Numbered, bufferVars
<1>5. Entries'
  BY <1>1, <1>2, <1>3 DEF IInv, Parts, Entries, InHand, Serves
<1>6. Served'
  BY <1>1, <1>2, <1>3 DEF IInv, Parts, Served, Behind, Serves, bufferVars
<1>7. Stages'
  BY <1>1, <1>2, <1>3, ItemFields
     DEF IInv, Parts, Stages, Serves, Fits, Sensible, bufferVars, h
<1>8. ASSUME NEW m \in Message, m = h
      PROVE  /\ told[m] = "sending" /\ code = "ok" => m \in entered /\ Own(m) \in Held
             /\ told[m] = "cancelling" => code # "ok"
             /\ told[m] = "sending" /\ code \in {"conflict", "not_pending", "terminal"} =>
                  /\ Never(m) \/ mine[m] > interjectSeq + 1
                  /\ m \notin entered
             /\ told[m] \in {"sending", "cancelling"} /\ reply[m] = "none" /\ reply'[m] = code
  <2>1. Head(asked).item = Own(m) /\ told[m] \in {"sending", "cancelling"}
    BY <1>1, <1>8, ItemFields DEF Sensible, h
  <2>2. Own(m) \in Held => m \in entered
    BY <1>0, HeldEntered DEF IInv, Parts
  <2>3. told[m] = "sending" => m \notin entered
    BY <1>1, <1>8 DEF IInv, Parts, Entries, Sending, Serves
  <2> QED BY <1>1, <1>8, <2>1, <2>2, <2>3 DEF Fits, Serves, h
<1>9. \A m \in Message : m # h => reply'[m] = "none" /\ reply[m] = "none"
  BY <1>1, ItemFields DEF Serves
<1>10. Said'
  BY <1>2, <1>3, <1>8, <1>9 DEF IInv, Parts, Said
<1>11. ASSUME NEW m \in Message, Refused(m)'
      PROVE  /\ m \notin entered
             /\ \/ Never(m) \/ aborted \/ Own(m) \notin ToSet(items)
                \/ told[m] = "sending" /\ mine[m] > interjectSeq + 1
             /\ pc = "enqueue" /\ cur = Own(m) /\ reply'[Loop] = "none" =>
                  \/ Never(m)
                  \/ /\ mine[m] > interjectSeq + 1
                     /\ \A n \in Message : Sending(n) /\ n # h => mine[n] > mine[m]
  <2>1. CASE m = h
    <3>1. told[m] = "sending" /\ code \in {"conflict", "not_pending", "terminal"}
      BY <1>2, <1>8, <1>11, <2>1 DEF Refused
    <3>2. ASSUME pc = "enqueue", cur = Own(m), ~Never(m)
          PROVE  \A n \in Message : Sending(n) /\ n # h => mine[n] > mine[m]
      <4>1. Behind(cur) /\ cur.msg = m /\ cur.seq = mine[m]
        BY <1>0, <3>2 DEF IInv, Parts, Served, Shapes, Owns
      <4>2. ~(cur.seq <= interjectSeq)
        BY <3>2, <4>1 DEF Never
      <4> QED BY <1>1, <2>1, <4>1, <4>2 DEF Behind, Serves
    <3> QED BY <1>8, <2>1, <3>1, <3>2
  <2>2. CASE m # h
    <3>1. told[m] = "refused" /\ Refused(m)
      BY <1>2, <1>9, <1>11, <2>2 DEF Refused
    <3>2. reply[Loop] = "none"
      BY <1>1, ItemFields DEF Serves
    <3> QED BY <3>1, <3>2 DEF IInv, Parts, Refusals
  <2> QED BY <2>1, <2>2
<1>12. Refusals'
  BY <1>2, <1>3, <1>11 DEF Refusals, Never, bufferVars
<1> QED BY <1>1, <1>4, <1>5, <1>6, <1>7, <1>10, <1>12 DEF Parts

\* A number in the checkpoint belongs to one message.
LEMMA Numbers ==
  ASSUME Shapes, Owned, Entries
  PROVE  /\ \A x \in Held \cup ToSet(transcript) :
              /\ x \in Item /\ x.msg \in entered /\ x.seq = mine[x.msg]
              /\ x.seq <= interjectSeq /\ x = Own(x.msg)
         /\ \A x \in Held \cup ToSet(transcript), m \in entered :
              x.seq = mine[m] => x = Own(m)
<1>1. \A x \in Held \cup ToSet(transcript) :
        x \in Item /\ x.msg \in entered /\ x.seq = mine[x.msg]
  BY DEF Shapes, Owned, Entries
<1>2. \A x \in Held \cup ToSet(transcript) : x.seq <= interjectSeq /\ x = Own(x.msg)
  BY <1>1 DEF Shapes, Entries
<1> QED BY <1>1, <1>2 DEF Entries

LEMMA EnqueueAnswers ==
  ASSUME IInv, NEW e, Sensible(e), e.kind = "enqueue"
  PROVE  /\ e.item \in Item
         /\ e.by \in Message => e.item = Own(e.by)
         /\ e.by = Loop => pc = "enqueue" /\ e.item = cur
         /\ e.by \notin Message => e.by = Loop
         /\ status # "running" => Fits(e, "terminal")
         /\ Contains(Queue, e.item) => Fits(e, "ok")
         /\ Known(e.item.seq) => Fits(e, "conflict")
         /\ e.item.seq > interjectSeq /\ ~TakesNext(e.item.seq) => Fits(e, "conflict")
         /\ ~Known(e.item.seq) /\ e.item.seq <= interjectSeq => Fits(e, "not_pending")
<1>0. Shapes /\ CheckpointTypeOK
  BY InvShapes DEF IInv, Inv, Types
<1>1. \/ e.by \in Message /\ e.item = Own(e.by) /\ told[e.by] = "sending"
      \/ e.by = Loop /\ pc = "enqueue" /\ e.item = cur
  BY DEF Sensible
<1>2. e.item \in Item /\ e.item.seq \in Nat /\ interjectSeq \in Nat
  BY <1>0, <1>1, ItemFields DEF Shapes, Owns, InHand
<1>3. e.by \in Message => e.by # Loop /\ e.item.seq = mine[e.by]
  BY <1>0, <1>1, ItemFields DEF Shapes, Owns
<1>4. /\ \A n : Known(n) <=> \E x \in Held : x.seq = n
      /\ Contains(Queue, e.item) <=> e.item \in Held
  BY <1>0, QueueHeld
<1>5. \A x \in Held : x.seq <= interjectSeq /\ x.msg \in entered
  BY <1>0, Numbers DEF IInv, Parts
<1>6. status # "running" => Fits(e, "terminal")
  BY <1>1, <1>3, ItemFields DEF Fits, Never
<1>7. Contains(Queue, e.item) => Fits(e, "ok")
  BY <1>1, <1>3, <1>4, <1>5, ItemFields DEF Fits
<1>8. Known(e.item.seq) => Fits(e, "conflict")
  BY <1>1, <1>3, <1>4, <1>5, ItemFields DEF Fits, Never
<1>9. e.item.seq > interjectSeq /\ ~TakesNext(e.item.seq) => Fits(e, "conflict")
  BY <1>1, <1>2, <1>3, ItemFields DEF Fits, Never, TakesNext
<1>10. ~Known(e.item.seq) /\ e.item.seq <= interjectSeq => Fits(e, "not_pending")
  BY <1>1, <1>2, <1>3, <1>4, ItemFields DEF Fits, Never
<1> QED BY <1>1, <1>2, <1>3, <1>6, <1>7, <1>8, <1>9, <1>10, ItemFields

\* The write that takes a message in.
LEMMA TakenKeeps ==
  ASSUME IInv, Inv', Turn("enqueue"), Answer("ok"), UNCHANGED OutsideStore,
         TakesNext(Head(asked).item.seq), Taken(Head(asked).item),
         status = "running", entered' = entered \cup {Head(asked).item.msg},
         UNCHANGED <<status, applying, transcript>>
  PROVE  Parts'
<1> DEFINE h == Head(asked).by
           x == Head(asked).item
<1>0. Shapes /\ Shapes' /\ CheckpointTypeOK
  BY BothShapes DEF IInv, Inv, Types
<1>1. Serves(h, "ok") /\ Asks' /\ Sensible(Head(asked)) /\ Head(asked).kind = "enqueue"
  BY ServesHead
<1>2. /\ x \in Item /\ (h \in Message => x = Own(h) /\ told[h] = "sending")
      /\ h = Loop => pc = "enqueue" /\ x = cur
      /\ h \in Message \/ h = Loop
  BY <1>1, EnqueueAnswers, ItemFields DEF Sensible
<1>3. interjectSeq' = x.seq /\ x.seq = interjectSeq + 1 /\ interjectSeq \in Nat
  BY <1>0 DEF Taken, TakesNext, Shapes
<1>4. ToSet(pending)' = ToSet(pending) \cup {x}
  <2>1. pending' = Append(pending, x)
    BY DEF Taken
  <2>2. pending \in Seq(Item)
    BY <1>0, Counts
  <2> HIDE DEF x
  <2> QED BY <1>2, <2>1, <2>2, ToSetAppend
<1> HIDE DEF h, x
<1>5. /\ UNCHANGED <<bufferVars, aborted, pc, cur, told, mine, listed, status,
                     applying, transcript>>
      /\ \A m : Own(m)' = Own(m)
      /\ entered' = entered \cup {x.msg}
  BY <1>1 DEF Serves, Own, x
<1>6. Held' = Held \cup {x} /\ (\A m \in Message : Sending(m)' <=> Sending(m) /\ m # h)
  <2>1. Held' = Held \cup {x}
    BY <1>4, <1>5 DEF Held
  <2>2. \A c : Waits(c)' <=> Waits(c) /\ c # h
    BY <1>1 DEF Serves
  <2> QED BY <1>5, <2>1, <2>2 DEF Sending
<1>7. x.msg \in Message /\ told[x.msg] # "nothing" /\ x.seq = mine[x.msg] /\ x = Own(x.msg)
  <2>1. CASE h \in Message
    BY <1>0, <1>2, <2>1 DEF Shapes, Owns
  <2>2. CASE h = Loop
    <3>1. told[x.msg] # "nothing" /\ x.seq = mine[x.msg]
      BY <1>2, <2>2 DEF IInv, Parts, Owned, InHand
    <3> QED BY <1>0, <1>2, <3>1, ItemFields, Owning
  <2> QED BY <1>2, <2>1, <2>2
<1>8. x.msg \notin entered /\ x \notin Held \cup ToSet(transcript)
  BY <1>0, <1>3, <1>7, Numbers DEF IInv, Parts, Entries
<1>9. Owned'
  BY <1>5, <1>6, <1>7 DEF IInv, Parts, Owned, InHand, bufferVars
<1>10. InTurn'
  <2>1. \A y \in ToSet(transcript) : y.seq <= interjectSeq /\ y.seq \in Nat
    BY <1>0, Numbers, ItemFields DEF IInv, Parts
  <2> QED BY <1>3, <1>4, <1>5, <2>1 DEF IInv, Parts, InTurn
<1>11. Numbered'
  <2>1. RisesPast(items, x.seq)
    BY <1>0, <1>3, RisesFurther DEF IInv, Parts, Numbered, Shapes
  <2> QED BY <1>0, <1>3, <1>5, <2>1 DEF IInv, Parts, Numbered, bufferVars, Shapes
<1>12. Served'
  <2>1. \A y : Behind(y) /\ y \in Item => Behind(y)'
    BY <1>1, <1>3, <1>5, <1>6, ItemFields DEF Behind, Serves
  <2> QED BY <1>0, <1>5, <2>1 DEF IInv, Parts, Served, bufferVars, Shapes, InHand
<1>13. Entries'
  <2>1. \A y \in Held' \cup ToSet(transcript)' \cup ToSet(listed.queue)' : y.msg \in entered'
    BY <1>5, <1>6 DEF IInv, Parts, Entries
  <2>2. \A m \in entered' : told'[m] # "nothing" /\ mine'[m] <= interjectSeq'
    BY <1>0, <1>3, <1>5, <1>7 DEF IInv, Parts, Entries, Shapes
  <2>3. \A m, n \in entered' : mine'[m] = mine'[n] => m = n
    BY <1>0, <1>3, <1>5, <1>7 DEF IInv, Parts, Entries, Shapes
  <2>4. ASSUME NEW m \in Message, Sending(m)'
        PROVE  /\ m \notin entered'
               /\ InHand' /\ cur' = Own(m)' => pc' = "enqueue" /\ Precedes(m, Loop)'
    <3>1. Sending(m) /\ m # h
      BY <1>6, <2>4
    <3>2. m # x.msg
      <4>1. CASE h \in Message
        BY <1>0, <1>2, <3>1, <4>1 DEF Shapes, Owns
      <4>2. CASE h = Loop
        <5>1. ~Precedes(m, Loop)
          BY <1>1, <4>2 DEF Serves
        <5> QED BY <1>2, <1>7, <3>1, <4>2, <5>1 DEF IInv, Parts, Entries, InHand
      <4> QED BY <1>2, <4>1, <4>2
    <3>3. InHand' /\ cur' = Own(m)' => pc' = "enqueue" /\ Precedes(m, Loop)'
      BY <1>1, <1>5, <3>1 DEF IInv, Parts, Entries, InHand, Serves
    <3> QED BY <1>5, <3>1, <3>2, <3>3 DEF IInv, Parts, Entries
  <2> QED BY <2>1, <2>2, <2>3, <2>4 DEF Entries
<1>14. reply'[h] = "ok" /\ h \in Caller
       /\ \A c \in Caller : reply[c] = "none" /\ (c # h => reply'[c] = "none")
  BY <1>1 DEF Serves
<1>15. Stages'
  BY <1>2, <1>5, <1>14, ItemFields DEF IInv, Parts, Stages, InHand, bufferVars
<1>16. Said'
  <2>1. h \in Message => x = Own(h) /\ told[h] = "sending" /\ h = x.msg
    BY <1>0, <1>2 DEF Shapes, Owns
  <2>2. \A m \in Message : Own(m) = x => m = x.msg
    BY <1>0 DEF Shapes, Owns
  <2> QED BY <1>5, <1>6, <1>8, <1>14, <2>1, <2>2, ItemFields DEF IInv, Parts, Said
<1>17. ASSUME NEW m \in Message, Refused(m)'
       PROVE  Refused(m) /\ told[m] = "refused" /\ m # x.msg
  <2>1. told[m] = "refused" /\ Refused(m) /\ reply[m] = "none" /\ reply[Loop] = "none"
    BY <1>2, <1>5, <1>14, <1>17, ItemFields DEF Refused
  <2>2. m # x.msg
    <3>1. CASE h \in Message
      <4>1. x.msg = h /\ told[h] = "sending"
        BY <1>0, <1>2, <3>1, Owning
      <4> QED BY <2>1, <4>1
    <3>2. CASE h = Loop
      BY <1>2, <1>3, <1>7, <2>1, <3>2 DEF IInv, Parts, Refusals, Never
    <3> QED BY <1>2, <3>1, <3>2
  <2> QED BY <2>1, <2>2
<1>18. ASSUME NEW m \in Message, Refused(m), pc = "enqueue", cur = Own(m),
              reply'[Loop] = "none"
       PROVE  mine[m] <= interjectSeq'
  <2>1. reply[Loop] = "none" /\ h \in Message
    BY <1>2, <1>14, <1>18, ItemFields
  <2>2. Sending(h) /\ mine[h] = interjectSeq + 1
    BY <1>0, <1>1, <1>2, <1>3, <2>1 DEF Sending, Serves, Shapes, Owns
  <2>3. mine[m] <= interjectSeq \/ mine[h] > mine[m]
    BY <1>18, <2>1, <2>2 DEF IInv, Parts, Refusals, Never
  <2> QED BY <1>0, <1>3, <2>2, <2>3 DEF Shapes
<1>19. Refusals'
  <2> SUFFICES ASSUME NEW m \in Message, Refused(m)'
               PROVE  /\ m \notin entered'
                      /\ mine[m] <= interjectSeq' \/ aborted \/ Own(m) \notin ToSet(items)
                      /\ pc = "enqueue" /\ cur = Own(m) /\ reply'[Loop] = "none" =>
                           mine[m] <= interjectSeq'
    BY <1>5 DEF Refusals, Never, bufferVars
  <2>1. Refused(m) /\ told[m] = "refused" /\ m # x.msg
    BY <1>17
  <2>2. m \notin entered'
    BY <1>5, <2>1 DEF IInv, Parts, Refusals
  <2>3. mine[m] <= interjectSeq \/ aborted \/ Own(m) \notin ToSet(items)
    BY <2>1 DEF IInv, Parts, Refusals, Never
  <2>4. mine[m] <= interjectSeq => mine[m] <= interjectSeq'
    BY <1>0, <1>3 DEF Shapes
  <2> QED BY <1>18, <2>1, <2>2, <2>3, <2>4
<1> QED BY <1>1, <1>9, <1>10, <1>11, <1>12, <1>13, <1>15, <1>16, <1>19 DEF Parts

LEMMA EnqueueKeeps ==
  ASSUME IInv, Inv', EnqueueInterject
  PROVE  Parts'
<1> DEFINE e == Head(asked)
<1>1. Turn("enqueue") /\ UNCHANGED OutsideStore
  BY DEF EnqueueInterject
<1>2. ASSUME NEW code, Answer(code), UNCHANGED durableVars, Fits(e, code)
      PROVE  Parts'
  BY <1>1, <1>2, UnwrittenKeeps
<1>3. Sensible(e) /\ e.kind = "enqueue"
  <2>1. PICK code : Answer(code)
    BY DEF EnqueueInterject, Only, WriteFails
  <2> QED BY <1>1, <2>1, ServesHead
<1> HIDE DEF e
<1>4. /\ status # "running" => Fits(e, "terminal")
      /\ Contains(Queue, e.item) => Fits(e, "ok")
      /\ Known(e.item.seq) => Fits(e, "conflict")
      /\ e.item.seq > interjectSeq /\ ~TakesNext(e.item.seq) => Fits(e, "conflict")
      /\ ~Known(e.item.seq) /\ e.item.seq <= interjectSeq => Fits(e, "not_pending")
      /\ Fits(e, "error")
  BY <1>3, EnqueueAnswers DEF Fits
<1>5. CASE /\ status = "running" /\ TakesNext(e.item.seq) /\ Answer("ok")
           /\ Taken(e.item) /\ entered' = entered \cup {e.item.msg}
           /\ UNCHANGED <<status, applying, transcript, drifted>>
  BY <1>1, <1>5, TakenKeeps DEF e
<1> QED BY <1>2, <1>4, <1>5 DEF EnqueueInterject, Only, WriteFails, e

\* The loop's calls are made at the stage they belong to.
LEMMA LoopCall ==
  ASSUME NEW e, Sensible(e)
  PROVE  /\ e.kind \in {"claim", "complete"} =>
              e.by = Loop /\ pc = e.kind /\ e.item = cur
         /\ e.kind = "cancel" =>
              e.by \in Message /\ e.item = Own(e.by) /\ told[e.by] = "cancelling"
         /\ e.kind \in {"settle", "discard"} =>
              e.by = Loop /\ pc \in {"commit", "commitFailure"}
         /\ e.kind = "round" => e.by = Loop /\ pc = "recovering"
BY DEF Sensible

LEMMA ClaimKeeps ==
  ASSUME IInv, Inv', ClaimInterject
  PROVE  Parts'
<1> DEFINE e == Head(asked)
<1>0. Shapes /\ Shapes' /\ CheckpointTypeOK
  BY BothShapes DEF IInv, Inv, Types
<1>1. Turn("claim") /\ UNCHANGED OutsideStore
  BY DEF ClaimInterject
<1>2. ASSUME NEW code, Answer(code), UNCHANGED durableVars, Fits(e, code)
      PROVE  Parts'
  BY <1>1, <1>2, UnwrittenKeeps
<1>3. Sensible(e) /\ e.kind = "claim"
  <2>1. PICK code : Answer(code)
    BY DEF ClaimInterject, Only, WriteFails
  <2> QED BY <1>1, <2>1, ServesHead
<1> HIDE DEF e
<1>4. e.by = Loop /\ pc = "claim" /\ e.item = cur /\ cur.msg \in entered
      /\ cur \in Item /\ cur = Own(cur.msg) /\ cur.seq <= interjectSeq
      /\ cur.seq = mine[cur.msg]
  <2>1. e.by = Loop /\ pc = "claim" /\ e.item = cur
    BY <1>3, LoopCall
  <2> QED BY <1>0, <2>1 DEF IInv, Parts, Stages, Owned, Entries, InHand, Shapes
<1>5. \A x \in Held : x.seq = cur.seq => x = cur
  BY <1>0, <1>4, Numbers DEF IInv, Parts
<1>6. /\ Fits(e, "error") /\ Fits(e, "busy") /\ Fits(e, "terminal")
      /\ applying = cur => Fits(e, "ok")
      /\ (\A x \in Held : x.seq # cur.seq) => Fits(e, "not_pending")
  BY <1>4, ItemFields DEF Fits
<1>7. applying # NoItem /\ applying.seq = cur.seq => applying = cur
  BY <1>5 DEF Held
<1>8. applying = NoItem /\ ~(\E i \in DOMAIN pending : pending[i].seq = cur.seq) =>
        \A x \in Held : x.seq # cur.seq
  BY DEF Held, ToSet
<1>9. CASE /\ status = "running" /\ applying = NoItem /\ Answer("ok")
           /\ pending # <<>> /\ Head(pending).seq = cur.seq
           /\ applying' = Head(pending) /\ pending' = Tail(pending)
           /\ UNCHANGED <<status, interjectSeq, transcript, entered, drifted>>
  <2>1. ToSet(pending) = {Head(pending)} \cup ToSet(pending)' /\ Head(pending) \in Item
    BY <1>0, <1>9, ToSetHeadTail DEF Shapes
  <2>2. Held' = Held /\ applying' = cur /\ applying' # NoItem
    BY <1>5, <1>9, <2>1, ItemFields DEF Held
  <2>3. Serves(Loop, "ok") /\ Asks'
    BY <1>1, <1>4, <1>9, ServesHead DEF e
  <2>4. /\ UNCHANGED <<bufferVars, aborted, pc, cur, told, mine, listed, status,
                       interjectSeq, transcript, entered>>
        /\ \A m : Own(m)' = Own(m)
    BY <1>9, <2>3 DEF Serves, Own
  <2>5. \A m \in Message : Sending(m)' <=> Sending(m)
    BY <2>3, <2>4, ItemFields DEF Serves, Sending
  <2>6. Owned' /\ Numbered'
    BY <2>2, <2>4 DEF IInv, Parts, Owned, InHand, Numbered, bufferVars
  <2>7. Entries'
    BY <2>2, <2>3, <2>4, <2>5, ItemFields DEF IInv, Parts, Entries, InHand, Serves
  <2>8. InTurn'
    <3>1. \A y \in ToSet(transcript) : y.seq < Head(pending).seq /\ y.seq \in Nat
      BY <1>0, <2>1, ItemFields DEF IInv, Parts, InTurn, Shapes
    <3> QED BY <1>0, <1>9, <2>1, <2>4, <3>1, ItemFields DEF IInv, Parts, InTurn
  <2>9. Served'
    <3>1. \A y \in Item : Behind(y) => Behind(y)'
      BY <2>3, <2>4, <2>5, ItemFields DEF Behind, Serves
    <3> QED BY <1>0, <1>4, <2>4, <3>1 DEF IInv, Parts, Served, bufferVars, Shapes
  <2>10. /\ reply'[Loop] = "ok" /\ \A m \in Message : reply[m] = "none" /\ reply'[m] = "none"
    BY <2>3, ItemFields DEF Serves
  <2>11. Stages'
    BY <1>4, <1>9, <2>2, <2>4, <2>10 DEF IInv, Parts, Stages, bufferVars
  <2>12. Said'
    BY <2>2, <2>4, <2>10 DEF IInv, Parts, Said
  <2>13. Refusals'
    BY <1>4, <2>4, <2>5, <2>10 DEF IInv, Parts, Refusals, Refused, Never, bufferVars
  <2> QED BY <2>3, <2>6, <2>7, <2>8, <2>9, <2>11, <2>12, <2>13 DEF Parts
<1> QED BY <1>2, <1>4, <1>6, <1>7, <1>8, <1>9 DEF ClaimInterject, Only, WriteFails, e

LEMMA CompleteKeeps ==
  ASSUME IInv, Inv', CompleteInterject
  PROVE  Parts'
<1> DEFINE e == Head(asked)
<1>0. Shapes /\ Shapes' /\ CheckpointTypeOK
  BY BothShapes DEF IInv, Inv, Types
<1>1. Turn("complete") /\ UNCHANGED OutsideStore
  BY DEF CompleteInterject
<1>2. ASSUME NEW code, Answer(code), UNCHANGED durableVars, Fits(e, code)
      PROVE  Parts'
  BY <1>1, <1>2, UnwrittenKeeps
<1>3. Sensible(e) /\ e.kind = "complete"
  <2>1. PICK code : Answer(code)
    BY DEF CompleteInterject, Only, WriteFails
  <2> QED BY <1>1, <2>1, ServesHead
<1> HIDE DEF e
<1>4. /\ e.by = Loop /\ pc = "complete" /\ cur \in Item /\ reply[Loop] = "none"
      /\ applying = cur /\ cur \in ToSet(transcript) /\ status = "running"
  <2>1. e.by = Loop /\ pc = "complete"
    BY <1>3, LoopCall
  <2>2. reply[Loop] = "none"
    BY <1>1, ItemFields DEF Turn
  <2> QED BY <1>0, <2>1, <2>2 DEF IInv, Parts, Stages, InHand, Shapes
<1>5. \A code \in {"terminal", "not_pending", "busy", "error"} : Fits(e, code)
  BY <1>4, ItemFields DEF Fits
<1>6. CASE /\ Answer("ok") /\ applying' = NoItem
           /\ UNCHANGED <<status, interjectSeq, pending, transcript, entered, drifted>>
  <2>1. Serves(Loop, "ok") /\ Asks'
    BY <1>1, <1>4, <1>6, ServesHead DEF e
  <2>2. /\ UNCHANGED <<bufferVars, aborted, pc, cur, told, mine, listed, status,
                       interjectSeq, pending, transcript, entered>>
        /\ \A m : Own(m)' = Own(m)
    BY <1>6, <2>1 DEF Serves, Own
  <2>3. /\ Held' \subseteq Held
        /\ \A x \in Held : x \in Held' \/ x \in ToSet(transcript)
    BY <1>4, <1>6, <2>2 DEF Held
  <2>4. \A m \in Message : Sending(m)' <=> Sending(m)
    BY <2>1, <2>2, ItemFields DEF Serves, Sending
  <2>5. Owned' /\ Numbered'
    BY <2>2, <2>3 DEF IInv, Parts, Owned, InHand, Numbered, bufferVars
  <2>6. Entries'
    BY <2>1, <2>2, <2>3, <2>4, ItemFields DEF IInv, Parts, Entries, InHand, Serves
  <2>7. InTurn'
    BY <1>6, <2>2 DEF IInv, Parts, InTurn
  <2>8. Served'
    <3>1. \A y \in Item : Behind(y) => Behind(y)'
      BY <2>1, <2>2, <2>4, ItemFields DEF Behind, Serves
    <3> QED BY <1>0, <1>4, <2>2, <3>1 DEF IInv, Parts, Served, bufferVars, Shapes
  <2>9. /\ reply'[Loop] = "ok" /\ \A m \in Message : reply[m] = "none" /\ reply'[m] = "none"
    BY <2>1, ItemFields DEF Serves
  <2>10. Stages'
    BY <1>4, <1>6, <2>2, <2>9 DEF IInv, Parts, Stages, bufferVars
  <2>11. Said'
    BY <2>2, <2>3, <2>9 DEF IInv, Parts, Said
  <2>12. Refusals'
    BY <1>4, <2>2, <2>4, <2>9 DEF IInv, Parts, Refusals, Refused, Never, bufferVars
  <2> QED BY <2>1, <2>5, <2>6, <2>7, <2>8, <2>10, <2>11, <2>12 DEF Parts
<1> QED BY <1>2, <1>5, <1>6 DEF CompleteInterject, Only, WriteFails

\* What is cancelled stood in the queue under the caller's number and nowhere else.
LEMMA Withdrawal ==
  ASSUME IInv, NEW m \in Message, told[m] = "cancelling", reply[m] = "none",
         Cancellable(mine[m])
  PROVE  /\ status = "running" /\ m \in entered
         /\ Own(m) \in ToSet(pending) /\ Own(m) \notin ToSet(transcript)
         /\ applying # NoItem => applying.seq < mine[m]
         /\ ToSet(Without(pending, mine[m])) = ToSet(pending) \ {Own(m)}
<1>0. Shapes
  BY InvShapes DEF IInv
<1>1. PICK x \in ToSet(pending) : x.seq = mine[m]
  BY DEF Cancellable, ToSet
<1>2. status = "running"
  <2>1. pending # <<>>
    BY <1>1, ToSetEmpty
  <2> QED BY <2>1 DEF IInv, Parts, Stages
<1>3. m \in entered
  BY <1>2 DEF IInv, Parts, Said
<1>4. x = Own(m)
  BY <1>0, <1>1, <1>3, Numbers DEF IInv, Parts, Held
<1>5. Own(m) \notin ToSet(transcript)
  BY <1>0, <1>1, <1>4, ItemFields DEF IInv, Parts, InTurn, Shapes
<1>6. applying # NoItem => applying.seq < mine[m]
  BY <1>1 DEF IInv, Inv, Ordered, ToSet
<1>7. RisesPast(pending, -1)
  BY DEF IInv, Inv, Ordered, Rising, RisesPast
<1>8. \A y \in ToSet(Without(pending, mine[m])) : y.seq # mine[m]
  BY <1>0, <1>7, RisesWithout DEF Shapes
<1>9. /\ ToSet(Without(pending, mine[m])) \subseteq ToSet(pending)
      /\ \A y \in ToSet(pending) : y.seq # mine[m] => y \in ToSet(Without(pending, mine[m]))
  BY <1>0, WithoutSet DEF Shapes
<1>10. \A y \in ToSet(pending) : y.seq = mine[m] => y = Own(m)
  BY <1>0, <1>3, Numbers DEF IInv, Parts, Held
<1>11. Own(m).seq = mine[m]
  BY <1>0 DEF Shapes, Owns
<1> QED BY <1>1, <1>2, <1>3, <1>4, <1>5, <1>6, <1>8, <1>9, <1>10, <1>11

LEMMA CancelKeeps ==
  ASSUME IInv, Inv', CancelInterject
  PROVE  Parts'
<1> DEFINE e == Head(asked)
           m == Head(asked).by
<1>0. Shapes /\ Shapes' /\ CheckpointTypeOK
  BY BothShapes DEF IInv, Inv, Types
<1>1. Turn("cancel") /\ UNCHANGED OutsideStore
  BY DEF CancelInterject
<1>2. ASSUME NEW code, Answer(code), UNCHANGED durableVars, Fits(e, code)
      PROVE  Parts'
  BY <1>1, <1>2, UnwrittenKeeps
<1>3. Sensible(e) /\ e.kind = "cancel"
  <2>1. PICK code : Answer(code)
    BY DEF CancelInterject, Only, WriteFails
  <2> QED BY <1>1, <2>1, ServesHead
<1>4. m \in Message /\ e.item = Own(m) /\ told[m] = "cancelling" /\ e.item.seq = mine[m]
      /\ reply[m] = "none"
  <2>1. m \in Message /\ e.item = Own(m) /\ told[m] = "cancelling"
    BY <1>3, LoopCall
  <2>2. e.item.seq = mine[m]
    BY <1>0, <2>1, Owning
  <2>3. m \in Caller /\ reply[m] = "none"
    BY <1>1, <2>1, ItemFields DEF Turn
  <2> QED BY <2>1, <2>2, <2>3
<1>5. \A code \in {"terminal", "unchanged", "error"} : Fits(e, code)
  BY <1>4, ItemFields DEF Fits
<1>6. CASE /\ status = "running" /\ Cancellable(mine[m]) /\ Answer("ok")
           /\ pending' = Without(pending, mine[m])
           /\ applying' = IF applying.seq = mine[m] THEN NoItem ELSE applying
           /\ UNCHANGED <<status, interjectSeq, transcript, entered, drifted>>
  <2>1. Serves(m, "ok") /\ Asks'
    BY <1>1, <1>6, ServesHead
  <2> HIDE DEF e, m
  <2>2. /\ UNCHANGED <<bufferVars, aborted, pc, cur, told, mine, listed, status,
                       interjectSeq, transcript, entered>>
        /\ \A n : Own(n)' = Own(n)
    BY <1>6, <2>1 DEF Serves, Own
  <2>3. /\ m \in entered
        /\ Own(m) \in ToSet(pending) /\ Own(m) \notin ToSet(transcript)
        /\ applying # NoItem => applying.seq < mine[m]
        /\ ToSet(pending)' = ToSet(pending) \ {Own(m)}
    BY <1>4, <1>6, Withdrawal
  <2>4. applying' = applying /\ Held' = Held \ {Own(m)}
    <3>1. applying' = applying
      BY <1>0, <1>4, <1>6, <2>3, ItemFields DEF Shapes
    <3>2. applying # NoItem => applying # Own(m)
      BY <1>0, <1>4, <2>3 DEF Shapes, Owns
    <3> QED BY <2>3, <3>1, <3>2 DEF Held
  <2>5. \A n \in Message : Sending(n)' <=> Sending(n)
    BY <1>4, <2>1, <2>2 DEF Serves, Sending
  <2>6. Owned' /\ Numbered'
    BY <2>2, <2>4 DEF IInv, Parts, Owned, InHand, Numbered, bufferVars
  <2>7. Entries'
    <3>1. \A n \in Message : Sending(n) => n # m
      BY <1>4 DEF Sending
    <3> QED BY <2>1, <2>2, <2>4, <2>5, <3>1 DEF IInv, Parts, Entries, InHand, Serves
  <2>8. InTurn'
    BY <2>2, <2>3, <2>4 DEF IInv, Parts, InTurn
  <2>9. Served'
    <3>1. \A n \in Message : Sending(n) => n # m
      BY <1>4 DEF Sending
    <3>2. \A y \in Item : Behind(y) => Behind(y)'
      BY <2>1, <2>2, <2>5, <3>1 DEF Behind, Serves
    <3> QED BY <1>0, <2>2, <3>2 DEF IInv, Parts, Served, bufferVars, Shapes, InHand
  <2>10. /\ reply[Loop] = "none" /\ reply'[Loop] = "none" /\ reply'[m] = "ok"
         /\ \A n \in Message : n # m => reply[n] = "none" /\ reply'[n] = "none"
    BY <1>4, <2>1, ItemFields DEF Serves
  <2>11. Stages'
    <3>1. pending' = <<>> \/ status = "running"
      BY <1>6
    <3> QED BY <1>6, <2>2, <2>4, <2>10, <3>1 DEF IInv, Parts, Stages, bufferVars
  <2>12. Said'
    <3>1. \A n \in Message : n # m => Own(n) # Own(m)
      <4>1. \A n \in Message : Own(n).msg = n
        BY <1>0 DEF Shapes, Owns
      <4> QED BY <1>4, <4>1
    <3>2. Own(m) \notin Held'
      BY <2>4
    <3> QED BY <1>4, <2>2, <2>3, <2>4, <2>10, <3>1, <3>2 DEF IInv, Parts, Said
  <2>13. Refusals'
    BY <1>4, <2>2, <2>5, <2>10 DEF IInv, Parts, Refusals, Refused, Never, bufferVars
  <2> QED BY <2>1, <2>6, <2>7, <2>8, <2>9, <2>11, <2>12, <2>13 DEF Parts
<1> QED BY <1>2, <1>4, <1>5, <1>6 DEF CancelInterject, Only, WriteFails

LEMMA SettleKeeps ==
  ASSUME IInv, Inv', SettleRun
  PROVE  Parts'
<1> DEFINE e == Head(asked)
<1>0. Shapes /\ Shapes' /\ CheckpointTypeOK
  BY BothShapes DEF IInv, Inv, Types
<1>1. PICK kind \in {"settle", "discard"} : Turn(kind)
  BY DEF SettleRun
<1>2. UNCHANGED OutsideStore
  BY DEF SettleRun
<1>3. ASSUME NEW code, Answer(code), UNCHANGED durableVars, Fits(e, code)
      PROVE  Parts'
  BY <1>1, <1>2, <1>3, UnwrittenKeeps
<1>4. Sensible(e) /\ e.kind = kind
  <2>1. PICK code : Answer(code)
    BY DEF SettleRun, Only
  <2> QED BY <1>1, <1>2, <2>1, ServesHead
<1>5. e.by = Loop /\ pc \in {"commit", "commitFailure"}
  BY <1>4, LoopCall
<1>6. Fits(e, "error")
  BY DEF Fits
<1>7. CASE /\ status = "running" /\ Answer("ok") /\ Settleable(kind)
           /\ status' = IF kind = "discard" THEN "aborted" ELSE "settled"
           /\ applying' = NoItem /\ pending' = <<>>
           /\ UNCHANGED <<interjectSeq, transcript, entered, drifted>>
  <2>1. Serves(Loop, "ok") /\ Asks'
    BY <1>1, <1>2, <1>5, <1>7, ServesHead
  <2>2. /\ UNCHANGED <<bufferVars, aborted, pc, cur, told, mine, listed,
                       interjectSeq, transcript, entered>>
        /\ \A m : Own(m)' = Own(m)
    BY <1>7, <2>1 DEF Serves, Own
  <2>3. Held' = {} /\ ToSet(pending)' = {}
    BY <1>7, ToSetEmpty DEF Held
  <2>4. \A m \in Message : Sending(m)' <=> Sending(m)
    BY <2>1, <2>2, ItemFields DEF Serves, Sending
  <2>5. Owned' /\ Numbered' /\ InTurn'
    BY <1>7, <2>2, <2>3 DEF IInv, Parts, Owned, InHand, Numbered, InTurn, bufferVars
  <2>6. Entries'
    BY <2>1, <2>2, <2>3, <2>4, ItemFields DEF IInv, Parts, Entries, InHand, Serves
  <2>7. Served'
    <3>1. \A y \in Item : Behind(y) => Behind(y)'
      BY <2>1, <2>2, <2>4, ItemFields DEF Behind, Serves
    <3> QED BY <1>0, <1>5, <2>2, <3>1 DEF IInv, Parts, Served, bufferVars, Shapes
  <2>8. /\ reply'[Loop] = "ok" /\ \A m \in Message : reply[m] = "none" /\ reply'[m] = "none"
    BY <2>1, ItemFields DEF Serves
  <2>9. Stages'
    BY <1>5, <1>7, <2>2, <2>8 DEF IInv, Parts, Stages, bufferVars
  <2>10. status' # "aborted" => Held = {}
    BY <1>0, <1>7, QueueHeld, ToSetEmpty DEF Settleable
  <2>11. Said'
    BY <1>7, <2>2, <2>3, <2>8, <2>10 DEF IInv, Parts, Said
  <2>12. Refusals'
    BY <1>5, <1>7, <2>2, <2>4, <2>8 DEF IInv, Parts, Refusals, Refused, Never, bufferVars
  <2> QED BY <2>1, <2>5, <2>6, <2>7, <2>9, <2>11, <2>12 DEF Parts
<1> QED BY <1>3, <1>4, <1>6, <1>7 DEF SettleRun, Only

LEMMA RoundKeeps ==
  ASSUME IInv, Inv', ClaimModelRound
  PROVE  Parts'
<1>1. Turn("round") /\ UNCHANGED OutsideStore
  BY DEF ClaimModelRound
<1>2. PICK code : /\ Answer(code) /\ UNCHANGED durableVars
                  /\ code = "ok" => status = "running"
  BY DEF ClaimModelRound, Only
<1>3. Head(asked).by = Loop /\ pc = "recovering"
  BY <1>1, <1>2, ServesHead, LoopCall
<1>4. Fits(Head(asked), code)
  BY <1>2, <1>3, ItemFields DEF Fits
<1> QED BY <1>1, <1>2, <1>4, UnwrittenKeeps

LEMMA StoreKeeps == IInv /\ Inv' /\ Store => Parts'
BY EnqueueKeeps, ClaimKeeps, CompleteKeeps, CancelKeeps, SettleKeeps, RoundKeeps
   DEF Store

-----------------------------------------------------------------------------
\* The client.
LEMMA WithdrawnItems ==
  ASSUME Shapes, Numbered, NEW n \in Nat, Withdrawn(n)
  PROVE  /\ ToSet(items)' \subseteq ToSet(items) /\ received' = received
         /\ \A x \in ToSet(items) : x.seq # n => x \in ToSet(items)'
         /\ RisesPast(items', interjectSeq)
         /\ n > interjectSeq => \A x \in ToSet(items)' : x.seq # n
<1>1. items' = Without(items, n) /\ received' = received
  BY DEF Withdrawn
<1>2. items \in Seq(Item) /\ interjectSeq \in Int /\ n \in Int
  BY Counts
<1>3. RisesPast(items, interjectSeq)
  BY DEF Numbered
<1>4. /\ ToSet(Without(items, n)) \subseteq ToSet(items)
      /\ \A x \in ToSet(items) : x.seq # n => x \in ToSet(Without(items, n))
  BY <1>2, WithoutSet
<1>5. /\ RisesPast(Without(items, n), interjectSeq)
      /\ n > interjectSeq => \A x \in ToSet(Without(items, n)) : x.seq # n
  BY <1>2, <1>3, RisesWithout
<1>6. ToSet(items)' = ToSet(Without(items, n))
  BY <1>1
<1> QED BY <1>1, <1>4, <1>5, <1>6

\* A client consumes its answer; the buffer may lose a message on the way.
LEMMA ConsumedKeeps ==
  ASSUME IInv, Inv', NEW m \in Message, reply[m] # "none", Consumed(m),
         NEW word \in {"accepted", "kept", "cancelled", "refused", "unsure"},
         told' = [told EXCEPT ![m] = word],
         UNCHANGED <<aborted, loopVars, durableVars, asked, mine, recoveryVars>>,
         ToSet(items)' \subseteq ToSet(items), received' = received,
         RisesPast(items', interjectSeq), pc = "off" => items' = items,
         word \in {"accepted", "kept"} =>
           /\ m \in entered
           /\ status # "aborted" => Own(m) \in Held \cup ToSet(transcript),
         word = "cancelled" => m \in entered /\ Own(m) \notin Held \cup ToSet(transcript),
         word = "refused" =>
           /\ Refused(m)
           /\ Never(m) \/ aborted \/ Own(m) \notin ToSet(items)'
  PROVE  Parts'
<1>0. Shapes /\ Shapes'
  BY BothShapes DEF IInv
<1>1. /\ UNCHANGED <<aborted, pc, cur, outcome, status, interjectSeq, applying,
                     pending, transcript, entered, asked, mine, listed, received>>
      /\ Held' = Held /\ \A n : Own(n)' = Own(n)
  BY DEF loopVars, durableVars, recoveryVars, Held, Own
<1>2. /\ reply'[m] = "none" /\ \A c \in Caller : reply'[c] = "none"
      /\ \A c \in Caller : c # m => reply[c] = "none"
  BY <1>0, ItemFields DEF Consumed, Shapes, IInv, Parts, Asks
<1>3. /\ told'[m] = word /\ \A n \in Message : n # m => told'[n] = told[n]
      /\ told[m] \in {"sending", "cancelling"}
  BY <1>0 DEF Shapes, IInv, Parts, Asks
<1>4. ~Waits(m)
  BY DEF IInv, Parts, Asks, Waits
<1>5. \A c : Waits(c)' = Waits(c)
  BY <1>1 DEF Waits
<1>6. \A c, d : Precedes(c, d)' = Precedes(c, d)
  BY <1>1 DEF Precedes
<1>7. \A n \in Message : Sending(n)' <=> Sending(n)
  BY <1>3, <1>4, <1>5 DEF Sending
<1>8. Asks'
  <2>1. \A e \in ToSet(asked) : e.by # m
    BY <1>4 DEF Waits
  <2>2. \A e \in ToSet(asked) : Sensible(e)'
    BY <1>1, <1>3, <2>1 DEF IInv, Parts, Asks, Sensible
  <2>3. \A e \in ToSet(asked) : reply'[e.by] = "none"
    BY <1>2, <2>2, ItemFields DEF IInv, Parts, Asks, Sensible
  <2> QED BY <1>1, <1>2, <1>6, <2>2, <2>3, ItemFields DEF IInv, Parts, Asks
<1>9. \A n \in Message : told[n] # "nothing" => told'[n] # "nothing"
  BY <1>3
<1>10. Owned'
  <2>1. \A x \in Item : told[x.msg] # "nothing" => told'[x.msg] # "nothing"
    BY <1>9, ItemFields
  <2> QED BY <1>0, <1>1, <2>1 DEF IInv, Parts, Owned, InHand, Shapes
<1>11. Entries'
  BY <1>0, <1>1, <1>6, <1>7, <1>9 DEF IInv, Parts, Entries, InHand, Shapes
<1>12. InTurn' /\ Numbered'
  BY <1>1 DEF IInv, Parts, InTurn, Numbered
<1>13. Stages'
  BY <1>0, <1>1, <1>2, ItemFields DEF IInv, Parts, Stages
<1>14. Said'
  <2>1. \A n \in Message : reply'[n] = "none" /\ (n # m => reply[n] = "none")
    BY <1>2, ItemFields
  <2> QED BY <1>1, <1>3, <2>1 DEF IInv, Parts, Said
<1>15. Served'
  <2>1. \A y : Behind(y) => Behind(y)'
    BY <1>1, <1>6, <1>7 DEF Behind
  <2> QED BY <1>1, <2>1 DEF IInv, Parts, Served
<1>16. Refusals'
  <2>1. ASSUME NEW n \in Message, Refused(n)'
        PROVE  /\ Refused(n) /\ told'[n] = "refused"
               /\ Never(n) \/ aborted \/ Own(n) \notin ToSet(items)'
    <3>1. told'[n] = "refused"
      BY <1>2, <2>1, ItemFields DEF Refused
    <3>2. CASE n = m
      BY <1>3, <3>1, <3>2
    <3>3. CASE n # m
      BY <1>3, <3>1, <3>3 DEF Refused, IInv, Parts, Refusals
    <3> QED BY <3>1, <3>2, <3>3
  <2>2. reply[Loop] = "none" \/ reply'[Loop] = reply[Loop]
    BY <1>2, ItemFields
  <2>3. reply[Loop] = "none"
    BY <1>2, ItemFields
  <2> QED BY <1>1, <1>7, <2>1, <2>3 DEF IInv, Parts, Refusals, Never
<1> QED BY <1>8, <1>10, <1>11, <1>12, <1>13, <1>14, <1>15, <1>16 DEF Parts

LEMMA CancelPendingItems ==
  ASSUME IInv, NEW m \in Message, CancelPending(mine[m])
  PROVE  /\ ToSet(items)' \subseteq ToSet(items) /\ received' = received
         /\ RisesPast(items', interjectSeq) /\ (pc = "off" => items' = items)
         /\ mine[m] <= interjectSeq \/ aborted \/ Own(m) \notin ToSet(items)'
<1>0. Shapes /\ mine[m] \in Nat /\ interjectSeq \in Nat /\ Own(m).seq = mine[m]
  BY InvShapes DEF IInv, Shapes, Owns
<1>1. CASE Executing /\ ~aborted /\ Withdrawn(mine[m])
  <2>1. mine[m] > interjectSeq \/ mine[m] <= interjectSeq
    BY <1>0
  <2> QED BY <1>0, <1>1, <2>1, WithdrawnItems DEF IInv, Parts, Executing
<1>2. CASE ~(Executing /\ ~aborted) /\ UNCHANGED bufferVars
  <2>1. aborted \/ ToSet(items) = {}
    BY <1>2, ToSetEmpty DEF IInv, Parts, Stages, Executing
  <2> QED BY <1>2, <2>1 DEF bufferVars, IInv, Parts, Numbered
<1> QED BY <1>1, <1>2 DEF CancelPending

LEMMA SameItems ==
  ASSUME IInv, UNCHANGED bufferVars
  PROVE  /\ ToSet(items)' \subseteq ToSet(items) /\ received' = received
         /\ RisesPast(items', interjectSeq) /\ items' = items
BY DEF bufferVars, IInv, Parts, Numbered

LEMMA InterjectAnsweredKeeps ==
  ASSUME IInv, Inv', NEW m \in Message, InterjectAnswered(m)
  PROVE  Parts'
<1>1. /\ told[m] = "sending" /\ reply[m] # "none" /\ Consumed(m)
      /\ UNCHANGED <<aborted, loopVars, durableVars, asked, mine, recoveryVars>>
  BY DEF InterjectAnswered
<1>2. CASE reply[m] = "ok" /\ told' = [told EXCEPT ![m] = "accepted"] /\ UNCHANGED bufferVars
  <2>1. /\ m \in entered
        /\ status # "aborted" => Own(m) \in Held \cup ToSet(transcript)
    BY <1>1, <1>2 DEF IInv, Parts, Said
  <2> QED BY <1>1, <1>2, <2>1, SameItems, ConsumedKeeps
<1>3. CASE /\ reply[m] \in {"conflict", "not_pending", "terminal"}
           /\ told' = [told EXCEPT ![m] = "refused"] /\ CancelPending(mine[m])
  <2>1. Refused(m)
    BY <1>1, <1>3 DEF Refused
  <2>2. /\ ToSet(items)' \subseteq ToSet(items) /\ received' = received
        /\ RisesPast(items', interjectSeq) /\ (pc = "off" => items' = items)
        /\ Never(m) \/ aborted \/ Own(m) \notin ToSet(items)'
    BY <1>3, CancelPendingItems DEF Never
  <2> QED BY <1>1, <1>3, <2>1, <2>2, ConsumedKeeps
<1>4. CASE told' = [told EXCEPT ![m] = "unsure"] /\ UNCHANGED bufferVars
  BY <1>1, <1>4, SameItems, ConsumedKeeps
<1> QED BY <1>2, <1>3, <1>4 DEF InterjectAnswered

LEMMA CancelAnsweredKeeps ==
  ASSUME IInv, Inv', NEW m \in Message, CancelAnswered(m)
  PROVE  Parts'
<1>1. /\ told[m] = "cancelling" /\ reply[m] # "none" /\ Consumed(m)
      /\ UNCHANGED <<aborted, loopVars, durableVars, asked, mine, recoveryVars>>
  BY DEF CancelAnswered
<1>2. CASE reply[m] # "ok" /\ told' = [told EXCEPT ![m] = "kept"] /\ UNCHANGED bufferVars
  <2>1. /\ m \in entered
        /\ status # "aborted" => Own(m) \in Held \cup ToSet(transcript)
    BY <1>1, <1>2 DEF IInv, Parts, Said
  <2> QED BY <1>1, <1>2, <2>1, SameItems, ConsumedKeeps
<1>3. CASE /\ reply[m] = "ok"
           /\ told' = [told EXCEPT ![m] = "cancelled"] /\ CancelPending(mine[m])
  <2>1. m \in entered /\ Own(m) \notin Held \cup ToSet(transcript)
    BY <1>1, <1>3 DEF IInv, Parts, Said
  <2> QED BY <1>1, <1>3, <2>1, CancelPendingItems, ConsumedKeeps
<1> QED BY <1>2, <1>3 DEF CancelAnswered

LEMMA InterjectKeeps ==
  ASSUME IInv, Inv', NEW m \in Message, Interject(m)
  PROVE  Parts'
<1>0. Shapes /\ Shapes'
  BY BothShapes DEF IInv
<1>a. PICK x \in Item : x = [seq |-> received + 1, msg |-> m]
  <2>1. received + 1 \in Nat
    BY <1>0, Counts
  <2>2. [seq |-> received + 1, msg |-> m] \in Item
    BY <2>1 DEF Item
  <2> QED BY <2>2
<1>1. x \in Item /\ x.seq = received + 1 /\ x.msg = m
  BY <1>a
<1>2. /\ told[m] = "nothing" /\ pc # "off" /\ accepting
      /\ items' = Append(items, x) /\ received' = received + 1
      /\ Ask(m, "enqueue", x)
      /\ told' = [told EXCEPT ![m] = "sending"] /\ mine' = [mine EXCEPT ![m] = x.seq]
      /\ UNCHANGED <<aborted, pc, cur, outcome, status, interjectSeq, applying,
                     pending, transcript, entered, reply, listed>>
  BY <1>a, <1>1 DEF Interject, loopVars, durableVars, recoveryVars, Executing
<1>3. /\ told'[m] = "sending" /\ mine'[m] = x.seq /\ Own(m)' = x
      /\ \A n \in Message : n # m =>
           told'[n] = told[n] /\ mine'[n] = mine[n] /\ Own(n)' = Own(n)
      /\ Held' = Held
  BY <1>0, <1>a, <1>1, <1>2 DEF Shapes, Own, Held
<1>4. ~Waits(m) /\ m \notin entered /\ reply[m] = "none"
  <2>1. \A e \in ToSet(asked) : e.by # m
    BY <1>2, ItemFields DEF IInv, Parts, Asks, Sensible
  <2> QED BY <1>2, <2>1 DEF Waits, IInv, Parts, Asks, Entries
<1>5. /\ ToSet(asked)' = ToSet(asked) \cup {[by |-> m, kind |-> "enqueue", item |-> x]}
      /\ \A d : Waits(d)' <=> Waits(d) \/ d = m
      /\ \A d, e : Precedes(d, e)' <=> Precedes(d, e) \/ (Waits(d) /\ e = m)
  <2>1. [by |-> m, kind |-> "enqueue", item |-> x] \in Calls
    BY <1>1, ItemFields DEF Calls, Kinds
  <2> QED BY <1>0, <1>2, <2>1, AskWaits DEF Shapes
<1>6. \A n \in Message : Sending(n)' <=> Sending(n) \/ n = m
  BY <1>3, <1>5 DEF Sending
<1>7. ToSet(items)' = ToSet(items) \cup {x}
  BY <1>0, <1>1, <1>2, ToSetAppend DEF Shapes
<1>8. \A y \in Item : told[y.msg] # "nothing" => y.msg # m /\ y.msg \in Message
  BY <1>2, ItemFields
<1>9. Asks'
  <2>1. \A e \in ToSet(asked) : e.by # m /\ Sensible(e)' /\ reply[e.by] = "none"
    BY <1>2, <1>3, <1>4, ItemFields DEF IInv, Parts, Asks, Sensible, Waits
  <2>2. \A e \in ToSet(asked)' : Sensible(e)' /\ reply'[e.by] = "none"
    <3>1. PICK call : call = [by |-> m, kind |-> "enqueue", item |-> x]
      OBVIOUS
    <3>2. call.by = m /\ call.kind = "enqueue" /\ call.item = x
      BY <3>1
    <3>3. Sensible(call)' /\ reply'[call.by] = "none"
      BY <1>2, <1>3, <1>4, <3>2 DEF Sensible, Own
    <3> QED BY <1>2, <1>5, <2>1, <3>1, <3>3
  <2>3. \A c : ~Precedes(c, c)'
    BY <1>4, <1>5 DEF IInv, Parts, Asks
  <2>4. \A n \in Message : reply'[n] # "none" => told'[n] \in {"sending", "cancelling"}
    BY <1>2, <1>3 DEF IInv, Parts, Asks
  <2> QED BY <1>2, <2>2, <2>3, <2>4 DEF IInv, Parts, Asks
<1>10. Owned'
  <2>1. \A y \in ToSet(items) \cup Held \cup ToSet(transcript) \cup ToSet(listed.queue) :
          told'[y.msg] # "nothing" /\ y.seq = mine'[y.msg]
    <3> SUFFICES ASSUME NEW y \in Item, told[y.msg] # "nothing", y.seq = mine[y.msg]
                 PROVE  told'[y.msg] # "nothing" /\ y.seq = mine'[y.msg]
      BY <1>0 DEF IInv, Parts, Owned, Shapes
    <3> QED BY <1>3, <1>8
  <2>2. InHand => told'[cur.msg] # "nothing" /\ cur.seq = mine'[cur.msg]
    BY <1>0, <1>3, <1>8 DEF IInv, Parts, Owned, Shapes
  <2>3. told'[x.msg] # "nothing" /\ x.seq = mine'[x.msg]
    BY <1>1, <1>3
  <2> QED BY <1>2, <1>3, <1>7, <2>1, <2>2, <2>3 DEF Owned, InHand
<1>11. Entries'
  <2>1. \A n \in entered : told'[n] # "nothing" /\ mine'[n] = mine[n]
    BY <1>0, <1>3, <1>4 DEF IInv, Parts, Entries, Shapes
  <2>2. ASSUME NEW n \in Message, Sending(n)'
        PROVE  /\ n \notin entered
               /\ InHand /\ cur = Own(n)' => pc = "enqueue" /\ Precedes(n, Loop)'
    <3>1. CASE n = m
      <4>1. InHand => cur # x
        BY <1>0, <1>1, <1>8 DEF IInv, Parts, Owned, Shapes
      <4> QED BY <1>3, <1>4, <3>1, <4>1
    <3>2. CASE n # m
      BY <1>3, <1>5, <1>6, <2>2, <3>2 DEF IInv, Parts, Entries
    <3> QED BY <3>1, <3>2
  <2>3. \A y \in Held \cup ToSet(transcript) \cup ToSet(listed.queue) : y.msg \in entered
    BY DEF IInv, Parts, Entries
  <2>4. \A n \in entered : mine[n] <= interjectSeq
    BY DEF IInv, Parts, Entries
  <2>5. \A n, o \in entered : mine[n] = mine[o] => n = o
    BY DEF IInv, Parts, Entries
  <2> QED BY <1>2, <1>3, <2>1, <2>2, <2>3, <2>4, <2>5 DEF Entries, InHand
<1>12. InTurn'
  BY <1>2 DEF IInv, Parts, InTurn
<1>13. \A y \in ToSet(items) : y.seq <= received /\ y.seq \in Nat
  <2>1. \A y \in ToSet(items) : y.seq <= received
    BY DEF IInv, Parts, Numbered
  <2> QED BY <1>0, <2>1, Counts, ItemFields
<1>14. Numbered'
  <2>1. \A y \in ToSet(items) : y.seq < x.seq
    <3>1. received \in Nat
      BY <1>0, Counts
    <3> QED BY <1>1, <1>13, <3>1
  <2>2. RisesPast(Append(items, x), interjectSeq)
    <3>1. items \in Seq(Item) /\ interjectSeq \in Int
      BY <1>0, Counts
    <3>2. RisesPast(items, interjectSeq)
      BY DEF IInv, Parts, Numbered
    <3> QED BY <1>1, <2>1, <3>1, <3>2, RisesAppend
  <2>3. pc = "enqueue" => cur.seq <= received + 1
    <3>1. pc = "enqueue" => cur \in Item
      BY <1>0, Counts DEF InHand
    <3>2. pc = "enqueue" => cur.seq <= received
      BY DEF IInv, Parts, Numbered
    <3>3. received \in Nat
      BY <1>0, Counts
    <3> QED BY <3>1, <3>2, <3>3, ItemFields
  <2>4. \A y \in ToSet(items)' : y.seq <= received'
    <3>1. received \in Nat /\ received' = received + 1 /\ x.seq = received + 1
      BY <1>0, <1>1, <1>2, Counts
    <3> QED BY <1>7, <1>13, <3>1
  <2> QED BY <1>2, <2>2, <2>3, <2>4 DEF IInv, Parts, Numbered
<1>15. Stages'
  BY <1>2, <1>3 DEF IInv, Parts, Stages
<1>16. Said'
  BY <1>2, <1>3, <1>4 DEF IInv, Parts, Said
<1>17. Served'
  <2>1. ASSUME NEW y \in Item, y.msg # m, y.seq <= received, Behind(y)
        PROVE  Behind(y)'
    <3>1. mine'[m] > y.seq
      BY <1>0, <1>1, <1>3, <2>1, ItemFields DEF Shapes
    <3>2. CASE y.seq <= interjectSeq
      BY <1>2, <3>2 DEF Behind
    <3>3. CASE \A n \in Message : Sending(n) =>
                 mine[n] > y.seq \/ n = y.msg \/ Precedes(n, y.msg)
      BY <1>3, <1>5, <1>6, <3>1, <3>3 DEF Behind
    <3> QED BY <2>1, <3>2, <3>3 DEF Behind
  <2>2. \A y \in ToSet(items) : y.msg # m
    BY <1>0, <1>8 DEF IInv, Parts, Owned, Shapes
  <2>3. \A y \in ToSet(items) : Behind(y)'
    BY <1>0, <1>13, <2>1, <2>2 DEF IInv, Parts, Served, Shapes
  <2>4. Behind(x)'
    BY <1>1, <1>5, <1>6 DEF Behind, Sending
  <2>5. pc' = "enqueue" => Behind(cur)'
    <3> SUFFICES ASSUME pc = "enqueue" PROVE Behind(cur)'
      BY <1>2
    <3>1. cur \in Item /\ told[cur.msg] # "nothing"
      BY <1>0 DEF IInv, Parts, Owned, Shapes, InHand
    <3>2. cur.seq <= received /\ Behind(cur)
      BY DEF IInv, Parts, Served, Numbered
    <3>3. PICK y \in Item : y = cur
      BY <3>1
    <3>4. Behind(y)'
      BY <1>8, <2>1, <3>1, <3>2, <3>3
    <3> QED BY <1>2, <3>3, <3>4 DEF Behind
  <2> QED BY <1>7, <2>3, <2>4, <2>5 DEF Served
<1>18. Refusals'
  <2> SUFFICES ASSUME NEW n \in Message, Refused(n)'
               PROVE  /\ n \notin entered
                      /\ \/ Never(n)' \/ aborted \/ Own(n)' \notin ToSet(items)'
                         \/ told'[n] = "sending" /\ mine'[n] > interjectSeq + 1
                      /\ pc = "enqueue" /\ cur = Own(n)' /\ reply[Loop] = "none" =>
                           \/ Never(n)'
                           \/ /\ mine'[n] > interjectSeq + 1
                              /\ \A o \in Message : Sending(o)' => mine'[o] > mine'[n]
    BY <1>2 DEF Refusals
  <2>1. n # m /\ Refused(n)
    BY <1>2, <1>3, <1>4 DEF Refused
  <2>2. Own(n) # x /\ (Never(n)' <=> Never(n))
    BY <1>0, <1>1, <1>2, <1>3, <2>1 DEF Shapes, Owns, Never
  <2>3. ASSUME pc = "enqueue", cur = Own(n) PROVE mine'[m] > mine[n]
    <3>1. cur.seq = mine[n] /\ mine[n] \in Nat /\ received \in Nat
      BY <1>0, <2>3, Owning, Counts
    <3>2. cur.seq <= received
      BY <2>3 DEF IInv, Parts, Numbered
    <3>3. mine'[m] = received + 1
      BY <1>0, <1>1, <1>3 DEF Shapes
    <3> QED BY <3>1, <3>2, <3>3
  <2>4. n \notin entered
    BY <2>1 DEF IInv, Parts, Refusals
  <2>5. \/ Never(n) \/ aborted \/ Own(n) \notin ToSet(items)
        \/ told[n] = "sending" /\ mine[n] > interjectSeq + 1
    BY <2>1 DEF IInv, Parts, Refusals
  <2>6. pc = "enqueue" /\ cur = Own(n) /\ reply[Loop] = "none" =>
          \/ Never(n)
          \/ /\ mine[n] > interjectSeq + 1
             /\ \A o \in Message : Sending(o) => mine[o] > mine[n]
    BY <2>1 DEF IInv, Parts, Refusals
  <2>7. Own(n)' = Own(n) /\ told'[n] = told[n] /\ mine'[n] = mine[n]
    BY <1>3, <2>1
  <2>8. \A o \in Message : Sending(o)' => (Sending(o) /\ mine'[o] = mine[o]) \/ o = m
    BY <1>3, <1>6
  <2> QED BY <1>7, <2>2, <2>3, <2>4, <2>5, <2>6, <2>7, <2>8
<1> QED BY <1>9, <1>10, <1>11, <1>12, <1>14, <1>15, <1>16, <1>17, <1>18 DEF Parts

LEMMA CancelAskKeeps ==
  ASSUME IInv, Inv', NEW m \in Message, Cancel(m)
  PROVE  Parts'
<1>0. Shapes /\ Shapes'
  BY BothShapes DEF IInv
<1>1. /\ told[m] = "accepted" /\ Ask(m, "cancel", Own(m))
      /\ told' = [told EXCEPT ![m] = "cancelling"]
      /\ UNCHANGED <<items, received, aborted, pc, cur, outcome, status,
                     interjectSeq, applying, pending, transcript, entered, reply,
                     mine, listed>>
  BY DEF Cancel, Own, bufferVars, loopVars, durableVars, recoveryVars
<1>2. /\ told'[m] = "cancelling" /\ \A n \in Message : n # m => told'[n] = told[n]
      /\ Held' = Held /\ \A n : Own(n)' = Own(n)
  BY <1>0, <1>1 DEF Shapes, Held, Own
<1>3. ~Waits(m) /\ reply[m] = "none"
  <2>1. \A e \in ToSet(asked) : e.by # m
    BY <1>1, ItemFields DEF IInv, Parts, Asks, Sensible
  <2> QED BY <1>1, <2>1 DEF Waits, IInv, Parts, Asks
<1>4. /\ ToSet(asked)' = ToSet(asked) \cup {[by |-> m, kind |-> "cancel", item |-> Own(m)]}
      /\ \A d : Waits(d)' <=> Waits(d) \/ d = m
      /\ \A d, e : Precedes(d, e)' <=> Precedes(d, e) \/ (Waits(d) /\ e = m)
  <2>1. [by |-> m, kind |-> "cancel", item |-> Own(m)] \in Calls
    BY <1>0, ItemFields DEF Calls, Kinds, Shapes, Owns
  <2> QED BY <1>0, <1>1, <2>1, AskWaits DEF Shapes
<1>5. \A n \in Message : Sending(n)' <=> Sending(n)
  BY <1>1, <1>2, <1>4 DEF Sending
<1>6. Asks'
  <2>1. \A e \in ToSet(asked) : e.by # m /\ Sensible(e)' /\ reply[e.by] = "none"
    BY <1>1, <1>2, <1>3, ItemFields DEF IInv, Parts, Asks, Sensible, Waits
  <2>2. \A e \in ToSet(asked)' : Sensible(e)' /\ reply'[e.by] = "none"
    <3>1. PICK call : call = [by |-> m, kind |-> "cancel", item |-> Own(m)]
      OBVIOUS
    <3>2. call.by = m /\ call.kind = "cancel" /\ call.item = Own(m)
      BY <3>1
    <3>3. Sensible(call)' /\ reply'[call.by] = "none"
      BY <1>1, <1>2, <1>3, <3>2 DEF Sensible, Own
    <3> QED BY <1>1, <1>4, <2>1, <3>1, <3>3
  <2>3. \A c : ~Precedes(c, c)'
    BY <1>3, <1>4 DEF IInv, Parts, Asks
  <2>4. \A n \in Message : reply'[n] # "none" => told'[n] \in {"sending", "cancelling"}
    BY <1>1, <1>2 DEF IInv, Parts, Asks
  <2> QED BY <1>1, <2>2, <2>3, <2>4 DEF IInv, Parts, Asks
<1>7. \A n \in Message : told[n] # "nothing" => told'[n] # "nothing"
  BY <1>2
<1>8. Owned'
  <2>1. \A x \in Item : told[x.msg] # "nothing" => told'[x.msg] # "nothing"
    BY <1>7, ItemFields
  <2> QED BY <1>0, <1>1, <1>2, <2>1 DEF IInv, Parts, Owned, InHand, Shapes
<1>9. Entries'
  BY <1>0, <1>1, <1>2, <1>4, <1>5, <1>7 DEF IInv, Parts, Entries, InHand, Shapes
<1>10. InTurn' /\ Numbered' /\ Stages'
  BY <1>1, <1>2 DEF IInv, Parts, InTurn, Numbered, Stages
<1>11. Said'
  BY <1>1, <1>2, <1>3 DEF IInv, Parts, Said
<1>12. Served'
  <2>1. \A y : Behind(y) => Behind(y)'
    BY <1>1, <1>4, <1>5 DEF Behind
  <2> QED BY <1>1, <2>1 DEF IInv, Parts, Served
<1>13. Refusals'
  BY <1>1, <1>2, <1>3, <1>5 DEF IInv, Parts, Refusals, Refused, Never
<1> QED BY <1>6, <1>8, <1>9, <1>10, <1>11, <1>12, <1>13 DEF Parts

LEMMA FlushAbortKeeps ==
  ASSUME IInv, Inv', Flush \/ Abort
  PROVE  Parts'
<1>1. /\ UNCHANGED <<items, received, pc, cur, outcome, status, interjectSeq,
                     applying, pending, transcript, entered, asked, reply, told,
                     mine, listed>>
      /\ aborted' = aborted \/ (aborted' = TRUE /\ pc # "off")
  BY DEF Flush, Abort, bufferVars, loopVars, durableVars, callVars, clientVars,
         recoveryVars, Executing
<1>2. Held' = Held /\ (\A n : Own(n)' = Own(n)) /\ (\A c : Waits(c)' = Waits(c))
      /\ (\A c, d : Precedes(c, d)' = Precedes(c, d))
  BY <1>1 DEF Held, Own, Waits, Precedes
<1>3. \A n \in Message : Sending(n)' = Sending(n)
  BY <1>1, <1>2 DEF Sending
<1>4. Asks'
  BY <1>1, <1>2 DEF IInv, Parts, Asks, Sensible
<1>5. Owned' /\ InTurn' /\ Numbered' /\ Stages' /\ Said'
  BY <1>1, <1>2 DEF IInv, Parts, Owned, InHand, InTurn, Numbered, Stages, Said
<1>6. Entries' /\ Served'
  BY <1>1, <1>2, <1>3 DEF IInv, Parts, Entries, InHand, Served, Behind
<1>7. Refusals'
  BY <1>1, <1>2, <1>3 DEF IInv, Parts, Refusals, Refused, Never
<1> QED BY <1>4, <1>5, <1>6, <1>7 DEF Parts

LEMMA ClientKeeps == IInv /\ Inv' /\ Client => Parts'
BY InterjectKeeps, InterjectAnsweredKeeps, CancelAskKeeps, CancelAnsweredKeeps,
   FlushAbortKeeps DEF Client

-----------------------------------------------------------------------------
\* The loop.  It waits in the store's queue only at the stages that await it.
LEMMA LoopAwaits ==
  ASSUME Asks,
         \/ reply[Loop] # "none"
         \/ pc \notin {"enqueue", "claim", "complete", "commit", "commitFailure",
                       "recovering"}
  PROVE  /\ ~Waits(Loop)
         /\ pc \notin {"enqueue", "claim", "complete", "commit", "commitFailure",
                       "recovering"} => reply[Loop] = "none"
BY RunInterjectAssumption DEF Asks, Waits, Sensible

\* A stage of the loop that asks for nothing ends: the checkpoint and the
\* transcript stay as they are, and the buffer may lose a message.
Moves ==
  /\ pc # "off" /\ status = "running" /\ ~Waits(Loop)
  /\ \A m \in Message : reply'[m] = reply[m]
  /\ reply'[Loop] = "none"
  /\ UNCHANGED <<aborted, durableVars, clientVars, listed, asked, cur, received>>
  /\ ToSet(items)' \subseteq ToSet(items) /\ RisesPast(items', interjectSeq)
  /\ pc' \notin {"off", "recovering", "enqueue", "claim", "complete"}
  /\ pc' = "append" => applying = cur /\ cur \in Item

LEMMA MovesKeeps ==
  ASSUME IInv, Inv', Moves
  PROVE  Parts'
<1>0. Shapes /\ Shapes'
  BY BothShapes DEF IInv
<1>1. /\ UNCHANGED <<aborted, cur, status, interjectSeq, applying, pending,
                     transcript, entered, asked, told, mine, listed, received>>
      /\ Held' = Held /\ \A n : Own(n)' = Own(n)
  BY DEF Moves, durableVars, clientVars, Held, Own
<1>2. /\ reply'[Loop] = "none" /\ \A n \in Message : reply'[n] = reply[n]
      /\ ~Waits(Loop) /\ status = "running"
  BY DEF Moves
<1>3. \A c : Waits(c)' = Waits(c)
  BY <1>1 DEF Waits
<1>4. \A c, d : Precedes(c, d)' = Precedes(c, d)
  BY <1>1 DEF Precedes
<1>5. \A n \in Message : Sending(n)' <=> Sending(n)
  BY <1>1, <1>3 DEF Sending
<1>6. pc' \notin {"off", "recovering", "enqueue", "claim", "complete"}
  BY DEF Moves
<1>7. pc' = "append" => applying = cur /\ cur \in Held
  BY ItemFields DEF Moves, Held
<1>8. Asks'
  <2>1. \A e \in ToSet(asked) : e.by # Loop
    BY <1>2 DEF Waits
  <2>2. \A e \in ToSet(asked) : Sensible(e)' /\ reply'[e.by] = "none"
    BY <1>1, <1>2, <2>1 DEF IInv, Parts, Asks, Sensible
  <2>3. \A c, d \in Caller : reply'[c] # "none" /\ reply'[d] # "none" => c = d
    BY <1>2, ItemFields DEF IInv, Parts, Asks
  <2>4. \A n \in Message : reply'[n] # "none" => told'[n] \in {"sending", "cancelling"}
    BY <1>1, <1>2 DEF IInv, Parts, Asks
  <2>5. \A c : ~Precedes(c, c)'
    BY <1>4 DEF IInv, Parts, Asks
  <2> QED BY <1>1, <1>2, <2>2, <2>3, <2>4, <2>5 DEF Asks
<1>9. Owned'
  <2>1. \A x \in ToSet(items)' \cup Held \cup ToSet(transcript) \cup ToSet(listed.queue) :
          told[x.msg] # "nothing" /\ x.seq = mine[x.msg]
    BY DEF IInv, Parts, Owned, Moves
  <2>2. InHand' => cur \in Held
    BY <1>6, <1>7 DEF InHand
  <2> QED BY <1>1, <2>1, <2>2 DEF Owned
<1>10. Entries'
  <2>1. ASSUME NEW n \in Message, Sending(n), InHand' PROVE cur # Own(n)
    <3>1. n \notin entered /\ cur \in Held
      BY <1>6, <1>7, <2>1 DEF IInv, Parts, Entries, InHand
    <3> QED BY <1>0, <3>1, HeldEntered DEF IInv, Parts
  <2> QED BY <1>1, <1>5, <2>1 DEF IInv, Parts, Entries
<1>11. InTurn' /\ Numbered'
  BY <1>1, <1>6 DEF IInv, Parts, InTurn, Numbered, Moves
<1>12. Stages'
  BY <1>1, <1>2, <1>6, <1>7 DEF IInv, Parts, Stages
<1>13. Said'
  BY <1>1, <1>2 DEF IInv, Parts, Said
<1>14. Served'
  <2>1. \A y : Behind(y) => Behind(y)'
    BY <1>1, <1>4, <1>5 DEF Behind
  <2> QED BY <1>6, <2>1 DEF IInv, Parts, Served, Moves
<1>15. Refusals'
  <2>1. \A n \in Message : Refused(n)' <=> Refused(n)
    BY <1>1, <1>2 DEF Refused
  <2> QED BY <1>1, <1>6, <2>1 DEF IInv, Parts, Refusals, Never, Moves
<1> QED BY <1>8, <1>9, <1>10, <1>11, <1>12, <1>13, <1>14, <1>15 DEF Parts

\* What a stage before the terminal knows of the checkpoint, and of the loop's
\* answers.
LEMMA StillRunning ==
  ASSUME IInv, pc \notin {"off", "recovering"},
         pc \notin {"commit", "commitFailure"} \/ reply[Loop] # "ok"
  PROVE  status = "running"
BY DEF IInv, Parts, Stages

LEMMA LoopConsumes ==
  ASSUME Shapes, Consumed(Loop)
  PROVE  reply'[Loop] = "none" /\ \A m \in Message : reply'[m] = reply[m]
<1>1. reply \in [Caller -> Codes]
  BY DEF Shapes
<1>2. reply'[Loop] = "none"
  BY <1>1 DEF Consumed, Caller
<1>3. \A m \in Message : reply'[m] = reply[m]
  BY <1>1, RunInterjectAssumption DEF Consumed, Caller
<1> QED BY <1>2, <1>3

LEMMA FreeStages ==
  ASSUME IInv, Inv',
         \/ RoundGoesOn \/ ToolCalls \/ ToolsDone \/ ResultResolved
         \/ RoundFails \/ LoopThrows \/ BufferCloses
         \/ RoundStarts /\ pc' # "enqueue"
         \/ SettleTerminal /\ pc' = "failed"
  PROVE  Parts'
<1> USE DEF RoundGoesOn, ToolCalls, ToolsDone, ResultResolved, RoundFails,
            LoopThrows, BufferCloses, RoundStarts, SettleTerminal
<1>1. pc \in {"applied", "model", "tools", "top", "append", "ending", "settle"}
  OBVIOUS
<1>2. pc' \in {"model", "tools", "top", "ending", "failed", "settle"}
  BY DEF ModelListens, Goes, Ends, Throws, AskToSettle
<1>3. /\ UNCHANGED <<items, received, callVars, cur>>
      /\ UNCHANGED <<aborted, durableVars, clientVars, listed>>
  BY DEF ModelListens, Goes, Ends, Throws, AskToSettle, bufferVars, callVars,
         Elsewhere, recoveryVars
<1> USE DEF IInv, Parts
<1>4. ~Waits(Loop) /\ reply[Loop] = "none"
  BY <1>1, LoopAwaits
<1>5. status = "running"
  BY <1>1, StillRunning
<1>6. Moves
  BY <1>1, <1>2, <1>3, <1>4, <1>5 DEF Moves, callVars, Numbered
<1> QED BY <1>6, MovesKeeps

LEMMA WithdrawnMoves ==
  ASSUME IInv, Inv', Withdrawn(cur.seq) \/ UNCHANGED bufferVars, cur \in Item
  PROVE  /\ ToSet(items)' \subseteq ToSet(items) /\ received' = received
         /\ RisesPast(items', interjectSeq)
<1>1. Shapes /\ cur.seq \in Nat
  BY InvShapes, ItemFields DEF IInv
<1> QED BY <1>1, WithdrawnItems, SameItems DEF IInv, Parts

LEMMA AnsweredStages ==
  ASSUME IInv, Inv',
         (Enqueued /\ pc' # "claim") \/ Claimed \/ Completed
  PROVE  Parts'
<1>0. Shapes
  BY InvShapes DEF IInv
<1>1. /\ pc \in {"enqueue", "claim", "complete"} /\ reply[Loop] # "none"
      /\ Consumed(Loop)
      /\ UNCHANGED <<aborted, durableVars, clientVars, listed, cur>>
  BY DEF Enqueued, Claimed, Completed, Elsewhere, Goes, Throws, recoveryVars
<1>2. cur \in Item /\ cur.seq \in Nat
  BY <1>0, <1>1, ItemFields DEF Shapes, InHand
<1>3. asked' = asked
  BY DEF Enqueued, Claimed, Completed, Goes
<1>4. /\ pc' \in {"append", "applied", "failed"}
      /\ pc' = "append" => pc = "claim" /\ reply[Loop] = "ok"
  BY DEF Enqueued, Claimed, Completed, Goes, Throws
<1>5. /\ ToSet(items)' \subseteq ToSet(items) /\ received' = received
      /\ RisesPast(items', interjectSeq)
  <2>1. CASE Withdrawn(cur.seq) \/ UNCHANGED bufferVars
    BY <1>2, <2>1, WithdrawnMoves
  <2>2. CASE items' = Without(items, cur.seq) /\ received' = received
    BY <1>0, <1>2, <2>2, WithoutSet, RisesWithout DEF Shapes, IInv, Parts, Numbered
  <2> QED BY <2>1, <2>2 DEF Enqueued, Claimed, Completed, Goes
<1>6. ~Waits(Loop)
  BY <1>1, LoopAwaits DEF IInv, Parts
<1>7. status = "running"
  BY <1>1, StillRunning
<1>8. pc' = "append" => applying = cur
  BY <1>4 DEF IInv, Parts, Stages
<1>9. reply'[Loop] = "none" /\ \A m \in Message : reply'[m] = reply[m]
  BY <1>0, <1>1, LoopConsumes
<1>10. Moves
  BY <1>1, <1>2, <1>3, <1>4, <1>5, <1>6, <1>7, <1>8, <1>9 DEF Moves
<1> QED BY <1>10, MovesKeeps

LEMMA SettledStays ==
  ASSUME IInv, Inv', (Settled /\ pc' = "failed") \/ RoundClaimed
  PROVE  Parts'
<1>0. Shapes
  BY InvShapes DEF IInv
<1>1. /\ pc \in {"commit", "recovering"} /\ reply[Loop] # "none" /\ Consumed(Loop)
      /\ UNCHANGED <<bufferVars, aborted, asked, durableVars, clientVars, listed, cur>>
      /\ pc' \in {"failed", "restoring"}
      /\ pc = "commit" => reply[Loop] # "ok"
      /\ pc = "recovering" => reply[Loop] = "ok"
  BY DEF Settled, RoundClaimed, Leaves, Goes, Elsewhere, recoveryVars
<1>2. ~Waits(Loop)
  BY <1>1, LoopAwaits DEF IInv, Parts
<1>3. status = "running"
  BY <1>1 DEF IInv, Parts, Stages
<1>4. reply'[Loop] = "none" /\ \A m \in Message : reply'[m] = reply[m]
  BY <1>0, <1>1, LoopConsumes
<1>5. RisesPast(items', interjectSeq) /\ UNCHANGED <<items, received>>
  BY <1>1, SameItems DEF bufferVars
<1>6. Moves
  BY <1>1, <1>2, <1>3, <1>4, <1>5 DEF Moves
<1> QED BY <1>6, MovesKeeps

\* The loop asks the store for something, and goes to the stage that awaits it.
LoopAsks(kind, item) ==
  /\ pc # "off" \/ kind = "round"
  /\ ~Waits(Loop) /\ reply'[Loop] = "none"
  /\ \A m \in Message : reply'[m] = reply[m]
  /\ Ask(Loop, kind, item)
  /\ UNCHANGED <<aborted, status, interjectSeq, applying, pending, entered,
                 clientVars, listed, items, received>>
  /\ \/ kind \in {"enqueue", "claim", "complete"} /\ pc' = kind /\ item = cur'
     \/ kind \in {"settle", "discard"} /\ pc' \in {"commit", "commitFailure"}
     \/ kind = "round" /\ pc' = "recovering"

LEMMA LoopAsksCalls ==
  ASSUME IInv, Inv', NEW kind, NEW item, LoopAsks(kind, item),
         [by |-> Loop, kind |-> kind, item |-> item] \in Calls
  PROVE  /\ Asks' /\ Held' = Held /\ (\A m \in Message : Sending(m)' <=> Sending(m))
         /\ \A c : Waits(c)' <=> Waits(c) \/ c = Loop
         /\ \A c, d : Precedes(c, d)' <=> Precedes(c, d) \/ (Waits(c) /\ d = Loop)
<1>0. Shapes /\ Shapes'
  BY BothShapes DEF IInv
<1> DEFINE call == [by |-> Loop, kind |-> kind, item |-> item]
<1>1. /\ ToSet(asked)' = ToSet(asked) \cup {call}
      /\ \A c : Waits(c)' <=> Waits(c) \/ c = Loop
      /\ \A c, d : Precedes(c, d)' <=> Precedes(c, d) \/ (Waits(c) /\ d = Loop)
  BY <1>0, AskWaits DEF LoopAsks, Shapes
<1>2. UNCHANGED <<told, mine>> /\ Held' = Held
  BY DEF LoopAsks, clientVars, Held
<1>3. \A m \in Message : Sending(m)' <=> Sending(m)
  BY <1>1, <1>2, RunInterjectAssumption DEF Sending
<1>4. \A e \in ToSet(asked) : Sensible(e)' /\ reply'[e.by] = "none"
  <2>1. \A e \in ToSet(asked) : e.by # Loop
    BY DEF LoopAsks, Waits
  <2> QED BY <1>2, <2>1 DEF IInv, Parts, Asks, Sensible, Own, LoopAsks
<1>5. Sensible(call)' /\ reply'[call.by] = "none"
  <2>1. PICK c : c = call
    OBVIOUS
  <2>2. c.by = Loop /\ c.kind = kind /\ c.item = item
    BY <2>1
  <2>3. Sensible(c)' /\ reply'[c.by] = "none"
    BY <2>2 DEF Sensible, LoopAsks
  <2> QED BY <2>1, <2>3
<1> HIDE DEF call
<1>6. \A c, d \in Caller : reply'[c] # "none" /\ reply'[d] # "none" => c = d
  BY ItemFields DEF IInv, Parts, Asks, LoopAsks
<1>7. \A m \in Message : reply'[m] # "none" => told'[m] \in {"sending", "cancelling"}
  BY <1>2 DEF IInv, Parts, Asks, LoopAsks
<1>8. \A c : ~Precedes(c, c)'
  BY <1>1 DEF IInv, Parts, Asks, LoopAsks
<1>9. Asks'
  BY <1>1, <1>4, <1>5, <1>6, <1>7, <1>8 DEF Asks, LoopAsks
<1> QED BY <1>1, <1>2, <1>3, <1>9

\* A stage that awaits the claim, the terminal or the model round.
LEMMA AsksKeeps ==
  ASSUME IInv, Inv', NEW kind, NEW item, LoopAsks(kind, item),
         [by |-> Loop, kind |-> kind, item |-> item] \in Calls,
         kind \notin {"enqueue", "complete"}, transcript' = transcript,
         kind = "round" \/ status = "running",
         kind = "claim" => pc = "enqueue" /\ cur' = cur /\ cur.msg \in entered
  PROVE  Parts'
<1>0. Shapes /\ Shapes'
  BY BothShapes DEF IInv
<1>1. /\ Asks' /\ Held' = Held /\ (\A m \in Message : Sending(m)' <=> Sending(m))
      /\ \A c : Waits(c)' <=> Waits(c) \/ c = Loop
      /\ \A c, d : Precedes(c, d)' <=> Precedes(c, d) \/ (Waits(c) /\ d = Loop)
  BY LoopAsksCalls
<1>2. /\ UNCHANGED <<aborted, status, interjectSeq, applying, pending, entered,
                     transcript, told, mine, listed, items, received>>
      /\ \A n : Own(n)' = Own(n)
      /\ \A m \in Message : reply'[m] = reply[m]
      /\ reply'[Loop] = "none"
  BY DEF LoopAsks, clientVars, Own
<1>3. pc' \in {"claim", "commit", "commitFailure", "recovering"}
      /\ (pc' = "claim" => kind = "claim")
      /\ (pc' = "recovering" <=> kind = "round")
  BY DEF LoopAsks
<1>4. InHand' => pc' = "claim" /\ pc = "enqueue" /\ cur' = cur /\ cur.msg \in entered
  BY <1>3 DEF InHand
<1>5. Owned'
  BY <1>1, <1>2, <1>4 DEF IInv, Parts, Owned, InHand
<1>6. Entries'
  <2>1. ASSUME NEW n \in Message, Sending(n), InHand' PROVE cur' # Own(n)
    <3>1. n \notin entered /\ Own(n).msg = n
      BY <1>0, <2>1 DEF IInv, Parts, Entries, Shapes, Owns
    <3> QED BY <1>4, <2>1, <3>1
  <2> QED BY <1>1, <1>2, <2>1 DEF IInv, Parts, Entries
<1>7. InTurn' /\ Numbered'
  BY <1>2, <1>3 DEF IInv, Parts, InTurn, Numbered
<1>8. Stages'
  BY <1>2, <1>3, <1>4 DEF IInv, Parts, Stages
<1>9. Said'
  BY <1>1, <1>2 DEF IInv, Parts, Said
<1>10. Served'
  <2>1. \A y : Behind(y) => Behind(y)'
    BY <1>1, <1>2 DEF Behind
  <2> QED BY <1>2, <1>3, <2>1 DEF IInv, Parts, Served
<1>11. Refusals'
  <2>1. \A n \in Message : Refused(n)' <=> Refused(n)
    BY <1>2 DEF Refused
  <2> QED BY <1>2, <1>3, <2>1 DEF IInv, Parts, Refusals, Never
<1> QED BY <1>1, <1>5, <1>6, <1>7, <1>8, <1>9, <1>10, <1>11 DEF Parts

LEMMA AskingStages ==
  ASSUME IInv, Inv',
         \/ Enqueued /\ pc' = "claim"
         \/ SettleTerminal /\ pc' = "commit"
         \/ SettleFailure /\ pc' = "commitFailure"
  PROVE  Parts'
<1>0. Shapes
  BY InvShapes DEF IInv
<1>1. CASE Enqueued /\ pc' = "claim"
  <2>1. /\ pc = "enqueue" /\ reply[Loop] = "ok" /\ Consumed(Loop) /\ cur' = cur
        /\ Ask(Loop, "claim", cur)
        /\ UNCHANGED <<aborted, status, interjectSeq, applying, pending, entered,
                       clientVars, listed, items, received, transcript>>
    BY <1>1 DEF Enqueued, Goes, Throws, Elsewhere, durableVars, bufferVars, recoveryVars
  <2>2. cur \in Item /\ cur.msg \in entered
    BY <1>0, <2>1 DEF Shapes, InHand, IInv, Parts, Stages
  <2>3. ~Waits(Loop)
    BY <2>1, LoopAwaits DEF IInv, Parts
  <2>4. reply'[Loop] = "none" /\ \A m \in Message : reply'[m] = reply[m]
    BY <1>0, <2>1, LoopConsumes
  <2>5. status = "running"
    BY <2>1, StillRunning
  <2>6. [by |-> Loop, kind |-> "claim", item |-> cur] \in Calls
    BY <2>2, ItemFields DEF Calls, Kinds
  <2>7. LoopAsks("claim", cur)
    BY <1>1, <2>1, <2>3, <2>4 DEF LoopAsks
  <2> QED BY <2>1, <2>2, <2>5, <2>6, <2>7, AsksKeeps
<1>2. CASE \/ SettleTerminal /\ pc' = "commit"
           \/ SettleFailure /\ pc' = "commitFailure"
  <2>1. PICK kind \in {"settle", "discard"} : Ask(Loop, kind, NoItem)
    BY <1>2 DEF SettleTerminal, SettleFailure, AskToSettle, Throws, Leaves
  <2>2. /\ pc \in {"settle", "failed"} /\ pc' \in {"commit", "commitFailure"}
        /\ UNCHANGED <<aborted, status, interjectSeq, applying, pending, entered,
                       clientVars, listed, items, received, transcript, reply>>
    BY <1>2 DEF SettleTerminal, SettleFailure, AskToSettle, Throws, Leaves, Goes,
       Elsewhere, durableVars, bufferVars, recoveryVars
  <2>3. ~Waits(Loop) /\ reply[Loop] = "none"
    BY <2>2, LoopAwaits DEF IInv, Parts
  <2>4. status = "running"
    BY <2>2, StillRunning
  <2>5. [by |-> Loop, kind |-> kind, item |-> NoItem] \in Calls
    BY ItemFields DEF Calls, Kinds
  <2>6. LoopAsks(kind, NoItem)
    BY <2>1, <2>2, <2>3 DEF LoopAsks
  <2> QED BY <2>2, <2>4, <2>5, <2>6, AsksKeeps
<1> QED BY <1>1, <1>2

\* The round that finds a message takes the first of the buffer.
LEMMA RoundStartsKeeps ==
  ASSUME IInv, Inv', RoundStarts, pc' = "enqueue"
  PROVE  Parts'
<1>0. Shapes /\ Shapes'
  BY BothShapes DEF IInv
<1>1. /\ pc = "top" /\ items # <<>> /\ cur' = Head(items) /\ ~aborted
      /\ Ask(Loop, "enqueue", cur')
      /\ UNCHANGED <<aborted, status, interjectSeq, applying, pending, entered,
                     clientVars, listed, items, received, transcript, reply>>
  BY DEF RoundStarts, Ends, Elsewhere, durableVars, recoveryVars, bufferVars,
         ModelListens, Goes
<1>2. PICK x \in Item : x = cur' /\ x \in ToSet(items)
  BY <1>0, <1>1, ToSetHeadTail DEF Shapes
<1>3. [by |-> Loop, kind |-> "enqueue", item |-> x] \in Calls
  BY <1>2, ItemFields DEF Calls, Kinds
<1>4. ~Waits(Loop) /\ reply[Loop] = "none"
  BY <1>1, LoopAwaits DEF IInv, Parts
<1>5. LoopAsks("enqueue", x)
  BY <1>1, <1>2, <1>4 DEF LoopAsks
<1>6. /\ Asks' /\ Held' = Held /\ (\A m \in Message : Sending(m)' <=> Sending(m))
      /\ \A c : Waits(c)' <=> Waits(c) \/ c = Loop
      /\ \A c, d : Precedes(c, d)' <=> Precedes(c, d) \/ (Waits(c) /\ d = Loop)
  BY <1>3, <1>5, LoopAsksCalls
<1>7. /\ UNCHANGED <<aborted, status, interjectSeq, applying, pending, entered,
                     transcript, told, mine, listed, items, received, reply>>
      /\ \A n : Own(n)' = Own(n)
      /\ pc' = "enqueue" /\ pc = "top" /\ cur' = x
  BY <1>1, <1>2 DEF clientVars, Own
<1>8. told[x.msg] # "nothing" /\ x.seq = mine[x.msg] /\ x.seq <= received /\ Behind(x)
      /\ x = Own(x.msg) /\ x.msg \in Message
  BY <1>0, <1>2, ItemFields DEF IInv, Parts, Owned, Numbered, Served, Shapes
<1>9. Owned'
  BY <1>6, <1>7, <1>8 DEF IInv, Parts, Owned
<1>10. Entries'
  <2>1. \A m \in Message : Sending(m) => Precedes(m, Loop)'
    BY <1>6 DEF Sending
  <2> QED BY <1>6, <1>7, <2>1 DEF IInv, Parts, Entries
<1>11. InTurn' /\ Numbered'
  BY <1>7, <1>8 DEF IInv, Parts, InTurn, Numbered
<1>12. status = "running"
  BY <1>7, StillRunning
<1>13. Stages'
  BY <1>4, <1>7, <1>12 DEF IInv, Parts, Stages
<1>14. Said'
  BY <1>6, <1>7 DEF IInv, Parts, Said
<1>15. Served'
  <2>1. \A y : Behind(y) => Behind(y)'
    BY <1>6, <1>7 DEF Behind
  <2>2. \A y \in ToSet(items)' : Behind(y)'
    BY <1>7, <2>1 DEF IInv, Parts, Served
  <2>3. Behind(x)'
    BY <1>8, <2>1
  <2>4. Behind(cur)'
    BY <1>7, <2>3 DEF Behind
  <2> QED BY <2>2, <2>4 DEF Served
<1>16. Refusals'
  <2> SUFFICES ASSUME NEW m \in Message, Refused(m)
               PROVE  /\ m \notin entered
                      /\ \/ Never(m) \/ aborted \/ Own(m) \notin ToSet(items)
                         \/ told[m] = "sending" /\ mine[m] > interjectSeq + 1
                      /\ x = Own(m) =>
                           \/ Never(m)
                           \/ /\ mine[m] > interjectSeq + 1
                              /\ \A n \in Message : Sending(n) => mine[n] > mine[m]
    BY <1>6, <1>7 DEF Refusals, Refused, Never
  <2>1. /\ m \notin entered
        /\ \/ Never(m) \/ aborted \/ Own(m) \notin ToSet(items)
           \/ told[m] = "sending" /\ mine[m] > interjectSeq + 1
    BY DEF IInv, Parts, Refusals
  <2>2. ASSUME x = Own(m), ~Never(m)
        PROVE  \A n \in Message : Sending(n) => mine[n] > mine[m]
    <3>1. told[m] = "sending" /\ x.seq = mine[m] /\ x.msg = m
      BY <1>0, <1>1, <1>2, <2>1, <2>2 DEF Shapes, Owns
    <3>2. reply[m] # "none"
      BY <3>1 DEF Refused
    <3>3. ~Waits(m)
      BY <3>2 DEF IInv, Parts, Asks, Waits
    <3>4. \A n : ~Precedes(n, m)
      BY <3>3, PrecedesOne
    <3>5. ~(x.seq <= interjectSeq)
      BY <2>2, <3>1 DEF Never
    <3> QED BY <1>8, <3>1, <3>3, <3>4, <3>5 DEF Behind, Sending
  <2> QED BY <1>1, <1>2, <2>1, <2>2
<1> QED BY <1>6, <1>9, <1>10, <1>11, <1>13, <1>14, <1>15, <1>16 DEF Parts

\* The message being applied is in the transcript afterwards, appended or found.
LEMMA AppendKeeps ==
  ASSUME IInv, Inv', AppendTranscript
  PROVE  Parts'
<1>0. Shapes /\ Shapes'
  BY BothShapes DEF IInv
<1>1. /\ pc = "append" /\ pc' = "complete" /\ cur' = cur
      /\ Ask(Loop, "complete", cur)
      /\ UNCHANGED <<aborted, status, interjectSeq, applying, pending, entered,
                     clientVars, listed, items, received, reply>>
  BY DEF AppendTranscript, Goes, recoveryVars, bufferVars
<1>2. applying = cur /\ cur \in Item /\ cur \in Held
  BY <1>0, <1>1, ItemFields DEF IInv, Parts, Stages, InHand, Shapes, Held
<1>3. cur.msg \in entered /\ cur.seq = mine[cur.msg] /\ cur = Own(cur.msg)
  BY <1>0, <1>2, Numbers DEF IInv, Parts
<1>4. ToSet(transcript)' = ToSet(transcript) \cup {cur}
  <2>1. CASE \E i \in DOMAIN transcript : transcript[i].seq = cur.seq
    <3>1. PICK x \in ToSet(transcript) : x.seq = cur.seq
      BY <2>1 DEF ToSet
    <3>2. x = cur
      BY <1>0, <1>3, <3>1, Numbers DEF IInv, Parts
    <3>3. transcript' = transcript
      BY <2>1 DEF AppendTranscript
    <3> QED BY <3>1, <3>2, <3>3
  <2>2. CASE ~\E i \in DOMAIN transcript : transcript[i].seq = cur.seq
    <3>1. transcript' = Append(transcript, cur)
      BY <2>2 DEF AppendTranscript
    <3> QED BY <1>0, <1>2, <3>1, ToSetAppend DEF Shapes
  <2> QED BY <2>1, <2>2
<1>5. [by |-> Loop, kind |-> "complete", item |-> cur] \in Calls
  BY <1>2, ItemFields DEF Calls, Kinds
<1>6. ~Waits(Loop) /\ reply[Loop] = "none"
  BY <1>1, LoopAwaits DEF IInv, Parts
<1>7. LoopAsks("complete", cur)
  BY <1>1, <1>6 DEF LoopAsks
<1>8. /\ Asks' /\ Held' = Held /\ (\A m \in Message : Sending(m)' <=> Sending(m))
      /\ \A c : Waits(c)' <=> Waits(c) \/ c = Loop
      /\ \A c, d : Precedes(c, d)' <=> Precedes(c, d) \/ (Waits(c) /\ d = Loop)
  BY <1>5, <1>7, LoopAsksCalls
<1>9. /\ UNCHANGED <<aborted, status, interjectSeq, applying, pending, entered,
                     told, mine, listed, items, received, reply, cur>>
      /\ \A n : Own(n)' = Own(n)
  BY <1>1 DEF clientVars, Own
<1>10. Owned'
  <2>1. told[cur.msg] # "nothing" /\ cur.seq = mine[cur.msg]
    BY <1>2 DEF IInv, Parts, Owned
  <2> QED BY <1>4, <1>8, <1>9, <2>1 DEF IInv, Parts, Owned
<1>11. Entries'
  <2>1. ASSUME NEW n \in Message, Sending(n) PROVE cur # Own(n)
    <3>1. n \notin entered /\ Own(n).msg = n
      BY <1>0, <2>1 DEF IInv, Parts, Entries, Shapes, Owns
    <3> QED BY <1>3, <3>1
  <2> QED BY <1>3, <1>4, <1>8, <1>9, <2>1 DEF IInv, Parts, Entries
<1>12. InTurn'
  <2>1. \A x \in ToSet(pending) : cur.seq < x.seq
    BY <1>0, <1>2, ItemFields DEF IInv, Inv, Ordered, ToSet
  <2>2. cur.seq <= cur.seq
    BY <1>2, ItemFields
  <2> QED BY <1>2, <1>4, <1>9, <2>1, <2>2 DEF IInv, Parts, InTurn
<1>13. Numbered'
  BY <1>1, <1>9 DEF IInv, Parts, Numbered
<1>14. status = "running"
  BY <1>1, StillRunning
<1>15. Stages'
  BY <1>1, <1>2, <1>4, <1>6, <1>9, <1>14 DEF IInv, Parts, Stages
<1>16. Said'
  <2>1. Held \cup ToSet(transcript) = Held \cup ToSet(transcript)'
    BY <1>2, <1>4
  <2> QED BY <1>8, <1>9, <2>1 DEF IInv, Parts, Said
<1>17. Served'
  <2>1. \A y : Behind(y) => Behind(y)'
    BY <1>8, <1>9 DEF Behind
  <2> QED BY <1>1, <1>9, <2>1 DEF IInv, Parts, Served
<1>18. Refusals'
  <2>1. \A n \in Message : Refused(n)' <=> Refused(n)
    BY <1>9 DEF Refused
  <2> QED BY <1>1, <1>9, <2>1 DEF IInv, Parts, Refusals, Never
<1> QED BY <1>8, <1>10, <1>11, <1>12, <1>13, <1>15, <1>16, <1>17, <1>18 DEF Parts

-----------------------------------------------------------------------------
\* The run leaves its slot: the buffer is dropped, the checkpoint stays.
LEMMA DropKeeps ==
  ASSUME IInv, Inv', Leaves, ~Waits(Loop), reply'[Loop] = "none", asked' = asked,
         \A m \in Message : reply'[m] = reply[m],
         UNCHANGED <<durableVars, clientVars>>,
         listed' = listed \/ listed' = NoListing
  PROVE  Parts'
<1>0. Shapes /\ Shapes'
  BY BothShapes DEF IInv
<1>1. /\ UNCHANGED <<status, interjectSeq, applying, pending, transcript, entered,
                     told, mine>>
      /\ Held' = Held /\ \A n : Own(n)' = Own(n)
      /\ pc' = "off" /\ items' = <<>> /\ received' = 0 /\ aborted' = FALSE
  BY DEF Leaves, durableVars, clientVars, Held, Own
<1>2. ToSet(items)' = {} /\ RisesPast(items', interjectSeq)
  BY <1>1, ToSetEmpty, RisesPastEmpty
<1>3. /\ ToSet(listed.queue)' \subseteq ToSet(listed.queue)
      /\ listed'.seq <= interjectSeq
      /\ \A x \in ToSet(listed.queue)' : x.seq <= listed'.seq
  <2>1. CASE listed' = listed
    BY <2>1 DEF IInv, Parts, Numbered
  <2>2. CASE listed' = NoListing
    <3>1. listed'.seq = -1 /\ ToSet(listed.queue)' = {}
      BY <2>2, ToSetEmpty DEF NoListing
    <3>2. interjectSeq \in Nat
      BY <1>0, Counts
    <3> QED BY <3>1, <3>2
  <2> QED BY <2>1, <2>2
<1>4. \A c : Waits(c)' = Waits(c)
  BY DEF Waits
<1>5. \A c, d : Precedes(c, d)' = Precedes(c, d)
  BY DEF Precedes
<1>6. \A n \in Message : Sending(n)' <=> Sending(n)
  BY <1>1, <1>4 DEF Sending
<1>7. Asks'
  <2>1. \A e \in ToSet(asked) : e.by # Loop
    BY DEF Waits
  <2>2. \A e \in ToSet(asked) : Sensible(e)' /\ reply'[e.by] = "none"
    BY <1>1, <2>1 DEF IInv, Parts, Asks, Sensible
  <2>3. \A c, d \in Caller : reply'[c] # "none" /\ reply'[d] # "none" => c = d
    BY ItemFields DEF IInv, Parts, Asks
  <2>4. \A n \in Message : reply'[n] # "none" => told'[n] \in {"sending", "cancelling"}
    BY <1>1 DEF IInv, Parts, Asks
  <2>5. \A c : ~Precedes(c, c)'
    BY <1>5 DEF IInv, Parts, Asks
  <2> QED BY <2>2, <2>3, <2>4, <2>5 DEF Asks
<1>8. Owned'
  BY <1>1, <1>2, <1>3 DEF IInv, Parts, Owned, InHand
<1>9. Entries'
  BY <1>1, <1>3, <1>6 DEF IInv, Parts, Entries, InHand
<1>10. InTurn' /\ Numbered' /\ Stages'
  BY <1>1, <1>2, <1>3 DEF IInv, Parts, InTurn, Numbered, Stages
<1>11. Said'
  BY <1>1 DEF IInv, Parts, Said
<1>12. Served'
  BY <1>1, <1>2 DEF Served
<1>13. Refusals'
  <2>1. \A n \in Message : Refused(n)' <=> Refused(n)
    BY <1>1 DEF Refused
  <2> QED BY <1>1, <1>2, <2>1 DEF IInv, Parts, Refusals, Never
<1> QED BY <1>7, <1>8, <1>9, <1>10, <1>11, <1>12, <1>13 DEF Parts

LEMMA LeavingStages ==
  ASSUME IInv, Inv', SettleFailure \/ Settled \/ RecoveryFails, Leaves
  PROVE  Parts'
<1>0. Shapes
  BY InvShapes DEF IInv
<1>1. CASE SettleFailure
  <2>1. pc = "failed" /\ UNCHANGED <<reply, asked, durableVars, clientVars, listed>>
    BY <1>1 DEF SettleFailure, AskToSettle, Goes, Leaves, recoveryVars
  <2>2. ~Waits(Loop) /\ reply[Loop] = "none"
    BY <2>1, LoopAwaits DEF IInv, Parts
  <2> QED BY <2>1, <2>2, DropKeeps
<1>2. CASE Settled \/ RecoveryFails
  <2>1. /\ Consumed(Loop) /\ UNCHANGED <<asked, durableVars, clientVars>>
        /\ listed' = listed \/ listed' = NoListing
        /\ pc = "restoring" \/ reply[Loop] # "none"
    BY <1>2 DEF Settled, RecoveryFails, recoveryVars
  <2>2. ~Waits(Loop)
    BY <2>1, LoopAwaits DEF IInv, Parts
  <2>3. reply'[Loop] = "none" /\ \A m \in Message : reply'[m] = reply[m]
    BY <1>0, <2>1, LoopConsumes
  <2> QED BY <2>1, <2>2, <2>3, DropKeeps
<1> QED BY <1>1, <1>2

LEMMA ExecutorKeeps == IInv /\ Inv' /\ Executor => Parts'
<1> SUFFICES ASSUME IInv, Inv', Executor PROVE Parts'
  OBVIOUS
<1>1. CASE Enqueued \/ Claimed \/ Completed
  BY <1>1, AnsweredStages, AskingStages
<1>2. CASE \/ RoundGoesOn \/ ToolCalls \/ ToolsDone \/ ResultResolved
           \/ RoundFails \/ LoopThrows \/ BufferCloses
  BY <1>2, FreeStages
<1>3. CASE RoundStarts
  BY <1>3, FreeStages, RoundStartsKeeps
<1>4. CASE SettleTerminal
  <2>1. pc' = "failed" \/ pc' = "commit"
    BY <1>4 DEF SettleTerminal, Throws, AskToSettle, Goes
  <2> QED BY <1>4, <2>1, FreeStages, AskingStages
<1>5. CASE SettleFailure
  <2>1. Leaves \/ pc' = "commitFailure"
    BY <1>5 DEF SettleFailure, AskToSettle, Goes
  <2> QED BY <1>5, <2>1, LeavingStages, AskingStages
<1>6. CASE Settled
  <2>1. Leaves \/ pc' = "failed"
    BY <1>6 DEF Settled, Goes
  <2> QED BY <1>6, <2>1, LeavingStages, SettledStays
<1> QED BY <1>1, <1>2, <1>3, <1>4, <1>5, <1>6, AppendKeeps DEF Executor

-----------------------------------------------------------------------------
\* Recovery.
LEMMA ListKeeps ==
  ASSUME IInv, Inv', ListCheckpoint
  PROVE  Parts'
<1>0. Shapes /\ CheckpointTypeOK
  BY InvShapes DEF IInv, Inv, Types
<1>1. /\ UNCHANGED <<aborted, pc, cur, status, interjectSeq, applying, pending,
                     transcript, entered, asked, reply, told, mine, items, received>>
      /\ listed' = [seq |-> interjectSeq, queue |-> Queue]
      /\ Held' = Held
  BY DEF ListCheckpoint, bufferVars, loopVars, durableVars, callVars, clientVars, Held
<1>2. ToSet(listed.queue)' = Held /\ listed'.seq = interjectSeq
  BY <1>0, <1>1, QueueHeld
<1>3. \A x \in Held : x.seq <= interjectSeq
  BY <1>0, Numbers DEF IInv, Parts
<1>4. (\A n : Own(n)' = Own(n)) /\ (\A c : Waits(c)' = Waits(c))
      /\ (\A c, d : Precedes(c, d)' = Precedes(c, d))
  BY <1>1 DEF Own, Waits, Precedes
<1>5. \A n \in Message : Sending(n)' = Sending(n)
  BY <1>1, <1>4 DEF Sending
<1>6. Asks'
  BY <1>1, <1>4 DEF IInv, Parts, Asks, Sensible
<1>7. Owned' /\ Entries'
  BY <1>1, <1>2, <1>4, <1>5 DEF IInv, Parts, Owned, Entries, InHand
<1>8. Numbered'
  BY <1>0, <1>1, <1>2, <1>3 DEF IInv, Parts, Numbered, Shapes
<1>9. InTurn' /\ Stages' /\ Said'
  BY <1>1, <1>4 DEF IInv, Parts, InTurn, Stages, Said
<1>10. Served'
  BY <1>1, <1>4, <1>5 DEF IInv, Parts, Served, Behind
<1>11. Refusals'
  BY <1>1, <1>4, <1>5 DEF IInv, Parts, Refusals, Refused, Never
<1> QED BY <1>6, <1>7, <1>8, <1>9, <1>10, <1>11 DEF Parts

LEMMA StartKeeps ==
  ASSUME IInv, Inv', RecoveryStarts
  PROVE  Parts'
<1>1. /\ pc = "off" /\ pc' = "recovering" /\ Ask(Loop, "round", NoItem)
      /\ UNCHANGED <<aborted, status, interjectSeq, applying, pending, entered,
                     clientVars, listed, items, received, transcript, reply>>
  BY DEF RecoveryStarts, Executing, durableVars
<1>2. ~Waits(Loop) /\ reply[Loop] = "none"
  BY <1>1, LoopAwaits DEF IInv, Parts
<1>3. [by |-> Loop, kind |-> "round", item |-> NoItem] \in Calls
  BY ItemFields DEF Calls, Kinds
<1>4. LoopAsks("round", NoItem)
  BY <1>1, <1>2 DEF LoopAsks
<1> QED BY <1>1, <1>3, <1>4, AsksKeeps

\* What the recovery puts in front of the buffer had entered before it was listed.
LEMMA RestoreKeeps ==
  ASSUME IInv, Inv', RecoveryRestores
  PROVE  Parts'
<1>0. Shapes /\ Shapes'
  BY BothShapes DEF IInv
<1>1. /\ UNCHANGED <<aborted, status, interjectSeq, applying, pending,
                     transcript, entered, asked, reply, told, mine, cur>>
      /\ pc = "restoring" /\ pc' = "top" /\ listed' = NoListing
      /\ items' = listed.queue \o items
      /\ received' = IF listed.seq > received THEN listed.seq ELSE received
  BY DEF RecoveryRestores, Restored, Goes, durableVars, callVars, clientVars
<1>2. ToSet(items)' = ToSet(listed.queue) \cup ToSet(items)
  BY <1>0, <1>1, ToSetConcat DEF Shapes
<1>3. \A x \in ToSet(listed.queue) :
        /\ x.seq <= interjectSeq /\ x.seq <= received' /\ x.msg \in entered
        /\ x \in Item
  <2>1. \A x \in ToSet(listed.queue) :
          x.seq <= listed.seq /\ x \in Item /\ x.seq \in Nat /\ x.msg \in entered
    BY <1>0, ItemFields DEF Shapes, IInv, Parts, Numbered, Entries
  <2>2. /\ listed.seq \in Int /\ received \in Nat /\ interjectSeq \in Nat
        /\ received' \in Nat
    BY <1>0, Counts DEF Shapes
  <2>3. listed.seq <= interjectSeq
    BY DEF IInv, Parts, Numbered
  <2>4. listed.seq <= received'
    BY <1>1, <2>2
  <2>5. ASSUME NEW x \in ToSet(listed.queue)
        PROVE  x.seq <= interjectSeq /\ x.seq <= received'
    <3>1. x.seq <= listed.seq /\ x.seq \in Nat
      BY <2>1
    <3> QED BY <2>2, <2>3, <2>4, <3>1
  <2> QED BY <2>1, <2>5
<1>4. received <= received'
  BY <1>0, <1>1 DEF Shapes
<1>5. ToSet(listed.queue)' = {} /\ listed'.seq = -1 /\ Held' = Held
  BY <1>1, ToSetEmpty DEF NoListing, Held
<1>6. (\A n : Own(n)' = Own(n)) /\ (\A c : Waits(c)' = Waits(c))
      /\ (\A c, d : Precedes(c, d)' = Precedes(c, d))
  BY <1>1 DEF Own, Waits, Precedes
<1>7. \A n \in Message : Sending(n)' = Sending(n)
  BY <1>1, <1>6 DEF Sending
<1>8. ~Waits(Loop) /\ reply[Loop] = "none"
  BY <1>1, LoopAwaits DEF IInv, Parts
<1>9. Asks'
  <2>1. \A e \in ToSet(asked) : e.by # Loop
    BY <1>8 DEF Waits
  <2> QED BY <1>1, <1>6, <1>8, <2>1 DEF IInv, Parts, Asks, Sensible
<1>10. Owned' /\ Entries'
  BY <1>1, <1>2, <1>5, <1>6, <1>7 DEF IInv, Parts, Owned, Entries, InHand
<1>11. InTurn'
  BY <1>1 DEF IInv, Parts, InTurn
<1>12. status = "running"
  BY <1>1, StillRunning
<1>13. Stages'
  BY <1>1, <1>12 DEF IInv, Parts, Stages
<1>14. Said'
  BY <1>1, <1>5, <1>6 DEF IInv, Parts, Said
<1>15. Numbered'
  <2>1. RisesPast(items', interjectSeq)
    <3>1. listed.queue \in Seq(Item) /\ items \in Seq(Item) /\ interjectSeq \in Int
      BY <1>0 DEF Shapes
    <3>2. RisesPast(items, interjectSeq)
      BY DEF IInv, Parts, Numbered
    <3>3. RisesPast(listed.queue \o items, interjectSeq)
      BY <1>3, <3>1, <3>2, RisesConcat
    <3> QED BY <1>1, <3>3
  <2>2. \A x \in ToSet(items) : x.seq <= received'
    <3>1. \A x \in ToSet(items) : x.seq <= received
      BY DEF IInv, Parts, Numbered
    <3>2. \A x \in ToSet(items) : x.seq \in Nat
      BY <1>0, Counts, ItemFields
    <3>3. received \in Nat /\ received' \in Nat
      BY <1>0, Counts DEF Shapes
    <3> QED BY <1>4, <3>1, <3>2, <3>3
  <2> QED BY <1>0, <1>1, <1>2, <1>3, <1>5, <2>1, <2>2 DEF Numbered, Shapes
<1>16. Served'
  <2>1. \A y : Behind(y) => Behind(y)'
    BY <1>1, <1>6, <1>7 DEF Behind
  <2>2. \A y \in ToSet(listed.queue) : Behind(y)
    BY <1>3 DEF Behind
  <2> QED BY <1>1, <1>2, <2>1, <2>2 DEF IInv, Parts, Served
<1>17. Refusals'
  <2>1. \A n \in Message : Refused(n)' <=> Refused(n)
    BY <1>1 DEF Refused
  <2>2. \A n \in Message : n \notin entered => Own(n) \notin ToSet(listed.queue)
    BY <1>0, <1>3 DEF Shapes, Owns
  <2> QED BY <1>1, <1>2, <1>6, <2>1, <2>2 DEF IInv, Parts, Refusals, Never
<1> QED BY <1>9, <1>10, <1>11, <1>13, <1>14, <1>15, <1>16, <1>17 DEF Parts

LEMMA RecoveryKeeps == IInv /\ Inv' /\ Recovery => Parts'
<1>1. RecoveryFails => Leaves
  BY DEF RecoveryFails
<1> QED BY <1>1, ListKeeps, StartKeeps, SettledStays, RestoreKeeps, LeavingStages
        DEF Recovery

\* A crash: nobody waits any more.
LEMMA CrashKeeps ==
  ASSUME IInv, Inv', Crash
  PROVE  Parts'
<1>0. Shapes /\ Shapes'
  BY BothShapes DEF IInv
<1>1. /\ UNCHANGED <<status, interjectSeq, applying, pending, transcript, entered, mine>>
      /\ pc' = "off" /\ items' = <<>> /\ received' = 0 /\ aborted' = FALSE
      /\ asked' = <<>> /\ reply' = [c \in Caller |-> "none"] /\ listed' = NoListing
      /\ Held' = Held /\ \A n : Own(n)' = Own(n)
  BY DEF Crash, Leaves, durableVars, Held, Own
<1>2. \A m \in Message :
        told'[m] = IF told[m] \in {"sending", "cancelling"} THEN "unsure" ELSE told[m]
  BY DEF Crash
<1>3. ToSet(items)' = {} /\ RisesPast(items', interjectSeq) /\ ToSet(asked)' = {}
      /\ ToSet(listed.queue)' = {} /\ listed'.seq = -1
  BY <1>1, ToSetEmpty, RisesPastEmpty DEF NoListing
<1>4. \A c \in Caller : reply'[c] = "none"
  BY <1>1
<1>5. Asks'
  <2>1. \A c : ~Precedes(c, c)'
    BY <1>1 DEF Precedes
  <2> QED BY <1>3, <1>4, <2>1, ItemFields DEF Asks
<1>6. \A m \in Message : ~Sending(m)' /\ (told[m] # "nothing" => told'[m] # "nothing")
  BY <1>2, <1>3 DEF Sending, Waits
<1>7. Owned'
  <2>1. \A x \in Item : told[x.msg] # "nothing" => told'[x.msg] # "nothing"
    BY <1>6, ItemFields
  <2> QED BY <1>0, <1>1, <1>3, <2>1 DEF IInv, Parts, Owned, InHand, Shapes
<1>8. Entries'
  BY <1>0, <1>1, <1>3, <1>6 DEF IInv, Parts, Entries, Shapes
<1>9. InTurn' /\ Numbered' /\ Stages' /\ Served'
  BY <1>0, <1>1, <1>3 DEF IInv, Parts, InTurn, Numbered, Stages, Served, Shapes
<1>10. \A m \in Message : reply'[m] = "none"
  BY <1>4, ItemFields
<1>11. Said'
  BY <1>1, <1>2, <1>10 DEF IInv, Parts, Said
<1>12. Refusals'
  <2>1. \A m \in Message : Refused(m)' => Refused(m)
    BY <1>2, <1>10 DEF Refused
  <2> QED BY <1>1, <1>3, <2>1 DEF IInv, Parts, Refusals
<1> QED BY <1>5, <1>7, <1>8, <1>9, <1>11, <1>12 DEF Parts

LEMMA StutterKeeps == IInv /\ Inv' /\ UNCHANGED vars => Parts'
<1> SUFFICES ASSUME IInv, UNCHANGED vars PROVE Parts'
  OBVIOUS
<1>1. /\ UNCHANGED <<aborted, pc, cur, status, interjectSeq, applying, pending,
                     transcript, entered, asked, reply, told, mine, items,
                     received, listed>>
  BY DEF vars, bufferVars, loopVars, durableVars, callVars, clientVars, recoveryVars
<1>2. (\A n : Own(n)' = Own(n)) /\ (\A c : Waits(c)' = Waits(c))
      /\ (\A c, d : Precedes(c, d)' = Precedes(c, d)) /\ Held' = Held
  BY <1>1 DEF Own, Waits, Precedes, Held
<1>3. \A n \in Message : Sending(n)' = Sending(n)
  BY <1>1, <1>2 DEF Sending
<1>4. Asks' /\ Owned' /\ Entries'
  BY <1>1, <1>2, <1>3 DEF IInv, Parts, Asks, Sensible, Owned, Entries, InHand
<1>5. InTurn' /\ Stages' /\ Said' /\ Numbered'
  BY <1>1, <1>2 DEF IInv, Parts, InTurn, Stages, Said, Numbered
<1>6. Served' /\ Refusals'
  BY <1>1, <1>2, <1>3 DEF IInv, Parts, Served, Behind, Refusals, Refused, Never
<1> QED BY <1>4, <1>5, <1>6 DEF Parts

-----------------------------------------------------------------------------
LEMMA PartsStep == IInv /\ Inv' /\ [Next]_vars => Parts'
BY StoreKeeps, ClientKeeps, ExecutorKeeps, RecoveryKeeps, CrashKeeps, StutterKeeps
   DEF Next

\* The inductive invariant holds in every run.
THEOREM PartsHold == Spec => []IInv
<1>1. Init => IInv
  BY InitInv, InitParts DEF IInv
<1>2. IInv /\ [Next]_vars => IInv'
  <2>1. IInv /\ [Next]_vars => Inv'
    BY NextInv, StutterInv DEF IInv
  <2> QED BY <2>1, PartsStep DEF IInv
<1> QED BY <1>1, <1>2, PTL DEF Spec

-----------------------------------------------------------------------------
LEMMA ToldFollows == IInv => ToldIsTrue
<1> SUFFICES ASSUME IInv, NEW m \in Message
             PROVE  LET applied == \E i \in DOMAIN transcript : transcript[i].msg = m IN
                    /\ told[m] = "refused" => m \notin entered
                    /\ told[m] = "cancelled" => ~applied
                    /\ told[m] \in {"accepted", "kept"} =>
                         m \in entered /\ (status = "settled" => applied)
  BY DEF ToldIsTrue
<1> DEFINE applied == \E i \in DOMAIN transcript : transcript[i].msg = m
<1>0. Shapes
  BY InvShapes DEF IInv
<1>1. applied <=> Own(m) \in ToSet(transcript)
  <2>1. ASSUME NEW i \in DOMAIN transcript, transcript[i].msg = m
        PROVE  Own(m) \in ToSet(transcript)
    <3>1. PICK x \in ToSet(transcript) : x = transcript[i]
      BY DEF ToSet
    <3>2. x = Own(x.msg)
      BY <1>0, Numbers DEF IInv, Parts
    <3> QED BY <2>1, <3>1, <3>2
  <2>2. ASSUME Own(m) \in ToSet(transcript) PROVE applied
    <3>1. PICK i \in DOMAIN transcript : transcript[i] = Own(m)
      BY <2>2 DEF ToSet
    <3>2. Own(m).msg = m
      BY <1>0 DEF Shapes, Owns
    <3> QED BY <3>1, <3>2
  <2> QED BY <2>1, <2>2
<1> HIDE DEF applied
<1>2. told[m] = "refused" => m \notin entered
  BY DEF IInv, Parts, Refusals, Refused
<1>3. told[m] = "cancelled" => ~applied
  BY <1>1 DEF IInv, Parts, Said
<1>4. status = "settled" => Held = {}
  BY ToSetEmpty DEF IInv, Parts, Stages, Held
<1>5. told[m] \in {"accepted", "kept"} => m \in entered /\ (status = "settled" => applied)
  BY <1>1, <1>4 DEF IInv, Parts, Said
<1> QED BY <1>2, <1>3, <1>5 DEF applied

\* What a client was told stays true, for any number of messages and recoveries,
\* and whatever writes fail: the answers of the store are the only ones, and what
\* a refused message would need to enter after all is gone.
THEOREM ClientsAreToldTheTruth == Spec => []ToldIsTrue
BY PartsHold, ToldFollows, PTL

\* The transcript never holds another message under the number being appended.
LEMMA AppendedOnce ==
  IInv => (pc = "append" => \A i \in DOMAIN transcript :
             transcript[i].seq = cur.seq => transcript[i].msg = cur.msg)
<1> SUFFICES ASSUME IInv, pc = "append", NEW i \in DOMAIN transcript,
                    transcript[i].seq = cur.seq
             PROVE  transcript[i].msg = cur.msg
  OBVIOUS
<1>0. Shapes
  BY InvShapes DEF IInv
<1>1. cur \in Held
  BY <1>0, ItemFields DEF IInv, Parts, Stages, InHand, Shapes, Held
<1>2. cur.seq = mine[cur.msg] /\ cur.msg \in entered
  BY <1>0, <1>1, Numbers DEF IInv, Parts
<1>3. transcript[i] = Own(cur.msg)
  <2>1. transcript[i] \in ToSet(transcript)
    BY DEF ToSet
  <2> QED BY <1>0, <1>2, <2>1, Numbers DEF IInv, Parts
<1> QED BY <1>3 DEF Own
=============================================================================
