---------------------------- MODULE BrokerProofs ----------------------------
(***************************************************************************)
(* Lemmas about the queues of Broker: which messages each of its           *)
(* operations keeps, and how many it leaves of every kind.  A kind of      *)
(* message is a set of messages, so that the lemmas need no operator as a  *)
(* parameter.                                                              *)
(***************************************************************************)
EXTENDS Broker, SequenceTheorems, WellFoundedInduction, FiniteSetTheorems, TLAPS

\* A set of numbers has a least element, and so the first ready message exists.
LEMMA LeastNumber ==
  ASSUME NEW T, T \subseteq Nat, T # {}
  PROVE  Min(T) \in T /\ \A y \in T : Min(T) <= y
<1> DEFINE R == OpToRel(<, Nat)
<1>1. IsWellFoundedOn(R, Nat)
  BY NatLessThanWellFounded
<1>2. ASSUME NEW x \in Nat, NEW y \in Nat, y < x
      PROVE  <<y, x>> \in R
  BY <1>2 DEF OpToRel
<1> HIDE DEF R
<1>3. PICK x \in T : \A y \in T : ~ (<<y, x>> \in R)
  BY <1>1, WFMin
<1>4. ASSUME NEW y \in T
      PROVE  x <= y
  <2>1. x \in Nat /\ y \in Nat
    OBVIOUS
  <2>2. ~(y < x)
    BY <1>2, <1>3, <2>1
  <2> QED
    BY <2>1, <2>2
<1> QED
  BY <1>4 DEF Min

\* Induction over the numbers, for a set of them instead of a predicate.
LEMMA NumberInduction ==
  ASSUME NEW T, 0 \in T, \A n \in Nat : n \in T => n + 1 \in T
  PROVE  Nat \subseteq T
<1> SUFFICES ASSUME Nat \ T # {}
             PROVE  FALSE
  OBVIOUS
<1>1. PICK x \in Nat \ T : \A y \in Nat \ T : x <= y
  BY LeastNumber
<1>2. x - 1 \in Nat /\ x - 1 \in T
  BY <1>1
<1> QED
  BY <1>1, <1>2

-----------------------------------------------------------------------------
(* Counting messages *)

Count(q, P) == Cardinality({k \in DOMAIN q : q[k] \in P})

LEMMA CountType ==
  ASSUME NEW M, NEW q \in Seq(M), NEW P
  PROVE  /\ IsFiniteSet({k \in DOMAIN q : q[k] \in P})
         /\ Count(q, P) \in Nat
         /\ Count(q, P) = 0 <=> \A k \in DOMAIN q : q[k] \notin P
<1> DEFINE K == {k \in DOMAIN q : q[k] \in P}
<1>1. IsFiniteSet(1 .. Len(q))
  BY FS_Interval
<1>2. K \in SUBSET (1 .. Len(q))
  OBVIOUS
<1>3. IsFiniteSet(K)
  BY <1>1, <1>2, FS_Subset
<1>4. Cardinality(K) \in Nat /\ (Cardinality(K) = 0 <=> K = {})
  BY <1>3, FS_CardinalityType, FS_EmptySet
<1> QED
  BY <1>3, <1>4 DEF Count

\* Queues of one length whose messages at every place agree on P.
LEMMA CountSame ==
  ASSUME NEW q, NEW p, DOMAIN q = DOMAIN p, NEW P, NEW Q,
         \A k \in DOMAIN q : q[k] \in P <=> p[k] \in Q
  PROVE  Count(q, P) = Count(p, Q)
<1>1. {k \in DOMAIN q : q[k] \in P} = {k \in DOMAIN p : p[k] \in Q}
  OBVIOUS
<1> QED
  BY <1>1 DEF Count

\* A kind counts as two kinds that partition it do.
LEMMA CountSplit ==
  ASSUME NEW M, NEW q \in Seq(M), NEW P, NEW Q, NEW R,
         P = Q \cup R, Q \cap R = {}
  PROVE  Count(q, P) = Count(q, Q) + Count(q, R)
<1> DEFINE K == {k \in DOMAIN q : q[k] \in Q}
           L == {k \in DOMAIN q : q[k] \in R}
<1>1. IsFiniteSet(K) /\ IsFiniteSet(L)
  BY CountType
<1>2. K \cap L = {} /\ {k \in DOMAIN q : q[k] \in P} = K \cup L
  OBVIOUS
<1>3. Cardinality({}) = 0 /\ Cardinality(K) \in Nat /\ Cardinality(L) \in Nat
  BY <1>1, FS_EmptySet, FS_CardinalityType
<1> HIDE DEF K, L
<1>4. Cardinality(K \cup L) =
        Cardinality(K) + Cardinality(L) - Cardinality(K \cap L)
  BY <1>1, FS_Union, Zenon
<1>5. Cardinality(K \cap L) = 0
  BY <1>2, <1>3, Zenon
<1>6. Cardinality(K \cup L) = Cardinality(K) + Cardinality(L)
  BY <1>3, <1>4, <1>5
<1> QED
  BY <1>2, <1>6 DEF Count, K, L

\* A queue of the same length with at least the messages of a kind.
LEMMA CountAtLeast ==
  ASSUME NEW M, NEW q, NEW p \in Seq(M), DOMAIN q = DOMAIN p, NEW P, NEW Q,
         \A k \in DOMAIN q : q[k] \in P => p[k] \in Q
  PROVE  Count(q, P) <= Count(p, Q)
<1> DEFINE K == {k \in DOMAIN q : q[k] \in P}
           L == {k \in DOMAIN p : p[k] \in Q}
<1>1. IsFiniteSet(L)
  BY CountType
<1>2. K \in SUBSET L
  OBVIOUS
<1> QED
  BY <1>1, <1>2, FS_Subset DEF Count

LEMMA CountAppend ==
  ASSUME NEW M, NEW q \in Seq(M), NEW m \in M
  PROVE  /\ Append(q, m) \in Seq(M)
         /\ DOMAIN Append(q, m) = 1 .. Len(q) + 1
         /\ \A k \in DOMAIN q : Append(q, m)[k] = q[k]
         /\ Append(q, m)[Len(q) + 1] = m
         /\ \A P : Count(Append(q, m), P) =
                     Count(q, P) + IF m \in P THEN 1 ELSE 0
<1> DEFINE p == Append(q, m)
<1>1. /\ p \in Seq(M) /\ DOMAIN p = 1 .. Len(q) + 1 /\ Len(q) \in Nat
      /\ DOMAIN q = 1 .. Len(q)
      /\ \A k \in DOMAIN q : p[k] = q[k]
      /\ p[Len(q) + 1] = m
  OBVIOUS
<1> HIDE DEF p
<1>2. ASSUME NEW P
      PROVE  Count(p, P) = Count(q, P) + IF m \in P THEN 1 ELSE 0
  <2> DEFINE K == {k \in DOMAIN q : q[k] \in P}
             L == {k \in DOMAIN p : p[k] \in P}
             n == Len(q) + 1
  <2>1. n \notin K /\ IsFiniteSet(K) /\ Cardinality(K) \in Nat
    BY <1>1, CountType DEF Count
  <2>2. L = IF m \in P THEN K \cup {n} ELSE K
    BY <1>1
  <2> HIDE DEF K, L, n
  <2>3. Cardinality(K \cup {n}) = Cardinality(K) + 1
    BY <2>1, FS_AddElement
  <2>4. Cardinality(L) = Cardinality(K) + IF m \in P THEN 1 ELSE 0
    BY <2>1, <2>2, <2>3
  <2> QED
    BY <2>4 DEF Count, K, L
<1> QED
  BY <1>1, <1>2 DEF p

\* One message is replaced by another.
LEMMA CountReplace ==
  ASSUME NEW M, NEW q \in Seq(M), NEW k \in DOMAIN q, NEW m \in M
  PROVE  /\ [q EXCEPT ![k] = m] \in Seq(M)
         /\ \A P : Count([q EXCEPT ![k] = m], P) =
                     Count(q, P) - (IF q[k] \in P THEN 1 ELSE 0)
                                 + (IF m \in P THEN 1 ELSE 0)
<1> DEFINE p == [q EXCEPT ![k] = m]
<1>1. /\ p \in Seq(M) /\ DOMAIN p = DOMAIN q
      /\ p[k] = m /\ \A j \in DOMAIN q \ {k} : p[j] = q[j]
  OBVIOUS
<1> HIDE DEF p
<1>2. ASSUME NEW P
      PROVE  Count(p, P) = Count(q, P) - (IF q[k] \in P THEN 1 ELSE 0)
                                       + (IF m \in P THEN 1 ELSE 0)
  <2> DEFINE K == {j \in DOMAIN q : q[j] \in P}
             L == {j \in DOMAIN p : p[j] \in P}
             O == K \ {k}
  <2>1. IsFiniteSet(K)
    BY CountType
  <2>2. /\ IsFiniteSet(O) /\ k \notin O
        /\ Cardinality(O) = IF k \in K THEN Cardinality(K) - 1
                                       ELSE Cardinality(K)
    BY <2>1, FS_RemoveElement
  <2>3. L = IF m \in P THEN O \cup {k} ELSE O
    BY <1>1
  <2>4. k \in K <=> q[k] \in P
    OBVIOUS
  <2>5. Cardinality(O) \in Nat /\ Cardinality(K) \in Nat
    BY <2>1, <2>2, FS_CardinalityType
  <2> HIDE DEF K, L, O
  <2>6. Cardinality(O \cup {k}) = Cardinality(O) + 1
    BY <2>2, FS_AddElement
  <2>7. Cardinality(L) = Cardinality(K) - (IF q[k] \in P THEN 1 ELSE 0)
                                        + (IF m \in P THEN 1 ELSE 0)
    BY <2>2, <2>3, <2>4, <2>5, <2>6
  <2> QED
    BY <2>7 DEF Count, K, L
<1> QED
  BY <1>1, <1>2 DEF p

\* One message is removed, and those behind it move up.
LEMMA CountRemove ==
  ASSUME NEW M, NEW q \in Seq(M), NEW k \in DOMAIN q
  PROVE  /\ RemoveAt(q, k) \in Seq(M)
         /\ \A j \in DOMAIN q \ {k} :
              \E i \in DOMAIN RemoveAt(q, k) : RemoveAt(q, k)[i] = q[j]
         /\ \A P : Count(RemoveAt(q, k), P) =
                     Count(q, P) - IF q[k] \in P THEN 1 ELSE 0
<1> DEFINE p == RemoveAt(q, k)
           n == Len(q)
           up == [i \in 1 .. n - 1 |-> IF i < k THEN i ELSE i + 1]
<1>1. n \in Nat /\ DOMAIN q = 1 .. n /\ k \in 1 .. n
  OBVIOUS
<1>2. /\ p \in Seq(M) /\ DOMAIN p = 1 .. n - 1
      /\ \A i \in 1 .. n - 1 : p[i] = q[up[i]]
  <2> DEFINE head == SubSeq(q, 1, k - 1)
             tail == SubSeq(q, k + 1, n)
  <2>1. /\ head \in Seq(M) /\ Len(head) = k - 1
        /\ \A i \in 1 .. k - 1 : head[i] = q[i]
    BY <1>1
  <2>2. /\ tail \in Seq(M) /\ Len(tail) = n - k
        /\ \A i \in 1 .. n - k : tail[i] = q[i + k]
    BY <1>1
  <2>3. p = head \o tail
    BY DEF RemoveAt
  <2> HIDE DEF head, tail, n, p
  <2>4. /\ p \in Seq(M) /\ Len(p) = n - 1
        /\ \A i \in 1 .. n - 1 :
             p[i] = IF i < k THEN head[i] ELSE tail[i - (k - 1)]
    <3>1. /\ p \in Seq(M) /\ Len(p) = Len(head) + Len(tail)
          /\ \A i \in 1 .. Len(head) + Len(tail) :
               p[i] = IF i <= Len(head) THEN head[i] ELSE tail[i - Len(head)]
      BY <2>1, <2>2, <2>3, ConcatProperties
    <3>2. /\ Len(head) + Len(tail) = n - 1
          /\ \A i \in Int : i <= Len(head) <=> i < k
      BY <1>1, <2>1, <2>2
    <3> QED
      BY <2>1, <3>1, <3>2
  <2>5. ASSUME NEW i \in 1 .. n - 1
        PROVE  p[i] = q[up[i]]
    <3>1. CASE i < k
      <4>1. i \in 1 .. k - 1 /\ up[i] = i
        BY <1>1, <3>1
      <4> QED
        BY <2>1, <2>4, <3>1, <4>1
    <3>2. CASE ~(i < k)
      <4>1. i - (k - 1) \in 1 .. n - k /\ up[i] = i + 1
        BY <1>1, <3>2
      <4>2. tail[i - (k - 1)] = q[i - (k - 1) + k]
        BY <2>2, <4>1
      <4>3. i - (k - 1) + k = i + 1
        BY <1>1
      <4> QED
        BY <2>4, <3>2, <4>1, <4>2, <4>3
    <3> QED
      BY <3>1, <3>2
  <2> QED
    BY <1>1, <2>4, <2>5
<1>3. /\ \A i \in 1 .. n - 1 : up[i] \in DOMAIN q \ {k}
      /\ \A i, j \in 1 .. n - 1 : up[i] = up[j] => i = j
  BY <1>1
<1>4. ASSUME NEW j \in DOMAIN q \ {k}
      PROVE  \E i \in 1 .. n - 1 : up[i] = j
  <2>1. CASE j < k
    BY <1>1, <2>1
  <2>2. CASE j > k
    <3>1. j - 1 \in 1 .. n - 1 /\ up[j - 1] = j
      BY <1>1, <2>2
    <3> QED
      BY <3>1
  <2> QED
    BY <1>1, <2>1, <2>2
<1> HIDE DEF p, n, up
<1>5. ASSUME NEW P
      PROVE  Count(p, P) = Count(q, P) - IF q[k] \in P THEN 1 ELSE 0
  <2> DEFINE K == {j \in DOMAIN q : q[j] \in P}
             L == {i \in DOMAIN p : p[i] \in P}
             f == [i \in L |-> up[i]]
  <2>1. IsFiniteSet(K) /\ IsFiniteSet(L)
    BY <1>2, CountType
  <2>2. f \in Bijection(L, K \ {k})
    <3>1. f \in [L -> K \ {k}]
      BY <1>2, <1>3
    <3>2. \A i, j \in L : f[i] = f[j] => i = j
      BY <1>2, <1>3
    <3>3. \A j \in K \ {k} : \E i \in L : f[i] = j
      BY <1>2, <1>4
    <3> HIDE DEF K, L, f
    <3> QED
      BY <3>1, <3>2, <3>3 DEF Bijection, Injection, Surjection, IsInjective
  <2>3. ExistsBijection(L, K \ {k})
    BY <2>2 DEF ExistsBijection
  <2>4. Cardinality(K \ {k}) = Cardinality(L)
    BY <2>1, <2>3, FS_Bijection
  <2>5. Cardinality(K \ {k}) = IF k \in K THEN Cardinality(K) - 1
                                          ELSE Cardinality(K)
    BY <2>1, FS_RemoveElement
  <2>6. k \in K <=> q[k] \in P
    OBVIOUS
  <2>7. Cardinality(K) \in Nat
    BY <2>1, FS_CardinalityType
  <2> HIDE DEF K, L
  <2>8. Cardinality(L) = Cardinality(K) - IF q[k] \in P THEN 1 ELSE 0
    BY <2>4, <2>5, <2>6, <2>7
  <2> QED
    BY <2>8 DEF Count, K, L
<1>6. ASSUME NEW j \in DOMAIN q \ {k}
      PROVE  \E i \in DOMAIN p : p[i] = q[j]
  BY <1>2, <1>4
<1> QED
  BY <1>2, <1>5, <1>6 DEF p

-----------------------------------------------------------------------------
(* The operations of a queue of messages that name an order of O and are   *)
(* held by a holder of H, or by nobody                                     *)

Messages(O, H) ==
  [order : O, deaths : Nat, reason : Reasons, holder : H \cup {Free}]

\* Two kinds of messages: of an order, and of a holder.
Of(O, H, o) == {m \in Messages(O, H) : m.order = o}
By(O, H, h) == {m \in Messages(O, H) : m.holder = h}

LEMMA FirstReadyIsReady ==
  ASSUME NEW O, NEW H, NEW q \in Seq(Messages(O, H)), Ready(q) # {}
  PROVE  /\ FirstReady(q) \in DOMAIN q
         /\ q[FirstReady(q)] \in Messages(O, H)
         /\ q[FirstReady(q)].holder = Free
<1>1. Ready(q) \subseteq DOMAIN q /\ DOMAIN q \subseteq Nat
  BY DEF Ready
<1>2. FirstReady(q) \in Ready(q)
  BY <1>1, LeastNumber DEF FirstReady
<1> QED
  BY <1>1, <1>2 DEF Ready

\* A channel gets the first message that nobody holds.
LEMMA HoldMessage ==
  ASSUME NEW O, NEW H, NEW q \in Seq(Messages(O, H)), Ready(q) # {}, NEW h \in H
  PROVE  LET k == FirstReady(q)
             m == [q[k] EXCEPT !.holder = h]
         IN  /\ m \in Messages(O, H) /\ m.holder = h /\ m.order = q[k].order
             /\ Hold(q, h) = [q EXCEPT ![k] = m]
             /\ Hold(q, h) \in Seq(Messages(O, H))
             /\ \A P : Count(Hold(q, h), P) =
                         Count(q, P) - (IF q[k] \in P THEN 1 ELSE 0)
                                     + (IF m \in P THEN 1 ELSE 0)
<1> DEFINE k == FirstReady(q)
           m == [q[k] EXCEPT !.holder = h]
<1>1. k \in DOMAIN q /\ q[k] \in Messages(O, H)
  BY FirstReadyIsReady
<1> HIDE DEF k
<1>2. m \in Messages(O, H) /\ m.holder = h /\ m.order = q[k].order
  BY <1>1 DEF Messages
<1>3. Hold(q, h) = [q EXCEPT ![k] = m]
  BY DEF Hold, k
<1> HIDE DEF m
<1>4. /\ Hold(q, h) \in Seq(Messages(O, H))
      /\ \A P : Count(Hold(q, h), P) =
                  Count(q, P) - (IF q[k] \in P THEN 1 ELSE 0)
                              + (IF m \in P THEN 1 ELSE 0)
  <2>1. /\ [q EXCEPT ![k] = m] \in Seq(Messages(O, H))
        /\ \A P : Count([q EXCEPT ![k] = m], P) =
                    Count(q, P) - (IF q[k] \in P THEN 1 ELSE 0)
                                + (IF m \in P THEN 1 ELSE 0)
    BY <1>1, <1>2, CountReplace, Zenon
  <2> QED
    BY <1>3, <2>1, Zenon
<1> QED
  BY <1>2, <1>3, <1>4, Zenon DEF k, m

\* The message of a holder that has one.
LEMMA HeldMessage ==
  ASSUME NEW O, NEW H, NEW q \in Seq(Messages(O, H)), NEW h,
         Count(q, By(O, H, h)) # 0
  PROVE  /\ HeldAt(q, h) \in DOMAIN q
         /\ Held(q, h) = q[HeldAt(q, h)]
         /\ Held(q, h) \in Messages(O, H)
         /\ Held(q, h).holder = h
<1>1. PICK k \in DOMAIN q : q[k] \in By(O, H, h)
  BY CountType
<1>2. q[k].holder = h
  BY <1>1 DEF By
<1>3. HeldAt(q, h) \in DOMAIN q /\ q[HeldAt(q, h)].holder = h
  BY <1>2 DEF HeldAt
<1> QED
  BY <1>3 DEF Held

\* An ack removes it and nothing else.
LEMMA AckMessage ==
  ASSUME NEW O, NEW H, NEW q \in Seq(Messages(O, H)), NEW h,
         Count(q, By(O, H, h)) # 0
  PROVE  /\ Acked(q, h) \in Seq(Messages(O, H))
         /\ \A j \in DOMAIN q \ {HeldAt(q, h)} :
              \E i \in DOMAIN Acked(q, h) : Acked(q, h)[i] = q[j]
         /\ \A P : Count(Acked(q, h), P) =
                     Count(q, P) - IF Held(q, h) \in P THEN 1 ELSE 0
BY HeldMessage, CountRemove DEF Acked

\* The head of the ready messages leaves.
LEMMA RemoveReady ==
  ASSUME NEW O, NEW H, NEW q \in Seq(Messages(O, H)), Ready(q) # {}
  PROVE  LET k == FirstReady(q)
         IN  /\ RemoveAt(q, k) \in Seq(Messages(O, H))
             /\ \A j \in DOMAIN q \ {k} :
                  \E i \in DOMAIN RemoveAt(q, k) : RemoveAt(q, k)[i] = q[j]
             /\ \A P : Count(RemoveAt(q, k), P) =
                         Count(q, P) - IF q[k] \in P THEN 1 ELSE 0
BY FirstReadyIsReady, CountRemove

\* Holders lose their messages, which stay where they are.
LEMMA ReleaseMessages ==
  ASSUME NEW O, NEW H, NEW q \in Seq(Messages(O, H)), NEW hs
  PROVE  /\ Release(q, hs) \in Seq(Messages(O, H))
         /\ DOMAIN Release(q, hs) = DOMAIN q
         /\ \A k \in DOMAIN q :
              /\ Release(q, hs)[k].order = q[k].order
              /\ Release(q, hs)[k] = q[k] \/ Release(q, hs)[k].holder = Free
              /\ q[k].holder \notin hs => Release(q, hs)[k] = q[k]
              /\ q[k].holder \in hs => Release(q, hs)[k].holder = Free
<1> DEFINE p == Release(q, hs)
           n == Len(q)
<1>1. n \in Nat /\ DOMAIN q = 1 .. n
      /\ \A k \in 1 .. n : q[k] \in Messages(O, H)
  OBVIOUS
<1>2. p = [k \in 1 .. n |-> IF q[k].holder \in hs THEN Freed(q[k]) ELSE q[k]]
  BY <1>1 DEF Release
<1>3. ASSUME NEW m \in Messages(O, H)
      PROVE  /\ Freed(m) \in Messages(O, H)
             /\ Freed(m).order = m.order /\ Freed(m).holder = Free
  BY DEF Freed, Messages
<1> HIDE DEF p, n
<1>4. p \in [1 .. n -> Messages(O, H)]
  BY <1>1, <1>2, <1>3
<1>5. p \in Seq(Messages(O, H)) /\ DOMAIN p = DOMAIN q
  BY <1>1, <1>4, SeqDef
<1> QED
  BY <1>1, <1>2, <1>3, <1>5 DEF p

\* So they count as before by their orders, and as nobody's by their holders.
LEMMA ReleaseCounts ==
  ASSUME NEW O, NEW H, NEW q \in Seq(Messages(O, H)), NEW hs, Free \notin hs
  PROVE  /\ \A o : Count(Release(q, hs), Of(O, H, o)) = Count(q, Of(O, H, o))
         /\ \A h \in hs : Count(Release(q, hs), By(O, H, h)) = 0
         /\ \A h : h # Free /\ h \notin hs =>
              Count(Release(q, hs), By(O, H, h)) = Count(q, By(O, H, h))
<1> DEFINE p == Release(q, hs)
<1>1. /\ p \in Seq(Messages(O, H)) /\ DOMAIN p = DOMAIN q
      /\ \A k \in DOMAIN q :
           /\ q[k] \in Messages(O, H) /\ p[k] \in Messages(O, H)
           /\ p[k].order = q[k].order
           /\ p[k] = q[k] \/ p[k].holder = Free
           /\ q[k].holder \notin hs => p[k] = q[k]
           /\ q[k].holder \in hs => p[k].holder = Free
  BY ReleaseMessages
<1> HIDE DEF p
<1>2. ASSUME NEW o
      PROVE  Count(p, Of(O, H, o)) = Count(q, Of(O, H, o))
  BY <1>1, CountSame DEF Of
<1>3. ASSUME NEW h \in hs
      PROVE  Count(p, By(O, H, h)) = 0
  <2>1. \A k \in DOMAIN p : p[k] \notin By(O, H, h)
    BY <1>1 DEF By
  <2> QED
    BY <1>1, <2>1, CountType
<1>4. ASSUME NEW h, h # Free, h \notin hs
      PROVE  Count(p, By(O, H, h)) = Count(q, By(O, H, h))
  BY <1>1, <1>4, CountSame DEF By
<1> QED
  BY <1>2, <1>3, <1>4 DEF p

-----------------------------------------------------------------------------
(* The purge: what it keeps, message by message *)

HeldKind(O, H) == {m \in Messages(O, H) : m.holder # Free}

\* The function that collects the held messages of the first n places.
Collects(q, f, n) ==
  f = [k \in 0 .. n |->
         IF k = 0 THEN <<>>
         ELSE IF q[k].holder = Free THEN f[k - 1] ELSE Append(f[k - 1], q[k])]

LEMMA CollectionExists ==
  ASSUME NEW M, NEW q \in Seq(M)
  PROVE  \A n \in Nat : \E f : Collects(q, f, n)
<1> DEFINE T == {n \in Nat : \E f : Collects(q, f, n)}
<1>1. 0 \in T
  <2> DEFINE f == [k \in 0 .. 0 |-> <<>>]
  <2>1. Collects(q, f, 0)
    BY DEF Collects
  <2> QED
    BY <2>1
<1>2. ASSUME NEW n \in Nat, n \in T
      PROVE  n + 1 \in T
  <2>1. PICK f : Collects(q, f, n)
    BY <1>2
  <2> DEFINE g == [k \in 0 .. n + 1 |->
                     IF k <= n THEN f[k]
                     ELSE IF q[k].holder = Free THEN f[k - 1]
                     ELSE Append(f[k - 1], q[k])]
  <2>2. \A k \in 0 .. n :
          f[k] = IF k = 0 THEN <<>>
                 ELSE IF q[k].holder = Free THEN f[k - 1]
                 ELSE Append(f[k - 1], q[k])
    BY <2>1 DEF Collects
  <2>3. ASSUME NEW k \in 0 .. n + 1
        PROVE  g[k] = IF k = 0 THEN <<>>
                      ELSE IF q[k].holder = Free THEN g[k - 1]
                      ELSE Append(g[k - 1], q[k])
    <3>1. CASE k = 0
      BY <2>2, <3>1
    <3>2. CASE k # 0
      <4>1. k - 1 \in 0 .. n /\ g[k - 1] = f[k - 1]
        BY <3>2
      <4>2. CASE k <= n
        BY <2>2, <3>2, <4>1, <4>2
      <4>3. CASE ~(k <= n)
        BY <3>2, <4>1, <4>3
      <4> QED
        BY <4>2, <4>3
    <3> QED
      BY <3>1, <3>2
  <2>4. DOMAIN g = 0 .. n + 1
    OBVIOUS
  <2> HIDE DEF g
  <2>5. g = [k \in 0 .. n + 1 |-> g[k]]
    BY <2>4 DEF g
  <2>6. Collects(q, g, n + 1)
    BY <2>3, <2>5 DEF Collects
  <2> QED
    BY <2>6
<1> HIDE DEF T
<1>3. Nat \subseteq T
  BY <1>1, <1>2, NumberInduction
<1> QED
  BY <1>3 DEF T

\* A purge keeps every message that somebody holds and no other.
LEMMA PurgeQueue ==
  ASSUME NEW O, NEW H, NEW q \in Seq(Messages(O, H))
  PROVE  /\ Purged(q) \in Seq(Messages(O, H))
         /\ \A P : Count(Purged(q), P) = Count(q, P \cap HeldKind(O, H))
<1> DEFINE n == Len(q)
           f == CHOOSE g : Collects(q, g, n)
           M == Messages(O, H)
<1>1. n \in Nat /\ \A k \in 1 .. n : q[k] \in M
  OBVIOUS
<1>2. Collects(q, f, n)
  BY <1>1, CollectionExists
<1>3. Purged(q) = f[n]
  BY DEF Purged, Collects
<1>4. \A k \in 0 .. n :
        f[k] = IF k = 0 THEN <<>>
               ELSE IF q[k].holder = Free THEN f[k - 1]
               ELSE Append(f[k - 1], q[k])
  BY <1>2 DEF Collects
<1> HIDE DEF f, M
<1>5. ASSUME NEW P
      PROVE  f[n] \in Seq(M) /\ Count(f[n], P) = Count(q, P \cap HeldKind(O, H))
  <2> DEFINE Q == P \cap HeldKind(O, H)
             first(k) == SubSeq(q, 1, k)
             Good(k) == f[k] \in Seq(M) /\ Count(f[k], P) = Count(first(k), Q)
             T == {k \in Nat : k <= n => Good(k)}
  <2>1. 0 \in T
    <3>1. f[0] = <<>> /\ first(0) = <<>>
      BY <1>1, <1>4
    <3>2. <<>> \in Seq(M) /\ Count(<<>>, P) = Count(<<>>, Q)
      <4>1. DOMAIN <<>> = {}
        OBVIOUS
      <4> QED
        BY <4>1, CountSame
    <3> QED
      BY <3>1, <3>2
  <2>2. ASSUME NEW k \in Nat, k + 1 <= n, Good(k)
        PROVE  Good(k + 1)
    <3>1. /\ k + 1 \in 1 .. n /\ k <= n /\ k + 1 \in 0 .. n /\ k + 1 # 0
          /\ k + 1 - 1 = k
      BY <1>1, <2>2
    <3>2. f[k + 1] = IF q[k + 1].holder = Free THEN f[k]
                     ELSE Append(f[k], q[k + 1])
      BY <1>4, <3>1
    <3>3. q[k + 1] \in M
      BY <1>1, <3>1 DEF M
    <3>4. first(k) \in Seq(M) /\ first(k + 1) = Append(first(k), q[k + 1])
      BY <1>1, <3>1 DEF M
    <3> DEFINE m == q[k + 1]
               s == first(k)
    <3> HIDE DEF first, n, m, s, Q
    <3>5. s \in Seq(M) /\ m \in M /\ first(k + 1) = Append(s, m)
      BY <3>3, <3>4 DEF m, s
    <3>6. Count(first(k + 1), Q) = Count(s, Q) + IF m \in Q THEN 1 ELSE 0
      <4>1. Count(Append(s, m), Q) = Count(s, Q) + IF m \in Q THEN 1 ELSE 0
        BY <3>5, CountAppend, Zenon
      <4> QED
        BY <3>5, <4>1, Zenon
    <3>7. Count(s, Q) \in Nat
      BY <3>5, CountType
    <3>8. m \in Q <=> m \in P /\ m.holder # Free
      BY <3>5 DEF HeldKind, Q, M
    <3>9. f[k] \in Seq(M) /\ Count(f[k], P) = Count(s, Q)
      BY <2>2 DEF s
    <3>10. CASE m.holder = Free
      BY <3>2, <3>6, <3>7, <3>8, <3>9, <3>10 DEF m
    <3>11. CASE m.holder # Free
      <4>1. /\ Append(f[k], m) \in Seq(M)
            /\ Count(Append(f[k], m), P) =
                 Count(f[k], P) + IF m \in P THEN 1 ELSE 0
        BY <3>5, <3>9, CountAppend
      <4>2. f[k + 1] = Append(f[k], m)
        BY <3>2, <3>11 DEF m
      <4> QED
        BY <3>6, <3>8, <3>9, <3>11, <4>1, <4>2
    <3> QED
      BY <3>10, <3>11
  <2>3. ASSUME NEW k \in Nat, k \in T
        PROVE  k + 1 \in T
    <3>1. CASE k + 1 <= n
      <4>1. Good(k)
        BY <1>1, <2>3, <3>1
      <4>2. Good(k + 1)
        BY <2>2, <3>1, <4>1
      <4> QED
        BY <4>2
    <3>2. CASE ~(k + 1 <= n)
      BY <3>2
    <3> QED
      BY <3>1, <3>2
  <2> HIDE DEF T, Good
  <2>4. n \in T
    BY <1>1, <2>1, <2>3, NumberInduction
  <2>5. Good(n)
    BY <1>1, <2>4 DEF T
  <2>6. first(n) = q
    OBVIOUS
  <2> HIDE DEF first, n
  <2> QED
    BY <2>5, <2>6 DEF Good
<1> QED
  BY <1>3, <1>5 DEF M

-----------------------------------------------------------------------------
(* A holder of one message, and the steps of the broker *)

\* Of the messages of a kind, a holder of one holds that one or none.
LEMMA OneHeld ==
  ASSUME NEW O, NEW H, NEW q \in Seq(Messages(O, H)), NEW h,
         Count(q, By(O, H, h)) = 1, NEW P
  PROVE  Count(q, P \cap By(O, H, h)) = IF Held(q, h) \in P THEN 1 ELSE 0
<1> DEFINE K == {k \in DOMAIN q : q[k] \in By(O, H, h)}
           L == {k \in DOMAIN q : q[k] \in P \cap By(O, H, h)}
           j == HeldAt(q, h)
<1>1. j \in DOMAIN q /\ Held(q, h) = q[j] /\ q[j] \in By(O, H, h)
  BY HeldMessage DEF By
<1>2. IsFiniteSet(K) /\ Cardinality(K) = 1
  BY CountType DEF Count
<1>3. PICK x : K = {x}
  BY <1>2, FS_Singleton
<1> HIDE DEF j
<1>4. K = {j}
  BY <1>1, <1>3
<1>5. L = IF Held(q, h) \in P THEN {j} ELSE {}
  BY <1>1, <1>4
<1>6. Cardinality({j}) = 1 /\ Cardinality({}) = 0
  BY FS_Singleton, FS_EmptySet
<1> QED
  BY <1>5, <1>6 DEF Count

\* How many messages of order p the main and the retry queue have together.
Waiting(O, H, p) == Count(main, Of(O, H, p)) + Count(retry, Of(O, {}, p))

\* A message of the main queue that dies waits in the retry queue.
LEMMA DiedMessage ==
  ASSUME NEW O, NEW H, NEW m \in Messages(O, H), NEW why \in Reasons
  PROVE  Died(m, why) \in Messages(O, {}) /\ Died(m, why).order = m.order
<1>1. PICK o \in O, n \in Nat, w \in Reasons, h \in H \cup {Free} :
        m = [order |-> o, deaths |-> n, reason |-> w, holder |-> h]
  BY DEF Messages
<1>2. m.deaths = n /\ m.order = o
  BY <1>1
<1>3. Died(m, why) = [m EXCEPT !.deaths = n + 1, !.reason = why, !.holder = Free]
  BY <1>2 DEF Died
<1>4. Died(m, why) =
        [order |-> o, deaths |-> n + 1, reason |-> why, holder |-> Free]
  BY <1>1, <1>3
<1>5. n + 1 \in Nat /\ Free \in {} \cup {Free}
  OBVIOUS
<1> QED
  BY <1>2, <1>4, <1>5 DEF Messages

\* A published message, and perhaps the oldest ready one that it pushes out,
\* leave every other message where it was or in the retry queue.
LEMMA PublishMessage ==
  ASSUME NEW O, NEW H, main \in Seq(Messages(O, H)),
         retry \in Seq(Messages(O, {})), NEW o \in O, PublishMain(o)
  PROVE  /\ main' \in Seq(Messages(O, H)) /\ retry' \in Seq(Messages(O, {}))
         /\ \A p : Waiting(O, H, p)' = Waiting(O, H, p) + IF p = o THEN 1 ELSE 0
         /\ \A P : Count(main', P \cap HeldKind(O, H)) =
                     Count(main, P \cap HeldKind(O, H))
<1> DEFINE e == Entry(o)
           q == Append(main, e)
           k == FirstReady(q)
           M == Messages(O, H)
<1>1. e \in M /\ e.order = o /\ e.holder = Free
  BY DEF Entry, Messages, Reasons
<1>2. /\ q \in Seq(M)
      /\ Len(main) + 1 \in DOMAIN q /\ q[Len(main) + 1] = e
      /\ \A P : Count(q, P) = Count(main, P) + IF e \in P THEN 1 ELSE 0
  BY <1>1, CountAppend
<1>3. \A p : e \in Of(O, H, p) <=> p = o
  BY <1>1 DEF Of
<1>4. \A P : e \notin P \cap HeldKind(O, H)
  BY <1>1 DEF HeldKind
<1>5. \/ main' = q /\ retry' = retry
      \/ main' = RemoveAt(q, k) /\ retry' = Append(retry, Died(q[k], "maxlen"))
  BY DEF PublishMain
<1>6. /\ \A P : Count(q, P) \in Nat /\ Count(main, P) \in Nat
      /\ \A P : Count(retry, P) \in Nat
  BY <1>2, CountType
<1>7. CASE main' = q /\ retry' = retry
  <2> HIDE DEF q, e
  <2>1. ASSUME NEW p
        PROVE  Waiting(O, H, p)' = Waiting(O, H, p) + IF p = o THEN 1 ELSE 0
    <3>1. Count(q, Of(O, H, p)) =
            Count(main, Of(O, H, p)) + IF p = o THEN 1 ELSE 0
      BY <1>2, <1>3
    <3> QED
      BY <1>6, <1>7, <3>1 DEF Waiting
  <2>2. \A P : Count(q, P \cap HeldKind(O, H)) = Count(main, P \cap HeldKind(O, H))
    BY <1>2, <1>4, <1>6
  <2> QED
    BY <1>2, <1>7, <2>1, <2>2
<1>8. CASE /\ main' = RemoveAt(q, k)
           /\ retry' = Append(retry, Died(q[k], "maxlen"))
  <2>1. Ready(q) # {}
    BY <1>1, <1>2 DEF Ready
  <2>2. k \in DOMAIN q /\ q[k] \in M /\ q[k].holder = Free
    BY <1>2, <2>1, FirstReadyIsReady
  <2> DEFINE d == Died(q[k], "maxlen")
  <2> HIDE DEF q, e, k
  <2>3. d \in Messages(O, {}) /\ d.order = q[k].order
    <3>1. "maxlen" \in Reasons
      BY DEF Reasons
    <3> QED
      BY <2>2, <3>1, DiedMessage
  <2> HIDE DEF d
  <2>4. /\ RemoveAt(q, k) \in Seq(M)
        /\ \A P : Count(RemoveAt(q, k), P) =
                    Count(q, P) - IF q[k] \in P THEN 1 ELSE 0
    BY <1>2, <2>2, CountRemove
  <2>5. /\ Append(retry, d) \in Seq(Messages(O, {}))
        /\ \A P : Count(Append(retry, d), P) =
                    Count(retry, P) + IF d \in P THEN 1 ELSE 0
    BY <2>3, CountAppend
  <2>6. \A p : q[k] \in Of(O, H, p) <=> d \in Of(O, {}, p)
    BY <2>2, <2>3 DEF Of
  <2>7. \A P : q[k] \notin P \cap HeldKind(O, H)
    BY <2>2 DEF HeldKind
  <2>8. main' = RemoveAt(q, k) /\ retry' = Append(retry, d)
    BY <1>8 DEF d
  <2>9. ASSUME NEW p
        PROVE  Waiting(O, H, p)' = Waiting(O, H, p) + IF p = o THEN 1 ELSE 0
    <3>1. Count(q, Of(O, H, p)) =
            Count(main, Of(O, H, p)) + IF p = o THEN 1 ELSE 0
      BY <1>2, <1>3
    <3>2. Count(main', Of(O, H, p)) =
            Count(q, Of(O, H, p)) - IF q[k] \in Of(O, H, p) THEN 1 ELSE 0
      BY <2>4, <2>8
    <3>3. Count(retry', Of(O, {}, p)) =
            Count(retry, Of(O, {}, p)) + IF d \in Of(O, {}, p) THEN 1 ELSE 0
      BY <2>5, <2>8
    <3> QED
      BY <1>6, <2>6, <3>1, <3>2, <3>3 DEF Waiting
  <2>10. \A P : Count(main', P \cap HeldKind(O, H)) =
                 Count(main, P \cap HeldKind(O, H))
    BY <1>2, <1>4, <1>6, <2>4, <2>7, <2>8
  <2> QED
    BY <2>4, <2>5, <2>8, <2>9, <2>10
<1> QED
  BY <1>5, <1>7, <1>8

LEMMA ExpireMainMessage ==
  ASSUME NEW O, NEW H, main \in Seq(Messages(O, H)),
         retry \in Seq(Messages(O, {})), ExpireMain
  PROVE  /\ main' \in Seq(Messages(O, H)) /\ retry' \in Seq(Messages(O, {}))
         /\ \A p : Waiting(O, H, p)' = Waiting(O, H, p)
         /\ \A P : Count(main', P \cap HeldKind(O, H)) =
                     Count(main, P \cap HeldKind(O, H))
<1> DEFINE k == FirstReady(main)
           d == Died(main[k], "expired")
<1>1. /\ Ready(main) # {}
      /\ main' = RemoveAt(main, k) /\ retry' = Append(retry, d)
  BY DEF ExpireMain
<1>2. /\ k \in DOMAIN main /\ main[k] \in Messages(O, H)
      /\ main[k].holder = Free
  BY <1>1, FirstReadyIsReady
<1>3. d \in Messages(O, {}) /\ d.order = main[k].order
  BY <1>2, DiedMessage DEF Reasons
<1> HIDE DEF k, d
<1>4. /\ RemoveAt(main, k) \in Seq(Messages(O, H))
      /\ \A P : Count(RemoveAt(main, k), P) =
                  Count(main, P) - IF main[k] \in P THEN 1 ELSE 0
  BY <1>2, CountRemove
<1>5. /\ Append(retry, d) \in Seq(Messages(O, {}))
      /\ \A P : Count(Append(retry, d), P) =
                  Count(retry, P) + IF d \in P THEN 1 ELSE 0
  BY <1>3, CountAppend
<1>6. \A p : main[k] \in Of(O, H, p) <=> d \in Of(O, {}, p)
  BY <1>2, <1>3 DEF Of
<1>7. \A P : main[k] \notin P \cap HeldKind(O, H)
  BY <1>2 DEF HeldKind
<1>8. \A P : Count(main, P) \in Nat /\ Count(retry, P) \in Nat
  BY CountType
<1>9. ASSUME NEW p
      PROVE  Waiting(O, H, p)' = Waiting(O, H, p)
  <2>1. Count(main', Of(O, H, p)) =
          Count(main, Of(O, H, p)) - IF main[k] \in Of(O, H, p) THEN 1 ELSE 0
    BY <1>1, <1>4
  <2>2. Count(retry', Of(O, {}, p)) =
          Count(retry, Of(O, {}, p)) + IF d \in Of(O, {}, p) THEN 1 ELSE 0
    BY <1>1, <1>5
  <2> QED
    BY <1>6, <1>8, <2>1, <2>2 DEF Waiting
<1>10. \A P : Count(main', P \cap HeldKind(O, H)) =
               Count(main, P \cap HeldKind(O, H))
  BY <1>1, <1>4, <1>7, <1>8
<1> QED
  BY <1>1, <1>4, <1>5, <1>9, <1>10

\* A message of the retry queue that expires is ready in the dead-letter queue.
LEMMA ExpireRetryMessage ==
  ASSUME NEW O, NEW H, retry \in Seq(Messages(O, {})),
         dlq \in Seq(Messages(O, H)), ExpireRetry
  PROVE  LET m == Head(retry)
         IN  /\ m \in Messages(O, {})
             /\ retry' \in Seq(Messages(O, {})) /\ dlq' \in Seq(Messages(O, H))
             /\ \A P : Count(retry, P) = Count(retry', P) + IF m \in P THEN 1 ELSE 0
             /\ \A P : Count(dlq', P) = Count(dlq, P) + IF m \in P THEN 1 ELSE 0
<1> DEFINE m == Head(retry)
<1>1. /\ 1 \in DOMAIN retry /\ retry[1] = m /\ m \in Messages(O, {})
      /\ dlq' = Append(dlq, m) /\ retry' = Tail(retry)
  BY DEF ExpireRetry
<1>2. m \in Messages(O, H)
  BY <1>1 DEF Messages
<1>3. Tail(retry) = RemoveAt(retry, 1)
  BY <1>1 DEF RemoveAt
<1> HIDE DEF m
<1>4. /\ RemoveAt(retry, 1) \in Seq(Messages(O, {}))
      /\ \A P : Count(RemoveAt(retry, 1), P) =
                  Count(retry, P) - IF retry[1] \in P THEN 1 ELSE 0
  BY <1>1, CountRemove
<1>5. /\ Append(dlq, m) \in Seq(Messages(O, H))
      /\ \A P : Count(Append(dlq, m), P) =
                  Count(dlq, P) + IF m \in P THEN 1 ELSE 0
  BY <1>2, CountAppend
<1>6. \A P : Count(retry, P) \in Nat
  BY CountType
<1>7. retry' = RemoveAt(retry, 1) /\ dlq' = Append(dlq, m)
  BY <1>1, <1>3
<1>8. ASSUME NEW P
      PROVE  Count(retry, P) = Count(retry', P) + IF m \in P THEN 1 ELSE 0
  <2>1. Count(retry', P) = Count(retry, P) - IF m \in P THEN 1 ELSE 0
    BY <1>1, <1>4, <1>7, Zenon
  <2> QED
    BY <1>6, <2>1
<1> QED
  BY <1>1, <1>4, <1>5, <1>7, <1>8, Zenon DEF m

-----------------------------------------------------------------------------
(* The counts the models speak of, as counts of kinds *)

LEMMA KindsAreCounts ==
  ASSUME NEW O, NEW H, NEW q \in Seq(Messages(O, H))
  PROVE  /\ \A o : Copies(q, o) = Count(q, Of(O, H, o))
         /\ \A h : Cardinality({k \in DOMAIN q : q[k].holder = h}) =
                     Count(q, By(O, H, h))
<1>1. \A k \in DOMAIN q : q[k] \in Messages(O, H)
  OBVIOUS
<1>2. ASSUME NEW o
      PROVE  Copies(q, o) = Count(q, Of(O, H, o))
  <2>1. {k \in DOMAIN q : q[k].order = o} = {k \in DOMAIN q : q[k] \in Of(O, H, o)}
    BY <1>1 DEF Of
  <2> QED
    BY <2>1 DEF Copies, Count
<1>3. ASSUME NEW h
      PROVE  Cardinality({k \in DOMAIN q : q[k].holder = h}) = Count(q, By(O, H, h))
  <2>1. {k \in DOMAIN q : q[k].holder = h} = {k \in DOMAIN q : q[k] \in By(O, H, h)}
    BY <1>1 DEF By
  <2> QED
    BY <2>1 DEF Count
<1> QED
  BY <1>2, <1>3

\* Messages that name an order of a set name one of every larger set.
LEMMA WidenOrders ==
  ASSUME NEW S, NEW O, S \subseteq O, NEW H, NEW q \in Seq(Messages(S, H)), NEW h
  PROVE  /\ q \in Seq(Messages(O, H))
         /\ Count(q, By(O, H, h)) = Count(q, By(S, H, h))
<1>1. Messages(S, H) \subseteq Messages(O, H)
  BY DEF Messages
<1>2. \A k \in DOMAIN q : q[k] \in Messages(S, H) /\ q[k] \in Messages(O, H)
  BY <1>1
<1>3. q \in Seq(Messages(O, H))
  BY <1>1, SeqDef
<1>4. Count(q, By(O, H, h)) = Count(q, By(S, H, h))
  BY <1>2, CountSame DEF By
<1> QED
  BY <1>3, <1>4
=============================================================================
