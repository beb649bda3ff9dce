--------------------------- MODULE FreeListLemmas ---------------------------
(***************************************************************************)
(* Facts about a sequence without duplicates used as a free list: what     *)
(* pop_front leaves and what push_back adds.                               *)
(***************************************************************************)
EXTENDS Naturals, Sequences, TLAPS

\* pop_front takes the first element away, and nothing else.
LEMMA PopFront ==
  ASSUME NEW S, NEW q \in Seq(S), q # <<>>,
         \A j, k \in DOMAIN q : q[j] = q[k] => j = k
  PROVE  /\ Head(q) \in S /\ Tail(q) \in Seq(S)
         /\ \E k \in DOMAIN q : q[k] = Head(q)
         /\ \A j, k \in DOMAIN Tail(q) : Tail(q)[j] = Tail(q)[k] => j = k
         /\ \A s \in S : (\E k \in DOMAIN Tail(q) : Tail(q)[k] = s)
                           <=> s # Head(q) /\ \E k \in DOMAIN q : q[k] = s
<1> DEFINE t == Tail(q)
<1>1. /\ Len(q) \in Nat \ {0} /\ Head(q) = q[1] /\ Head(q) \in S /\ t \in Seq(S)
      /\ DOMAIN q = 1 .. Len(q) /\ DOMAIN t = 1 .. Len(q) - 1
      /\ \A k \in DOMAIN t : t[k] = q[k + 1]
  OBVIOUS
<1>. HIDE DEF t
<1>2. \A j, k \in DOMAIN t : t[j] = t[k] => j = k
  BY <1>1
<1>3. ASSUME NEW s \in S, NEW k \in DOMAIN t, t[k] = s
      PROVE  s # Head(q) /\ \E m \in DOMAIN q : q[m] = s
  <2>1. k + 1 \in DOMAIN q /\ q[k + 1] = s /\ 1 \in DOMAIN q /\ k + 1 # 1
    BY <1>1, <1>3
  <2>2. QED
    BY <1>1, <2>1
<1>4. ASSUME NEW s \in S, s # Head(q), NEW m \in DOMAIN q, q[m] = s
      PROVE  \E k \in DOMAIN t : t[k] = s
  <2>1. m # 1 /\ m - 1 \in DOMAIN t /\ t[m - 1] = s
    BY <1>1, <1>4
  <2>2. QED
    BY <2>1
<1>5. \E k \in DOMAIN q : q[k] = Head(q)
  BY <1>1
<1>6. QED
  BY <1>1, <1>2, <1>3, <1>4, <1>5 DEF t

\* push_back of an element that is not there adds it once.
LEMMA PushBack ==
  ASSUME NEW S, NEW q \in Seq(S), NEW n \in S,
         \A j, k \in DOMAIN q : q[j] = q[k] => j = k,
         \A k \in DOMAIN q : q[k] # n
  PROVE  /\ Append(q, n) \in Seq(S)
         /\ \A j, k \in DOMAIN Append(q, n) : Append(q, n)[j] = Append(q, n)[k] => j = k
         /\ \A s \in S : (\E k \in DOMAIN Append(q, n) : Append(q, n)[k] = s)
                           <=> s = n \/ \E k \in DOMAIN q : q[k] = s
<1> DEFINE a == Append(q, n)
<1>1. /\ a \in Seq(S) /\ Len(q) \in Nat /\ DOMAIN q = 1 .. Len(q)
      /\ DOMAIN a = 1 .. Len(q) + 1 /\ a[Len(q) + 1] = n
      /\ \A k \in 1 .. Len(q) : a[k] = q[k]
  OBVIOUS
<1>. HIDE DEF a
<1>2. \A j, k \in DOMAIN a : a[j] = a[k] => j = k
  BY <1>1
<1>3. \A s \in S : (\E k \in DOMAIN a : a[k] = s) <=> s = n \/ \E k \in DOMAIN q : q[k] = s
  BY <1>1
<1>4. QED
  BY <1>1, <1>2, <1>3 DEF a
=============================================================================
