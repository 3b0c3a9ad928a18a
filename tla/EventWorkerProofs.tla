-------------------------- MODULE EventWorkerProofs --------------------------
(***************************************************************************)
(* For any number of messages, consumers and concurrent flushes, and any   *)
(* failures, crashes and redeliveries, the worker loses no event, it       *)
(* implements EventDelivery, its byte count is the size of the buffer, and *)
(* the rows beyond the first of an event are accounted for.                *)
(***************************************************************************)
EXTENDS EventWorker, FiniteSetTheorems, SumTheorems, TLAPS

-----------------------------------------------------------------------------
(* What the sequence operators hold *)

\* Append adds its element to what a sequence holds.
LEMMA HeldAppend ==
  ASSUME NEW S, NEW s \in Seq(S), NEW m \in S
  PROVE  Append(s, m) \in Seq(S) /\ Held(Append(s, m)) = Held(s) \cup {m}
<1>1. Append(s, m) \in Seq(S)
  OBVIOUS
<1>2. Held(Append(s, m)) \subseteq Held(s) \cup {m}
  BY DEF Held
<1>3. Held(s) \subseteq Held(Append(s, m))
  BY DEF Held
<1>4. m \in Held(Append(s, m))
  <2>1. Len(s) + 1 \in DOMAIN Append(s, m) /\ Append(s, m)[Len(s) + 1] = m
    OBVIOUS
  <2> QED BY <2>1 DEF Held
<1> QED BY <1>1, <1>2, <1>3, <1>4

\* A concatenation holds nothing that neither part holds.
LEMMA HeldConcat ==
  ASSUME NEW S, NEW s \in Seq(S), NEW t \in Seq(S)
  PROVE  s \o t \in Seq(S) /\ Held(s \o t) \subseteq Held(s) \cup Held(t)
<1>1. s \o t \in Seq(S)
  OBVIOUS
<1>2. ASSUME NEW i \in DOMAIN (s \o t)
      PROVE  (s \o t)[i] \in Held(s) \cup Held(t)
  <2>1. CASE i <= Len(s)
    BY <2>1 DEF Held
  <2>2. CASE i > Len(s)
    <3>1. i - Len(s) \in DOMAIN t /\ (s \o t)[i] = t[i - Len(s)]
      BY <2>2
    <3> QED BY <3>1 DEF Held
  <2> QED BY <2>1, <2>2
<1> QED BY <1>1, <1>2 DEF Held

\* A nonempty sequence holds its head, and its tail holds nothing new.
LEMMA HeldHeadTail ==
  ASSUME NEW S, NEW s \in Seq(S), s # <<>>
  PROVE  /\ Head(s) \in Held(s) /\ Head(s) \in S
         /\ Tail(s) \in Seq(S) /\ Held(Tail(s)) \subseteq Held(s)
<1>1. Head(s) \in Held(s) /\ Head(s) \in S
  BY DEF Held
<1>2. Tail(s) \in Seq(S)
  OBVIOUS
<1>3. ASSUME NEW i \in DOMAIN Tail(s)
      PROVE  Tail(s)[i] \in Held(s)
  <2>1. i + 1 \in DOMAIN s /\ Tail(s)[i] = s[i + 1]
    OBVIOUS
  <2> QED BY <2>1 DEF Held
<1> QED BY <1>1, <1>2, <1>3 DEF Held

\* The empty sequence holds nothing.
LEMMA HeldEmpty == Held(<<>>) = {}
BY DEF Held

\* A sequence holds members of its set.
LEMMA HeldType ==
  ASSUME NEW S, NEW s \in Seq(S)
  PROVE  Held(s) \subseteq S
BY DEF Held

\* A batch adds rows to its own messages and takes none away.
LEMMA InsertedRows ==
  ASSUME rows \in [Msgs -> Nat], NEW batch \in Seq(Msgs)
  PROVE  /\ Inserted(batch) \in [Msgs -> Nat]
         /\ \A m \in Msgs : Inserted(batch)[m] > 0 <=> rows[m] > 0 \/ m \in Held(batch)
<1> DEFINE At(m) == {i \in DOMAIN batch : batch[i] = m}
<1>1. ASSUME NEW m \in Msgs
      PROVE  Cardinality(At(m)) \in Nat /\ (Cardinality(At(m)) = 0 <=> At(m) = {})
  <2>1. IsFiniteSet(1..Len(batch))
    BY FS_Interval
  <2>2. At(m) \subseteq 1..Len(batch)
    OBVIOUS
  <2>3. IsFiniteSet(At(m))
    BY <2>1, <2>2, FS_Subset
  <2> QED BY <2>3, FS_CardinalityType, FS_EmptySet
<1>2. ASSUME NEW m \in Msgs
      PROVE  m \in Held(batch) <=> At(m) # {}
  BY DEF Held
<1>3. Inserted(batch) = [m \in Msgs |-> rows[m] + Cardinality(At(m))]
  BY DEF Inserted
<1> HIDE DEF At
<1>4. Inserted(batch) \in [Msgs -> Nat]
  BY <1>1, <1>3
<1>5. ASSUME NEW m \in Msgs
      PROVE  Inserted(batch)[m] > 0 <=> rows[m] > 0 \/ m \in Held(batch)
  <2>1. Inserted(batch)[m] = rows[m] + Cardinality(At(m)) /\ rows[m] \in Nat
    BY <1>3
  <2>2. Cardinality(At(m)) \in Nat /\ (Cardinality(At(m)) = 0 <=> At(m) = {})
    BY <1>1
  <2>3. m \in Held(batch) <=> At(m) # {}
    BY <1>2
  <2> QED BY <2>1, <2>2, <2>3
<1> QED BY <1>4, <1>5

\* Copies of a message in a sequence: finitely many positions, counted.
LEMMA CopiesType ==
  ASSUME NEW S, NEW s \in Seq(S), NEW m
  PROVE  IsFiniteSet(Positions(s, m)) /\ Copies(s, m) \in Nat
<1>1. DOMAIN s = 1..Len(s) /\ Len(s) \in Nat
  OBVIOUS
<1>2. IsFiniteSet(DOMAIN s)
  BY <1>1, FS_Interval
<1>3. Positions(s, m) \subseteq DOMAIN s
  BY DEF Positions
<1> QED BY <1>2, <1>3, FS_Subset, FS_CardinalityType DEF Copies

\* The empty sequence has no copy of anything.
LEMMA CopiesEmpty == \A m : Positions(<<>>, m) = {} /\ Copies(<<>>, m) = 0
<1>1. \A m : Positions(<<>>, m) = {}
  BY DEF Positions
<1> QED BY <1>1, FS_EmptySet DEF Copies

\* The copies of a concatenation are those of its parts.
LEMMA CopiesConcat ==
  ASSUME NEW S, NEW s \in Seq(S), NEW t \in Seq(S), NEW m
  PROVE  Copies(s \o t, m) = Copies(s, m) + Copies(t, m)
<1> DEFINE A == Positions(s, m)
           B == Positions(t, m)
           C == {i \in (Len(s) + 1)..(Len(s) + Len(t)) : (s \o t)[i] = m}
           shift == [i \in B |-> i + Len(s)]
<1>1. /\ Len(s) \in Nat /\ Len(t) \in Nat /\ DOMAIN (s \o t) = 1..(Len(s) + Len(t))
      /\ \A i \in 1..Len(s) : (s \o t)[i] = s[i]
      /\ \A i \in (Len(s) + 1)..(Len(s) + Len(t)) : (s \o t)[i] = t[i - Len(s)]
  OBVIOUS
<1>2. IsFiniteSet(A) /\ IsFiniteSet(B) /\ Cardinality(A) \in Nat /\ Cardinality(B) \in Nat
  BY CopiesType DEF Copies
<1>3. A = {i \in 1..Len(s) : s[i] = m} /\ B = {i \in 1..Len(t) : t[i] = m}
  BY DEF Positions
<1>4. Positions(s \o t, m) = A \cup C /\ A \cap C = {}
  <2>1. Positions(s \o t, m) = {i \in 1..(Len(s) + Len(t)) : (s \o t)[i] = m}
    BY <1>1 DEF Positions
  <2> QED BY <1>1, <1>3, <2>1
<1>5. shift \in Bijection(B, C)
  <2>1. \A i \in B : i + Len(s) \in C
    BY <1>1, <1>3
  <2>2. \A k \in C : k - Len(s) \in B /\ (k - Len(s)) + Len(s) = k
    BY <1>1, <1>3
  <2>3. \A i, j \in B : shift[i] = shift[j] => i = j
    BY <1>1, <1>3
  <2> HIDE DEF B, C
  <2>4. shift \in [B -> C]
    BY <2>1
  <2>5. \A k \in C : \E i \in B : shift[i] = k
    BY <2>2
  <2> QED BY <2>3, <2>4, <2>5 DEF Bijection, Injection, Surjection, IsInjective
<1>6. IsFiniteSet(C) /\ Cardinality(C) = Cardinality(B)
  BY <1>2, <1>5, FS_Bijection DEF ExistsBijection
<1> HIDE DEF A, B, C
<1>7. Cardinality(A \cup C) = Cardinality(A) + Cardinality(C) - Cardinality(A \cap C)
  BY <1>2, <1>6, FS_Union
<1>8. Cardinality(A \cap C) = 0
  BY <1>4, FS_EmptySet
<1> QED BY <1>2, <1>4, <1>6, <1>7, <1>8 DEF Copies, A, B

\* The copies in a sequence of one element.
LEMMA CopiesOne ==
  ASSUME NEW k, NEW m
  PROVE  Copies(<<k>>, m) = IF k = m THEN 1 ELSE 0
<1>1. Positions(<<k>>, m) = IF k = m THEN {1} ELSE {}
  BY DEF Positions
<1> QED BY <1>1, FS_EmptySet, FS_Singleton DEF Copies

\* Append adds one copy of its element.
LEMMA CopiesAppend ==
  ASSUME NEW S, NEW s \in Seq(S), NEW k \in S, NEW m
  PROVE  Copies(Append(s, k), m) = Copies(s, m) + (IF k = m THEN 1 ELSE 0)
<1>1. Append(s, k) = s \o <<k>> /\ <<k>> \in Seq(S)
  OBVIOUS
<1>2. Copies(s \o <<k>>, m) = Copies(s, m) + Copies(<<k>>, m)
  BY <1>1, CopiesConcat
<1>3. Copies(<<k>>, m) = IF k = m THEN 1 ELSE 0
  BY CopiesOne
<1> QED BY <1>1, <1>2, <1>3

\* Taking the head takes one copy of it.
LEMMA CopiesTail ==
  ASSUME NEW S, NEW s \in Seq(S), s # <<>>, NEW m
  PROVE  Copies(s, m) = Copies(Tail(s), m) + (IF Head(s) = m THEN 1 ELSE 0)
<1>1. s = <<Head(s)>> \o Tail(s) /\ <<Head(s)>> \in Seq(S) /\ Tail(s) \in Seq(S)
  OBVIOUS
<1>2. Copies(s, m) = Copies(<<Head(s)>>, m) + Copies(Tail(s), m)
  BY <1>1, CopiesConcat
<1>3. Copies(<<Head(s)>>, m) = IF Head(s) = m THEN 1 ELSE 0
  BY CopiesOne
<1>4. Copies(Tail(s), m) \in Nat
  BY <1>1, CopiesType
<1> QED BY <1>2, <1>3, <1>4

\* Copies in all sequences of a function, and what a change of one of them does.
LEMMA OwnPlaces ==
  ASSUME NEW S, NEW s \in Seq(S), NEW x, NEW m
  PROVE  /\ IsFiniteSet({<<x, i>> : i \in Positions(s, m)})
         /\ Cardinality({<<x, i>> : i \in Positions(s, m)}) = Copies(s, m)
<1> DEFINE A == Positions(s, m)
           P == {<<x, i>> : i \in A}
           pair == [i \in A |-> <<x, i>>]
<1>1. IsFiniteSet(A)
  BY CopiesType
<1>2. pair \in Bijection(A, P)
  <2> HIDE DEF A
  <2>1. pair \in [A -> P] /\ \A p \in P : \E i \in A : pair[i] = p
    OBVIOUS
  <2>2. \A i, j \in A : pair[i] = pair[j] => i = j
    OBVIOUS
  <2> QED BY <2>1, <2>2 DEF Bijection, Injection, Surjection, IsInjective
<1>3. IsFiniteSet(P) /\ Cardinality(P) = Cardinality(A)
  <2> HIDE DEF A, P
  <2> QED BY <1>1, <1>2, FS_Bijection DEF ExistsBijection
<1> QED BY <1>3 DEF Copies

\* The places of a message in finitely many sequences are finitely many.
LEMMA PlacesType ==
  ASSUME NEW S, NEW X, IsFiniteSet(X), NEW seqs \in [X -> Seq(S)], NEW m
  PROVE  IsFiniteSet(Places(seqs, m)) /\ Cardinality(Places(seqs, m)) \in Nat
<1> DEFINE own == [x \in X |-> {<<x, i>> : i \in Positions(seqs[x], m)}]
           R == {own[x] : x \in X}
<1>1. IsFiniteSet(R)
  <2>1. own \in Surjection(X, R)
    BY DEF Surjection
  <2> HIDE DEF R, own
  <2> QED BY <2>1, FS_Surjection
<1>2. \A T \in R : IsFiniteSet(T)
  <2> SUFFICES ASSUME NEW x \in X
               PROVE  IsFiniteSet(own[x])
    OBVIOUS
  <2>1. seqs[x] \in Seq(S) /\ own[x] = {<<x, i>> : i \in Positions(seqs[x], m)}
    OBVIOUS
  <2>2. IsFiniteSet({<<x, i>> : i \in Positions(seqs[x], m)})
    BY <2>1, OwnPlaces
  <2> QED BY <2>1, <2>2
<1>3. Places(seqs, m) = UNION R
  BY DEF Places
<1> HIDE DEF R
<1>4. IsFiniteSet(UNION R)
  BY <1>1, <1>2, FS_UNION
<1> QED BY <1>3, <1>4, FS_CardinalityType

Replaces(new, seqs, x, s) == \A y \in DOMAIN seqs : new[y] = IF y = x THEN s ELSE seqs[y]

Balanced(new, seqs, x, s, m) ==
  Cardinality(Places(new, m)) + Copies(seqs[x], m) = Cardinality(Places(seqs, m)) + Copies(s, m)

\* Replacing one of the sequences moves the number of places by the difference
\* of the copies in the old one and in the new one.
LEMMA PlacesUpdate ==
  ASSUME NEW S, NEW X, IsFiniteSet(X), NEW seqs \in [X -> Seq(S)], NEW m,
         NEW x \in X, NEW s \in Seq(S), NEW new \in [X -> Seq(S)], Replaces(new, seqs, x, s)
  PROVE  Balanced(new, seqs, x, s, m)
<1> DEFINE rest == {p \in Places(seqs, m) : p[1] # x}
           old == {<<x, i>> : i \in Positions(seqs[x], m)}
           own == {<<x, i>> : i \in Positions(s, m)}
<1>1. /\ IsFiniteSet(old) /\ Cardinality(old) = Copies(seqs[x], m)
      /\ IsFiniteSet(own) /\ Cardinality(own) = Copies(s, m)
  BY OwnPlaces
<1>2. IsFiniteSet(rest) /\ Cardinality(rest) \in Nat
  <2>1. rest \subseteq Places(seqs, m)
    OBVIOUS
  <2> HIDE DEF rest
  <2> QED BY <2>1, PlacesType, FS_Subset, FS_CardinalityType
<1>3. Places(seqs, m) = rest \cup old /\ rest \cap old = {}
  BY DEF Places
<1>4. Places(new, m) = rest \cup own /\ rest \cap own = {}
  <2>1. \A y \in X : new[y] = IF y = x THEN s ELSE seqs[y]
    BY DEF Replaces
  <2>2. \A p : p \in Places(seqs, m) <=> \E y \in X : \E i \in Positions(seqs[y], m) : p = <<y, i>>
    BY DEF Places
  <2>3. \A p : p \in Places(new, m) <=> \E y \in X : \E i \in Positions(new[y], m) : p = <<y, i>>
    BY DEF Places
  <2>4. \A p : p \in own <=> \E i \in Positions(s, m) : p = <<x, i>>
    OBVIOUS
  <2>5. \A p : p \in rest <=> p \in Places(seqs, m) /\ p[1] # x
    OBVIOUS
  <2> HIDE DEF own, rest
  <2>6. ASSUME NEW p \in Places(new, m)
        PROVE  p \in rest \cup own
    <3>1. PICK y \in X : \E i \in Positions(new[y], m) : p = <<y, i>>
      BY <2>3
    <3> QED BY <2>1, <2>2, <2>4, <2>5, <3>1
  <2>7. ASSUME NEW p \in rest
        PROVE  p \in Places(new, m)
    <3>1. PICK y \in X : \E i \in Positions(seqs[y], m) : p = <<y, i>>
      BY <2>2, <2>5
    <3> QED BY <2>1, <2>3, <2>5, <3>1
  <2>8. ASSUME NEW p \in own
        PROVE  p \in Places(new, m) /\ p \notin rest
    BY <2>1, <2>3, <2>4, <2>5
  <2> QED BY <2>6, <2>7, <2>8
<1> HIDE DEF rest, old, own
<1>5. Copies(seqs[x], m) \in Nat /\ Copies(s, m) \in Nat
  BY CopiesType
<1>6. Cardinality({}) = 0
  BY FS_EmptySet
<1>7. Cardinality(rest \cup old) = Cardinality(rest) + Cardinality(old)
  <2>1. Cardinality(rest \cup old) = Cardinality(rest) + Cardinality(old) - Cardinality(rest \cap old)
    BY <1>1, <1>2, FS_Union
  <2>2. Cardinality(rest \cap old) = 0
    BY <1>6, <1>3
  <2>3. Cardinality(old) \in Nat
    BY <1>1, <1>5
  <2> QED BY <1>2, <2>1, <2>2, <2>3
<1>8. Cardinality(rest \cup own) = Cardinality(rest) + Cardinality(own)
  <2>1. Cardinality(rest \cup own) = Cardinality(rest) + Cardinality(own) - Cardinality(rest \cap own)
    BY <1>1, <1>2, FS_Union
  <2>2. Cardinality(rest \cap own) = 0
    BY <1>6, <1>4
  <2>3. Cardinality(own) \in Nat
    BY <1>1, <1>5
  <2> QED BY <1>2, <2>1, <2>2, <2>3
<1> QED BY <1>1, <1>2, <1>3, <1>4, <1>7, <1>8, <1>5 DEF Balanced

\* Bytes adds up the sizes of a batch: its value is the last of the partial
\* sums, whichever way they are written.
Weights(batch) == [i \in 1..Len(batch) |-> Size[batch[i]]]

\* Bytes is the last of the partial sums, whichever function of them is given.
LEMMA BytesIsSum ==
  ASSUME NEW batch \in Seq(Msgs), NEW s, PartialSums(s, Weights(batch), Len(batch))
  PROVE  Bytes(batch) = s[Len(batch)] /\ Bytes(batch) \in Nat
<1> DEFINE n == Len(batch)
           w == Weights(batch)
           IsUpTo(u) == u = [k \in 0..n |-> IF k = 0 THEN 0 ELSE u[k - 1] + Size[batch[k]]]
<1>1. n \in Nat /\ w \in [1..n -> Nat] /\ \A i \in 1..n : w[i] = Size[batch[i]]
  BY SizeAssumption DEF Weights
<1>2. IsUpTo(s)
  BY <1>1 DEF PartialSums
<1>3. PICK u : IsUpTo(u) /\ Bytes(batch) = u[n]
  BY <1>2 DEF Bytes
<1>4. PartialSums(u, w, n)
  <2>1. DOMAIN u = 0..n /\ u[0] = 0
    BY <1>1, <1>3
  <2>2. \A i \in 1..n : u[i] = u[i - 1] + w[i]
    <3>1. \A k \in 0..n : u[k] = IF k = 0 THEN 0 ELSE u[k - 1] + Size[batch[k]]
      <4> HIDE DEF n
      <4> QED BY <1>3
    <3>2. \A i \in 1..n : i \in 0..n /\ i # 0
      BY <1>1
    <3> HIDE DEF n, w
    <3> QED BY <1>1, <3>1, <3>2
  <2> DEFINE Good == {k \in Nat : k <= n => u[k] \in Nat}
  <2>3. 0 \in Good
    BY <2>1
  <2>4. ASSUME NEW k \in Nat, k \in Good
        PROVE  k + 1 \in Good
    <3> SUFFICES ASSUME k + 1 <= n
                 PROVE  u[k + 1] \in Nat
      OBVIOUS
    <3>1. k + 1 \in 1..n /\ u[k] \in Nat
      BY <2>4
    <3> QED BY <1>1, <2>2, <3>1
  <2>5. Nat \subseteq Good
    <3> HIDE DEF Good
    <3> QED BY <2>3, <2>4, SetInduction
  <2>6. u \in [0..n -> Nat]
    <3>1. \A k \in 0..n : u[k] \in Nat
      BY <2>5
    <3> HIDE DEF n
    <3> QED BY <1>3, <2>1, <3>1
  <2> QED BY <2>1, <2>2, <2>6 DEF PartialSums
<1>5. u = s
  BY <1>1, <1>4, PartialSumsUnique
<1> QED BY <1>1, <1>3, <1>5 DEF PartialSums

\* The sizes in a batch have partial sums.
LEMMA BytesHasSums ==
  ASSUME NEW batch \in Seq(Msgs)
  PROVE  \E s : PartialSums(s, Weights(batch), Len(batch))
<1>1. Len(batch) \in Nat /\ Weights(batch) \in [1..Len(batch) -> Nat]
  BY SizeAssumption DEF Weights
<1> QED BY <1>1, PartialSumsExist

\* Bytes of what Flush takes, of what Add appends to and of what a put-back joins.
LEMMA BytesEmpty == Bytes(<<>>) = 0
<1>1. <<>> \in Seq(Msgs) /\ Len(<<>>) = 0
  OBVIOUS
<1>2. PICK s : PartialSums(s, Weights(<<>>), Len(<<>>))
  BY <1>1, BytesHasSums
<1>3. Bytes(<<>>) = s[Len(<<>>)]
  BY <1>1, <1>2, BytesIsSum
<1> QED BY <1>1, <1>2, <1>3 DEF PartialSums

\* The size of a concatenation is the sum of the sizes.
LEMMA BytesConcat ==
  ASSUME NEW a \in Seq(Msgs), NEW b \in Seq(Msgs)
  PROVE  Bytes(a \o b) = Bytes(a) + Bytes(b)
<1> DEFINE c == a \o b
<1>1. PICK s : PartialSums(s, Weights(a), Len(a))
  BY BytesHasSums
<1>2. PICK t : PartialSums(t, Weights(b), Len(b))
  BY BytesHasSums
<1>3. Bytes(a) = s[Len(a)] /\ Bytes(b) = t[Len(b)] /\ Bytes(a) \in Nat /\ Bytes(b) \in Nat
  BY <1>1, <1>2, BytesIsSum
<1>4. PICK m \in Nat, n \in Nat : m = Len(a) /\ n = Len(b)
  OBVIOUS
<1>5. c \in Seq(Msgs) /\ Len(c) = m + n
  BY <1>4
<1>6. \A i \in 1..m : Weights(c)[i] = Weights(a)[i]
  BY <1>4, <1>5 DEF Weights
<1>7. \A i \in (m + 1)..(m + n) : Weights(c)[i] = Weights(b)[i - m]
  BY <1>4, <1>5 DEF Weights
<1> DEFINE u == [i \in 0..(m + n) |-> IF i <= m THEN s[i] ELSE s[m] + t[i - m]]
<1>8. PartialSums(u, Weights(c), m + n)
  <2>1. s \in [0..m -> Nat] /\ s[0] = 0 /\ \A i \in 1..m : s[i] = s[i - 1] + Weights(a)[i]
    BY <1>1, <1>4 DEF PartialSums
  <2>2. t \in [0..n -> Nat] /\ t[0] = 0 /\ \A i \in 1..n : t[i] = t[i - 1] + Weights(b)[i]
    BY <1>2, <1>4 DEF PartialSums
  <2>3. u \in [0..(m + n) -> Nat] /\ u[0] = 0
    BY <2>1, <2>2
  <2>4. ASSUME NEW i \in 1..(m + n)
        PROVE  u[i] = u[i - 1] + Weights(c)[i]
    <3>1. CASE i <= m
      <4>1. i \in 1..m /\ i - 1 <= m /\ i - 1 \in 0..(m + n) /\ i \in 0..(m + n)
        BY <3>1
      <4> QED BY <1>6, <2>1, <3>1, <4>1
    <3>2. CASE i > m
      <4>1. i - m \in 1..n /\ i \in (m + 1)..(m + n) /\ i \in 0..(m + n) /\ i - 1 \in 0..(m + n)
        BY <3>2
      <4>2. t[i - m] = t[(i - m) - 1] + Weights(b)[i - m]
        BY <2>2, <4>1
      <4>3. u[i - 1] = s[m] + t[(i - m) - 1]
        <5>1. CASE i - 1 = m
          BY <2>1, <2>2, <4>1, <5>1
        <5>2. CASE i - 1 > m
          BY <4>1, <5>2
        <5> QED BY <3>2, <5>1, <5>2
      <4>4. s[m] \in Nat /\ t[(i - m) - 1] \in Nat /\ t[i - m] \in Nat
        BY <2>1, <2>2, <4>1
      <4>5. Weights(b)[i - m] \in Nat
        BY <1>4, <4>1, SizeAssumption DEF Weights
      <4> QED BY <1>7, <3>2, <4>1, <4>2, <4>3, <4>4, <4>5
    <3> QED BY <3>1, <3>2
  <2> QED BY <2>3, <2>4 DEF PartialSums
<1>9. Bytes(c) = u[m + n]
  <2> HIDE DEF u, c
  <2> QED BY <1>5, <1>8, BytesIsSum
<1>10. u[m + n] = s[m] + t[n]
  BY <1>1, <1>2, <1>4 DEF PartialSums
<1> QED BY <1>3, <1>4, <1>9, <1>10

\* Append adds the size of its message.
LEMMA BytesAppend ==
  ASSUME NEW a \in Seq(Msgs), NEW m \in Msgs
  PROVE  Bytes(Append(a, m)) = Bytes(a) + Size[m]
<1>1. Append(a, m) = a \o <<m>> /\ <<m>> \in Seq(Msgs) /\ Len(<<m>>) = 1
  OBVIOUS
<1>2. PartialSums([i \in 0..1 |-> IF i = 0 THEN 0 ELSE Size[m]], Weights(<<m>>), 1)
  BY SizeAssumption DEF PartialSums, Weights
<1>3. Bytes(<<m>>) = Size[m]
  <2> DEFINE s == [i \in 0..1 |-> IF i = 0 THEN 0 ELSE Size[m]]
  <2>1. s[1] = Size[m]
    OBVIOUS
  <2>2. PartialSums(s, Weights(<<m>>), Len(<<m>>))
    BY <1>1, <1>2
  <2> HIDE DEF s
  <2>3. Bytes(<<m>>) = s[Len(<<m>>)]
    BY <1>1, <2>2, BytesIsSum
  <2> QED BY <1>1, <2>1, <2>3
<1> QED BY <1>1, <1>3, BytesConcat

-----------------------------------------------------------------------------
(* The invariant, one conjunct at a time *)

USE DEF natsVars, fetchVars, bufferVars, flushVars, storeVars, Give, Release, WakeLoop, Finish

\* What Handle does to the flushes: at most one idle goroutine is woken.
LEMMA HandleWakes ==
  ASSUME NEW c \in Consumers, Handle(c)
  PROVE  \/ pc' = pc
         \/ \E f \in AsyncFlushers : /\ f \in Flushers \ {"main"}
                                     /\ pc[f] = "idle"
                                     /\ pc' = [pc EXCEPT ![f] = "begin"]
BY FlushersAssumption DEF Handle, Flushers

\* No step breaks the types.
LEMMA TypeStep ==
  ASSUME TypeOK, [Next]_vars
  PROVE  TypeOK'
<1> USE DEF TypeOK
<1>1. ASSUME NEW m \in Msgs, Publish(m)
      PROVE  TypeOK'
  BY <1>1 DEF Publish
<1>2. ASSUME NEW m \in Msgs, AckWaitExpire(m)
      PROVE  TypeOK'
  BY <1>2 DEF AckWaitExpire
<1>3. ASSUME NEW m \in Msgs, StreamExpire(m)
      PROVE  TypeOK'
  BY <1>3 DEF StreamExpire
<1>4. ASSUME NEW c \in Consumers, NEW m \in Msgs, Deliver(c, m)
      PROVE  TypeOK'
  <2>1. deliveries' \in [Msgs -> 0..MaxDeliver]
    BY <1>4, LimitsAssumption DEF Deliver
  <2>2. quota' \in [Consumers -> 0..FetchSize]
    BY <1>4, LimitsAssumption DEF Deliver
  <2>3. fetched' \in [Consumers -> Seq(Msgs)]
    BY <1>4 DEF Deliver
  <2> QED BY <1>4, <2>1, <2>2, <2>3 DEF Deliver
<1>5. ASSUME NEW c \in Consumers, Consume(c)
      PROVE  TypeOK'
  <2>1. CASE Fetch(c)
    BY <2>1, LimitsAssumption DEF Fetch
  <2>2. CASE FetchEnd(c)
    BY <2>2, LimitsAssumption DEF FetchEnd
  <2>3. CASE HandleUndecodable(c)
    BY <2>3 DEF HandleUndecodable
  <2>4. CASE Handle(c)
    <3>1. pc' \in [Flushers -> {"idle", "begin", "insert", "ack"}]
      BY <2>4, HandleWakes
    <3>2. Head(fetched[c]) \in Msgs /\ fetched' \in [Consumers -> Seq(Msgs)]
      BY <2>4 DEF Handle
    <3>3. buffer' \in Seq(Msgs) /\ ackFuncs' \in Seq(Msgs)
      BY <2>4, <3>2 DEF Handle, Add
    <3> QED BY <2>4, <3>1, <3>2, <3>3 DEF Handle
  <2> QED BY <1>5, <2>1, <2>2, <2>3, <2>4 DEF Consume
<1>6. ASSUME NEW f \in Flushers, Flush(f)
      PROVE  TypeOK'
  <2>1. CASE FlushEmpty(f)
    BY <2>1 DEF FlushEmpty
  <2>2. CASE FlushTake(f)
    BY <2>2 DEF FlushTake
  <2>3. CASE InsertOk(f)
    BY <2>3, InsertedRows DEF InsertOk
  <2>4. CASE InsertFail(f)
    BY <2>4 DEF InsertFail, PutBack
  <2>5. CASE InsertTimeout(f)
    <3>1. rows' \in [Msgs -> Nat]
      BY <2>5, InsertedRows DEF InsertTimeout
    <3> QED BY <2>5, <3>1 DEF InsertTimeout, PutBack
  <2>6. CASE Ack(f)
    BY <2>6 DEF Ack
  <2>7. CASE FlushReturn(f)
    BY <2>7 DEF FlushReturn
  <2> QED BY <1>6, <2>1, <2>2, <2>3, <2>4, <2>5, <2>6, <2>7 DEF Flush
<1>7. CASE Tick
  BY <1>7 DEF Tick
<1>8. CASE Shutdown
  <2>1. CASE LoopFinalFlush
    BY <2>1 DEF LoopFinalFlush, Stages
  <2>2. CASE MainFinalFlush
    BY <2>2 DEF MainFinalFlush, Stages
  <2>3. CASE Return
    BY <2>3 DEF Return, Stages
  <2>4. CASE Exit
    BY <2>4, LimitsAssumption DEF Exit, Die, Stages
  <2> QED BY <1>8, <2>1, <2>2, <2>3, <2>4 DEF Shutdown
<1>9. CASE Cancel
  BY <1>9 DEF Cancel, Stages
<1>10. CASE Crash
  BY <1>10, LimitsAssumption DEF Crash, Die, Stages
<1>11. CASE Restart
  BY <1>11 DEF Restart, Stages
<1>12. CASE UNCHANGED vars
  BY <1>12 DEF vars
<1> QED BY <1>1, <1>2, <1>3, <1>4, <1>5, <1>6, <1>7, <1>8, <1>9, <1>10, <1>11, <1>12 DEF Next

\* A message once stored stays stored.
LEMMA StoredGrows ==
  ASSUME TypeOK, [Next]_vars
  PROVE  stored \subseteq stored'
<1>1. CASE UNCHANGED rows
  BY <1>1 DEF stored
<1>2. CASE \E f \in Flushers : rows' = Inserted(events[f])
  BY <1>2, InsertedRows DEF stored, TypeOK
<1>3. UNCHANGED rows \/ \E f \in Flushers : rows' = Inserted(events[f])
  BY DEF Next, vars, Publish, AckWaitExpire, StreamExpire, Deliver, Consume, Fetch,
     FetchEnd, HandleUndecodable, Handle, Flush, FlushEmpty, FlushTake, InsertOk,
     InsertFail, InsertTimeout, Ack, FlushReturn, Tick, Shutdown, LoopFinalFlush,
     MainFinalFlush, Return, Exit, Die, Cancel, Crash, Restart
<1> QED BY <1>1, <1>2, <1>3

\* The final flush is idle except in its own stage of the shutdown.
LEMMA MainStep ==
  ASSUME TypeOK, MainFlushesLast, [Next]_vars
  PROVE  MainFlushesLast'
<1> USE DEF MainFlushesLast, TypeOK
<1>1. ASSUME UNCHANGED <<stage, pc>>
      PROVE  MainFlushesLast'
  BY <1>1
<1>2. ASSUME NEW c \in Consumers, Handle(c)
      PROVE  MainFlushesLast'
  <2>1. pc'["main"] = pc["main"] /\ stage' = stage
    BY <1>2, HandleWakes DEF Handle, Flushers
  <2> QED BY <2>1
<1>3. ASSUME NEW f \in Flushers, Flush(f)
      PROVE  MainFlushesLast'
  <2>1. pc[f] # "idle" /\ stage' = stage
    BY <1>3 DEF Flush, FlushEmpty, FlushTake, InsertOk, InsertFail, InsertTimeout, Ack,
       FlushReturn
  <2>2. pc' = pc \/ \E v \in {"idle", "insert", "ack"} : pc' = [pc EXCEPT ![f] = v]
    BY <1>3 DEF Flush, FlushEmpty, FlushTake, InsertOk, InsertFail, InsertTimeout, Ack,
       FlushReturn, PutBack
  <2> QED BY <2>1, <2>2 DEF Flushers
<1>4. ASSUME Tick \/ Shutdown \/ Cancel \/ Crash \/ Restart
      PROVE  MainFlushesLast'
  BY <1>4 DEF Tick, Shutdown, LoopFinalFlush, MainFinalFlush, Return, Exit, Die, Cancel,
     Crash, Restart, Flushers
<1> QED
  BY <1>1, <1>2, <1>3, <1>4
  DEF Next, vars, Publish, AckWaitExpire, StreamExpire, Deliver, Consume, Fetch,
      FetchEnd, HandleUndecodable

\* Every critical section takes or puts back events and ack functions together.
LEMMA AcksStep ==
  ASSUME TypeOK, MainFlushesLast, AcksMatchEvents, [Next]_vars
  PROVE  AcksMatchEvents'
<1> USE DEF AcksMatchEvents
<1>1. stored \subseteq stored'
  BY StoredGrows
<1>2. ASSUME UNCHANGED <<buffer, ackFuncs, pc, events, acks>>
      PROVE  AcksMatchEvents'
  BY <1>1, <1>2
<1>3. ASSUME NEW c \in Consumers, Handle(c)
      PROVE  AcksMatchEvents'
  <2>1. ackFuncs' = buffer'
    BY <1>3 DEF Handle, Add
  <2>2. UNCHANGED <<events, acks>>
    BY <1>3 DEF Handle
  <2>3. ASSUME NEW g \in Flushers
        PROVE  pc'[g] = pc[g] \/ (pc[g] = "idle" /\ pc'[g] = "begin")
    BY <1>3, HandleWakes DEF TypeOK
  <2> QED BY <1>1, <2>1, <2>2, <2>3
<1>4. ASSUME NEW f \in Flushers, Flush(f)
      PROVE  AcksMatchEvents'
  <2> USE DEF TypeOK
  <2>1. CASE FlushEmpty(f)
    BY <1>1, <2>1 DEF FlushEmpty
  <2>2. CASE FlushTake(f)
    BY <1>1, <2>2 DEF FlushTake
  <2>3. CASE InsertOk(f)
    <3>1. Held(acks[f]) \subseteq stored'
      <4>1. acks[f] = events[f] /\ rows' = Inserted(events[f])
        BY <2>3 DEF InsertOk
      <4>2. Held(events[f]) \subseteq Msgs
        BY HeldType
      <4> QED BY <4>1, <4>2, InsertedRows DEF stored
    <3> QED BY <1>1, <2>3, <3>1 DEF InsertOk
  <2>4. CASE InsertFail(f)
    BY <1>1, <2>4 DEF InsertFail, PutBack
  <2>5. CASE InsertTimeout(f)
    BY <1>1, <2>5 DEF InsertTimeout, PutBack
  <2>6. CASE Ack(f)
    <3>1. Held(Tail(acks[f])) \subseteq Held(acks[f])
      BY <2>6, HeldHeadTail DEF Ack
    <3> QED BY <1>1, <2>6, <3>1 DEF Ack
  <2>7. CASE FlushReturn(f)
    BY <1>1, <2>7 DEF FlushReturn
  <2> QED BY <1>4, <2>1, <2>2, <2>3, <2>4, <2>5, <2>6, <2>7 DEF Flush
<1>5. ASSUME Tick \/ LoopFinalFlush \/ MainFinalFlush
      PROVE  AcksMatchEvents'
  <2>1. UNCHANGED <<buffer, ackFuncs, events, acks>>
    BY <1>5 DEF Tick, LoopFinalFlush, MainFinalFlush
  <2>2. \E f \in {"loop", "main"} : pc[f] = "idle" /\ pc' = [pc EXCEPT ![f] = "begin"]
    BY <1>5 DEF Tick, LoopFinalFlush, MainFinalFlush, MainFlushesLast
  <2> QED BY <1>1, <2>1, <2>2 DEF TypeOK, Flushers
<1>6. ASSUME Die
      PROVE  AcksMatchEvents'
  BY <1>6 DEF Die
<1> QED
  BY <1>2, <1>3, <1>4, <1>5, <1>6
  DEF Next, vars, Publish, AckWaitExpire, StreamExpire, Deliver, Consume, Fetch,
      FetchEnd, HandleUndecodable, Shutdown, Return, Exit, Cancel, Crash, Restart

\* What is in the process, or inserted, was published.
LEMMA PublishedStep ==
  ASSUME TypeOK, AcksMatchEvents, OnlyPublished, [Next]_vars
  PROVE  OnlyPublished'
<1> USE DEF OnlyPublished, InMemory
<1>1. published \subseteq published'
  BY DEF Next, vars, Publish, AckWaitExpire, StreamExpire, Deliver, Consume, Fetch,
     FetchEnd, HandleUndecodable, Handle, Flush, FlushEmpty, FlushTake, InsertOk,
     InsertFail, InsertTimeout, Ack, FlushReturn, Tick, Shutdown, LoopFinalFlush,
     MainFinalFlush, Return, Exit, Die, Cancel, Crash, Restart
<1>2. ASSUME UNCHANGED <<fetched, buffer, events>>, stream' \subseteq published'
      PROVE  OnlyPublished'
  BY <1>1, <1>2
<1>3. ASSUME NEW c \in Consumers, NEW m \in Msgs, Deliver(c, m)
      PROVE  OnlyPublished'
  <2>1. Held(Append(fetched[c], m)) \subseteq published
    BY <1>3, HeldAppend DEF Deliver, TypeOK
  <2> QED BY <1>3, <2>1 DEF Deliver, TypeOK
<1>4. ASSUME NEW c \in Consumers, HandleUndecodable(c) \/ Handle(c)
      PROVE  OnlyPublished'
  <2>1. /\ fetched[c] # <<>>
        /\ fetched' = [fetched EXCEPT ![c] = Tail(@)]
        /\ UNCHANGED <<published, stream, events>>
    BY <1>4 DEF HandleUndecodable, Handle
  <2>2. /\ Head(fetched[c]) \in published /\ Head(fetched[c]) \in Msgs
        /\ Held(Tail(fetched[c])) \subseteq published
    BY <2>1, HeldHeadTail DEF TypeOK
  <2>3. \A d \in Consumers : Held(fetched'[d]) \subseteq published
    BY <2>1, <2>2 DEF TypeOK
  <2>4. Held(buffer') \subseteq published
    <3>1. CASE HandleUndecodable(c)
      BY <3>1 DEF HandleUndecodable
    <3>2. CASE Handle(c)
      BY <3>2, <2>2, HeldAppend DEF Handle, Add, TypeOK
    <3> QED BY <1>4, <3>1, <3>2
  <2> QED BY <2>1, <2>3, <2>4
<1>5. ASSUME NEW f \in Flushers, Flush(f)
      PROVE  OnlyPublished'
  <2>1. UNCHANGED <<published, fetched>> /\ stream' \subseteq stream
    BY <1>5 DEF Flush, FlushEmpty, FlushTake, InsertOk, InsertFail, InsertTimeout, Ack,
       FlushReturn
  <2>2. CASE UNCHANGED <<buffer, events>>
    BY <2>1, <2>2
  <2>3. CASE FlushTake(f)
    BY <2>1, <2>3, HeldEmpty DEF FlushTake, TypeOK
  <2>4. CASE InsertOk(f)
    BY <2>1, <2>4, HeldEmpty DEF InsertOk, TypeOK
  <2>5. CASE PutBack(f)
    <3>1. Held(buffer') \subseteq published
      BY <2>5, HeldConcat DEF PutBack, TypeOK
    <3>2. \A g \in Flushers : Held(events'[g]) \subseteq published
      BY <2>5, HeldEmpty DEF PutBack, TypeOK
    <3> QED BY <2>1, <3>1, <3>2
  <2> QED
    BY <1>5, <2>2, <2>3, <2>4, <2>5
    DEF Flush, FlushEmpty, InsertFail, InsertTimeout, Ack, FlushReturn
<1>6. ASSUME Die
      PROVE  OnlyPublished'
  BY <1>6, HeldEmpty DEF Die
<1> QED
  BY <1>2, <1>3, <1>4, <1>5, <1>6
  DEF Next, vars, Publish, AckWaitExpire, StreamExpire, Consume, Fetch, FetchEnd, Tick,
      Shutdown, LoopFinalFlush, MainFinalFlush, Return, Exit, Cancel, Crash, Restart

\* The acknowledgement is the one step that removes a message for good, and the
\* invariant says that its message is stored.
LEMMA AckRemovesStored ==
  ASSUME TypeOK, AcksMatchEvents, NEW f \in Flushers, Ack(f)
  PROVE  /\ Head(acks[f]) \in stored
         /\ stream' = stream \/ stream' = stream \ {Head(acks[f])}
BY HeldHeadTail DEF Ack, AcksMatchEvents, TypeOK

\* Only an acknowledgement or the limits take a message out of the stream.
LEMMA NoEventLostStep ==
  ASSUME TypeOK, AcksMatchEvents, NoEventLost, [Next]_vars
  PROVE  NoEventLost'
<1> USE DEF NoEventLost
<1>1. stored \subseteq stored'
  BY StoredGrows
<1>2. ASSUME UNCHANGED <<published, stream, expired>>
      PROVE  NoEventLost'
  BY <1>1, <1>2
<1>3. ASSUME NEW m \in Msgs, Publish(m) \/ StreamExpire(m)
      PROVE  NoEventLost'
  BY <1>1, <1>3 DEF Publish, StreamExpire
<1>4. ASSUME NEW f \in Flushers, Ack(f)
      PROVE  NoEventLost'
  BY <1>1, <1>4, AckRemovesStored DEF Ack
<1> QED
  BY <1>2, <1>3, <1>4
  DEF Next, vars, AckWaitExpire, Deliver, Consume, Fetch, FetchEnd, HandleUndecodable,
      Handle, Flush, FlushEmpty, FlushTake, InsertOk, InsertFail, InsertTimeout,
      FlushReturn, Tick, Shutdown, LoopFinalFlush, MainFinalFlush, Return, Exit, Die,
      Cancel, Crash, Restart

\* The inductive invariant holds at the start.
LEMMA IInvInit == Init => IInv
<1> SUFFICES ASSUME Init
             PROVE  IInv
  OBVIOUS
<1>1. TypeOK
  BY LimitsAssumption, BoundsAssumption DEF Init, TypeOK, Stages
<1>2. MainFlushesLast /\ AcksMatchEvents
  BY DEF Init, MainFlushesLast, AcksMatchEvents, Flushers
<1>3. OnlyPublished /\ NoEventLost
  BY HeldEmpty DEF Init, OnlyPublished, NoEventLost, InMemory
<1> QED BY <1>1, <1>2, <1>3 DEF IInv

\* Every step preserves the inductive invariant.
LEMMA IInvStep == IInv /\ [Next]_vars => IInv'
BY TypeStep, MainStep, AcksStep, PublishedStep, NoEventLostStep DEF IInv

-----------------------------------------------------------------------------
(* The results *)

\* The inductive invariant holds in every behaviour of the worker.
THEOREM Invariance == Spec => []IInv
BY IInvInit, IInvStep, PTL DEF Spec

\* Every variable of the worker, the stream and the table keeps its type.
THEOREM TypeCorrect == Spec => []TypeOK
<1>1. IInv => TypeOK
  BY DEF IInv
<1> QED BY Invariance, <1>1, PTL

\* A published event is in the stream, in the table, or was dropped by the
\* stream's own limits, whatever fails, crashes or overlaps in the worker.
THEOREM NothingLost == Spec => []NoEventLost
<1>1. IInv => NoEventLost
  BY DEF IInv
<1> QED BY Invariance, <1>1, PTL

\* The slices of events and of ack functions stay aligned, and a flush
\* acknowledges only messages that are in the table.
THEOREM AcksAligned == Spec => []AcksMatchEvents
<1>1. IInv => AcksMatchEvents
  BY DEF IInv
<1> QED BY Invariance, <1>1, PTL

\* memBytes is counted up by Add, reset by a flush that takes the buffer, and
\* counted up again by what a put-back brings.
LEMMA MemBytesStep ==
  ASSUME TypeOK, MemBytesExact, [Next]_vars
  PROVE  MemBytesExact'
<1> USE DEF MemBytesExact
<1>1. ASSUME UNCHANGED <<buffer, memBytes>>
      PROVE  MemBytesExact'
  BY <1>1
<1>2. ASSUME NEW c \in Consumers, Handle(c)
      PROVE  MemBytesExact'
  <2>1. PICK m \in Msgs : buffer' = Append(buffer, m) /\ memBytes' = memBytes + Size[m]
    BY <1>2, HeldHeadTail DEF Handle, Add, TypeOK
  <2>2. buffer \in Seq(Msgs)
    BY DEF TypeOK
  <2> QED BY <2>1, <2>2, BytesAppend
<1>3. ASSUME buffer' = <<>>, memBytes' = 0
      PROVE  MemBytesExact'
  BY <1>3, BytesEmpty
<1>4. ASSUME NEW f \in Flushers, PutBack(f)
      PROVE  MemBytesExact'
  <2>1. buffer \in Seq(Msgs) /\ events[f] \in Seq(Msgs)
    BY DEF TypeOK
  <2>2. Bytes(buffer) \in Nat /\ Bytes(events[f]) \in Nat
    BY <2>1, BytesHasSums, BytesIsSum
  <2>3. buffer' = events[f] \o buffer /\ memBytes' = memBytes + Bytes(events[f])
    BY <1>4 DEF PutBack
  <2>4. Bytes(events[f] \o buffer) = Bytes(events[f]) + Bytes(buffer)
    BY <2>1, BytesConcat
  <2> QED BY <2>2, <2>3, <2>4
<1>5. CASE Die
  BY <1>3, <1>5 DEF Die
<1>6. ASSUME NEW f \in Flushers, Flush(f)
      PROVE  MemBytesExact'
  BY <1>1, <1>3, <1>4, <1>6
  DEF Flush, FlushEmpty, FlushTake, InsertOk, InsertFail, InsertTimeout, Ack, FlushReturn
<1>7. ASSUME NEW c \in Consumers, Consume(c)
      PROVE  MemBytesExact'
  BY <1>1, <1>2, <1>7 DEF Consume, Fetch, FetchEnd, HandleUndecodable
<1> QED
  BY <1>1, <1>5, <1>6, <1>7
  DEF Next, vars, Publish, AckWaitExpire, StreamExpire, Deliver, Tick, Shutdown,
      LoopFinalFlush, MainFinalFlush, Return, Exit, Cancel, Crash, Restart

\* memBytes is always the size of what the buffer holds, through every Add,
\* overlapping flush, put-back and restart: the memory trigger does not drift.
THEOREM MemBytesCounted == Spec => []MemBytesExact
<1>1. Init => MemBytesExact
  BY BytesEmpty DEF Init, MemBytesExact
<1>2. TypeOK /\ MemBytesExact /\ [Next]_vars => MemBytesExact'
  BY MemBytesStep
<1> QED BY <1>1, <1>2, TypeCorrect, PTL DEF Spec

-----------------------------------------------------------------------------
(* Copies in the process and rows in the table *)

\* There are finitely many flushing goroutines.
LEMMA FlushersFinite == IsFiniteSet(Flushers)
<1>1. IsFiniteSet({"loop"}) /\ IsFiniteSet({"main"})
  BY FS_Singleton
<1>2. IsFiniteSet({"loop"} \cup {"main"})
  BY <1>1, FS_Union
<1>3. Flushers = ({"loop"} \cup {"main"}) \cup AsyncFlushers
  BY DEF Flushers
<1> QED BY <1>2, <1>3, GoroutinesAssumption, FS_Union

\* The copies in each part of the process are numbers, and so is their sum.
LEMMA CopiesNat ==
  ASSUME TypeOK, NEW m
  PROVE  /\ Copies(buffer, m) \in Nat
         /\ Cardinality(Places(events, m)) \in Nat
         /\ Cardinality(Places(fetched, m)) \in Nat
         /\ CopiesInProcess(m) \in Nat
<1>1. IsFiniteSet(Flushers)
  BY FlushersFinite
<1>2. Cardinality(Places(events, m)) \in Nat
  BY <1>1, PlacesType DEF TypeOK
<1>3. Cardinality(Places(fetched, m)) \in Nat
  BY GoroutinesAssumption, PlacesType DEF TypeOK
<1>4. Copies(buffer, m) \in Nat
  BY CopiesType DEF TypeOK
<1> QED BY <1>2, <1>3, <1>4 DEF CopiesInProcess

\* What a flush holds is part of what the process holds.
LEMMA CopiesOfFlush ==
  ASSUME TypeOK, NEW f \in Flushers, NEW m, NEW s \in Seq(Msgs)
  PROVE  /\ Copies(events[f], m) \in Nat /\ Copies(s, m) \in Nat
         /\ Copies(events[f], m) <= CopiesInProcess(m)
         /\ Cardinality(Places([events EXCEPT ![f] = s], m)) + Copies(events[f], m)
              = Cardinality(Places(events, m)) + Copies(s, m)
<1>1. IsFiniteSet(Flushers)
  BY FlushersFinite
<1>2. events \in [Flushers -> Seq(Msgs)]
  BY DEF TypeOK
<1>3. <<>> \in Seq(Msgs)
  OBVIOUS
<1>4. Cardinality(Places([events EXCEPT ![f] = s], m)) + Copies(events[f], m)
        = Cardinality(Places(events, m)) + Copies(s, m)
  <2>1. PICK q, n : q = events /\ n = [q EXCEPT ![f] = s]
    OBVIOUS
  <2>2. q \in [Flushers -> Seq(Msgs)]
    BY <1>2, <2>1
  <2>3. n \in [Flushers -> Seq(Msgs)] /\ Replaces(n, q, f, s)
    BY <2>1, <2>2 DEF Replaces
  <2>4. Balanced(n, q, f, s, m)
    BY <1>1, <2>2, <2>3, PlacesUpdate
  <2> QED BY <2>1, <2>4 DEF Balanced
<1>5. Cardinality(Places([events EXCEPT ![f] = <<>>], m)) + Copies(events[f], m)
        = Cardinality(Places(events, m)) + Copies(<<>>, m)
  <2>1. PICK q, n : q = events /\ n = [q EXCEPT ![f] = <<>>]
    OBVIOUS
  <2>2. q \in [Flushers -> Seq(Msgs)]
    BY <1>2, <2>1
  <2>3. n \in [Flushers -> Seq(Msgs)] /\ Replaces(n, q, f, <<>>)
    BY <2>1, <2>2 DEF Replaces
  <2>4. Balanced(n, q, f, <<>>, m)
    BY <1>1, <1>3, <2>2, <2>3, PlacesUpdate
  <2> QED BY <2>1, <2>4 DEF Balanced
<1>6. [events EXCEPT ![f] = <<>>] \in [Flushers -> Seq(Msgs)]
  BY <1>2
<1>7. Cardinality(Places([events EXCEPT ![f] = <<>>], m)) \in Nat
  BY <1>1, <1>6, PlacesType
<1>8. Copies(events[f], m) \in Nat /\ Copies(s, m) \in Nat
  BY <1>2, CopiesType
<1>9. Copies(events[f], m) <= CopiesInProcess(m)
  BY <1>5, <1>7, <1>8, CopiesEmpty, CopiesNat DEF CopiesInProcess
<1> QED BY <1>4, <1>8, <1>9

\* A step on the fetched messages of one consumer.
LEMMA CopiesOfFetch ==
  ASSUME TypeOK, NEW c \in Consumers, NEW m, NEW s \in Seq(Msgs)
  PROVE  /\ Copies(fetched[c], m) \in Nat /\ Copies(s, m) \in Nat
         /\ Cardinality(Places([fetched EXCEPT ![c] = s], m)) + Copies(fetched[c], m)
              = Cardinality(Places(fetched, m)) + Copies(s, m)
<1>1. fetched \in [Consumers -> Seq(Msgs)]
  BY DEF TypeOK
<1>2. IsFiniteSet(Consumers)
  BY GoroutinesAssumption
<1>3. Cardinality(Places([fetched EXCEPT ![c] = s], m)) + Copies(fetched[c], m)
        = Cardinality(Places(fetched, m)) + Copies(s, m)
  <2>1. PICK q, n : q = fetched /\ n = [q EXCEPT ![c] = s]
    OBVIOUS
  <2>2. q \in [Consumers -> Seq(Msgs)]
    BY <1>1, <2>1
  <2>3. n \in [Consumers -> Seq(Msgs)] /\ Replaces(n, q, c, s)
    BY <2>1, <2>2 DEF Replaces
  <2>4. Balanced(n, q, c, s, m)
    BY <1>2, <2>2, <2>3, PlacesUpdate
  <2> QED BY <2>1, <2>4 DEF Balanced
<1>4. Copies(fetched[c], m) \in Nat /\ Copies(s, m) \in Nat
  BY <1>1, CopiesType
<1> QED BY <1>3, <1>4

\* A delivery adds a copy of its message.
LEMMA CopiesDeliver ==
  ASSUME TypeOK, NEW c \in Consumers, NEW k \in Msgs, Deliver(c, k), NEW m
  PROVE  CopiesInProcess(m)' = CopiesInProcess(m) + (IF k = m THEN 1 ELSE 0)
<1> DEFINE s == Append(fetched[c], k)
<1>1. fetched[c] \in Seq(Msgs) /\ s \in Seq(Msgs)
  BY DEF TypeOK
<1>2. fetched' = [fetched EXCEPT ![c] = s] /\ UNCHANGED <<buffer, events>>
  BY DEF Deliver
<1>3. Copies(s, m) = Copies(fetched[c], m) + (IF k = m THEN 1 ELSE 0)
  BY <1>1, CopiesAppend
<1> HIDE DEF s
<1>4. /\ Copies(fetched[c], m) \in Nat
      /\ Cardinality(Places(fetched', m)) + Copies(fetched[c], m)
           = Cardinality(Places(fetched, m)) + Copies(s, m)
  BY <1>1, <1>2, CopiesOfFetch
<1>5. Cardinality(Places(fetched', m)) = Cardinality(Places(fetched, m)) + (IF k = m THEN 1 ELSE 0)
  <2>1. Cardinality(Places([fetched EXCEPT ![c] = s], m)) \in Nat
    BY <1>1, GoroutinesAssumption, PlacesType, [fetched EXCEPT ![c] = s] \in [Consumers -> Seq(Msgs)]
    DEF TypeOK
  <2> QED BY <1>2, <1>3, <1>4, <2>1, CopiesNat
<1> QED BY <1>2, <1>5, CopiesNat DEF CopiesInProcess

\* A consumer that takes a message from its Fetch has one copy less there.
LEMMA CopiesTaken ==
  ASSUME TypeOK, NEW c \in Consumers, fetched[c] # <<>>,
         fetched' = [fetched EXCEPT ![c] = Tail(@)], NEW m
  PROVE  /\ Cardinality(Places(fetched, m))
              = Cardinality(Places(fetched', m)) + (IF Head(fetched[c]) = m THEN 1 ELSE 0)
         /\ Cardinality(Places(fetched', m)) \in Nat
<1> DEFINE s == Tail(fetched[c])
<1>1. fetched[c] \in Seq(Msgs) /\ s \in Seq(Msgs)
  BY DEF TypeOK
<1>2. Copies(fetched[c], m) = Copies(s, m) + (IF Head(fetched[c]) = m THEN 1 ELSE 0)
  BY <1>1, CopiesTail
<1>3. fetched' = [fetched EXCEPT ![c] = s] /\ fetched' \in [Consumers -> Seq(Msgs)]
  BY <1>1 DEF TypeOK
<1>4. /\ Copies(s, m) \in Nat
      /\ Cardinality(Places(fetched', m)) + Copies(fetched[c], m)
           = Cardinality(Places(fetched, m)) + Copies(s, m)
  <2> HIDE DEF s
  <2>1. s \in Seq(Msgs)
    BY <1>1
  <2>2. Cardinality(Places([fetched EXCEPT ![c] = s], m)) + Copies(fetched[c], m)
          = Cardinality(Places(fetched, m)) + Copies(s, m)
    BY <2>1, CopiesOfFetch, Zenon
  <2>3. Copies(s, m) \in Nat
    BY <2>1, CopiesType
  <2> QED BY <1>3, <2>2, <2>3
<1> HIDE DEF s
<1>5. Cardinality(Places(fetched', m)) \in Nat
  BY <1>3, GoroutinesAssumption, PlacesType
<1> QED BY <1>2, <1>4, <1>5, CopiesNat

\* Handle moves a copy from the Fetch to the buffer.
LEMMA CopiesHandle ==
  ASSUME TypeOK, NEW c \in Consumers, Handle(c), NEW m
  PROVE  CopiesInProcess(m)' = CopiesInProcess(m)
<1>1. /\ fetched[c] # <<>> /\ fetched' = [fetched EXCEPT ![c] = Tail(@)]
      /\ buffer' = Append(buffer, Head(fetched[c])) /\ events' = events
  BY DEF Handle, Add
<1>2. buffer \in Seq(Msgs) /\ Head(fetched[c]) \in Msgs
  BY <1>1, HeldHeadTail DEF TypeOK
<1>3. Copies(buffer', m) = Copies(buffer, m) + (IF Head(fetched[c]) = m THEN 1 ELSE 0)
  BY <1>1, <1>2, CopiesAppend
<1>4. /\ Cardinality(Places(fetched, m))
           = Cardinality(Places(fetched', m)) + (IF Head(fetched[c]) = m THEN 1 ELSE 0)
      /\ Cardinality(Places(fetched', m)) \in Nat
  BY <1>1, CopiesTaken
<1> QED BY <1>1, <1>3, <1>4, CopiesNat DEF CopiesInProcess

\* A flush that takes the buffer had nothing in its hands before.
LEMMA CopiesTake ==
  ASSUME TypeOK, AcksMatchEvents, NEW f \in Flushers, FlushTake(f), NEW m
  PROVE  CopiesInProcess(m)' = CopiesInProcess(m)
<1>1. /\ events' = [events EXCEPT ![f] = buffer] /\ buffer' = <<>> /\ fetched' = fetched
      /\ events[f] = <<>>
  BY DEF FlushTake, AcksMatchEvents
<1>2. buffer \in Seq(Msgs)
  BY DEF TypeOK
<1>3. /\ Cardinality(Places(events', m)) + Copies(events[f], m)
           = Cardinality(Places(events, m)) + Copies(buffer, m)
  BY <1>1, <1>2, CopiesOfFlush
<1>4. Copies(events[f], m) = 0 /\ Copies(buffer', m) = 0
  BY <1>1, CopiesEmpty
<1>5. Cardinality(Places(events', m)) \in Nat
  <2>1. events' \in [Flushers -> Seq(Msgs)]
    BY <1>1, <1>2 DEF TypeOK
  <2> QED BY <2>1, FlushersFinite, PlacesType
<1> QED BY <1>1, <1>3, <1>4, <1>5, CopiesNat DEF CopiesInProcess

\* A flush that lets go of its batch.
LEMMA CopiesReleased ==
  ASSUME TypeOK, NEW f \in Flushers, events' = [events EXCEPT ![f] = <<>>], NEW m
  PROVE  /\ Cardinality(Places(events, m)) = Cardinality(Places(events', m)) + Copies(events[f], m)
         /\ Cardinality(Places(events', m)) \in Nat
<1>1. <<>> \in Seq(Msgs) /\ events' \in [Flushers -> Seq(Msgs)]
  BY DEF TypeOK
<1>2. Cardinality(Places(events', m)) + Copies(events[f], m)
        = Cardinality(Places(events, m)) + Copies(<<>>, m)
  BY <1>1, CopiesOfFlush
<1>3. IsFiniteSet(Flushers)
  BY FlushersFinite
<1>4. Cardinality(Places(events', m)) \in Nat
  BY <1>1, <1>3, PlacesType
<1> QED BY <1>2, <1>4, CopiesEmpty, CopiesNat

\* A put-back returns to the buffer what was taken from it.
LEMMA CopiesPutBack ==
  ASSUME TypeOK, NEW f \in Flushers, PutBack(f), UNCHANGED fetched, NEW m
  PROVE  CopiesInProcess(m)' = CopiesInProcess(m)
<1>1. events' = [events EXCEPT ![f] = <<>>] /\ buffer' = events[f] \o buffer
  BY DEF PutBack
<1>2. events[f] \in Seq(Msgs) /\ buffer \in Seq(Msgs)
  BY DEF TypeOK
<1>3. Copies(buffer', m) = Copies(events[f], m) + Copies(buffer, m)
  BY <1>1, <1>2, CopiesConcat
<1>4. Copies(events[f], m) \in Nat
  BY <1>2, CopiesType
<1>5. /\ Cardinality(Places(events, m)) = Cardinality(Places(events', m)) + Copies(events[f], m)
      /\ Cardinality(Places(events', m)) \in Nat
  BY <1>1, CopiesReleased
<1> QED BY <1>3, <1>4, <1>5, CopiesNat DEF CopiesInProcess

\* A message's rows and copies are accounted for: by its deliveries, and by the
\* inserts that took effect and reported an error.
Owed(m) ==
  /\ CopiesInProcess(m) <= deliveries[m]
  /\ rows[m] + CopiesInProcess(m) <= deliveries[m] * (1 + timeouts)
  /\ (m \notin Undecodable /\ stops = 0 /\ timeouts = 0) =>
       rows[m] + CopiesInProcess(m) = deliveries[m]

\* The process only leaves "running" with a stop counted, and stops only grow.
LEMMA StopsStep ==
  ASSUME TypeOK, StopsCounted, [Next]_vars
  PROVE  StopsCounted' /\ stops <= stops'
<1> USE DEF StopsCounted, TypeOK
<1>1. CASE UNCHANGED <<stage, stops>>
  BY <1>1
<1>2. CASE Shutdown
  BY <1>2 DEF Shutdown, LoopFinalFlush, MainFinalFlush, Return, Exit, Die
<1>3. CASE Cancel \/ Crash \/ Restart
  BY <1>3 DEF Cancel, Crash, Die, Restart
<1> QED
  BY <1>1, <1>2, <1>3
  DEF Next, vars, Publish, AckWaitExpire, StreamExpire, Deliver, Consume, Fetch, FetchEnd,
      HandleUndecodable, Handle, Flush, FlushEmpty, FlushTake, InsertOk, InsertFail,
      InsertTimeout, Ack, FlushReturn, Tick

\* The account of one message after a step that moves its copies, drops some of
\* them, inserts what a flush holds, or delivers it.
LEMMA OwedMoved ==
  ASSUME TypeOK, NEW m \in Msgs, Owed(m), stops \in Nat, stops' \in Nat, stops <= stops',
         UNCHANGED <<rows, deliveries, timeouts>>,
         CopiesInProcess(m)' \in Nat, CopiesInProcess(m)' <= CopiesInProcess(m),
         (m \notin Undecodable /\ stops' = 0) => CopiesInProcess(m)' = CopiesInProcess(m)
  PROVE  Owed(m)'
<1>1. rows[m] \in Nat /\ deliveries[m] * (1 + timeouts) \in Nat /\ CopiesInProcess(m) \in Nat
      /\ deliveries[m] \in Nat
  BY CopiesNat, LimitsAssumption DEF TypeOK
<1>2. PICK d, o, r, k : d = deliveries[m] /\ o = deliveries[m] * (1 + timeouts) /\ r = rows[m]
                        /\ k = CopiesInProcess(m)
  OBVIOUS
<1>3. PICK l : l = CopiesInProcess(m)'
  OBVIOUS
<1> QED BY <1>1, <1>2, <1>3 DEF Owed

\* A delivery adds one copy and is one delivery more.
LEMMA OwedDelivered ==
  ASSUME TypeOK, NEW c \in Consumers, NEW k \in Msgs, Deliver(c, k), NEW m \in Msgs, Owed(m)
  PROVE  Owed(m)'
<1>1. /\ deliveries' = [deliveries EXCEPT ![k] = @ + 1]
      /\ UNCHANGED <<rows, timeouts, stops>>
  BY DEF Deliver
<1>2. /\ rows[m] \in Nat /\ deliveries[m] \in Nat /\ timeouts \in Nat /\ CopiesInProcess(m) \in Nat
      /\ deliveries \in [Msgs -> 0..MaxDeliver]
  BY CopiesNat, LimitsAssumption DEF TypeOK
<1>3. CopiesInProcess(m)' = CopiesInProcess(m) + (IF k = m THEN 1 ELSE 0)
  BY CopiesDeliver
<1>4. deliveries'[m] = deliveries[m] + (IF k = m THEN 1 ELSE 0)
  BY <1>1, <1>2
<1>5. \A d, t \in Nat : (d + 1) * (1 + t) = d * (1 + t) + 1 + t /\ d * (1 + t) \in Nat
  OBVIOUS
<1>6. PICK d \in Nat, t \in Nat, r \in Nat, i \in Nat :
        d = deliveries[m] /\ t = timeouts /\ r = rows[m] /\ i = CopiesInProcess(m)
  BY <1>2
<1>7. i <= d /\ r + i <= d * (1 + t)
      /\ ((m \notin Undecodable /\ stops = 0 /\ t = 0) => r + i = d)
  BY <1>6 DEF Owed
<1>8. CASE k = m
  <2>1. CopiesInProcess(m)' = i + 1 /\ deliveries'[m] = d + 1
    BY <1>3, <1>4, <1>6, <1>8
  <2>2. i + 1 <= d + 1 /\ r + (i + 1) <= (d + 1) * (1 + t)
        /\ ((m \notin Undecodable /\ stops = 0 /\ t = 0) => r + (i + 1) = d + 1)
    BY <1>5, <1>7
  <2> QED BY <1>1, <1>6, <2>1, <2>2 DEF Owed
<1>9. CASE k # m
  <2>1. CopiesInProcess(m)' = i /\ deliveries'[m] = d
    BY <1>3, <1>4, <1>6, <1>9
  <2> QED BY <1>1, <1>6, <1>7, <2>1 DEF Owed
<1> QED BY <1>8, <1>9

\* An insert turns the copies in its batch into rows.
LEMMA OwedInserted ==
  ASSUME TypeOK, NEW f \in Flushers, InsertOk(f), NEW m \in Msgs, Owed(m)
  PROVE  Owed(m)'
<1>1. /\ rows' = Inserted(events[f]) /\ events' = [events EXCEPT ![f] = <<>>]
      /\ UNCHANGED <<buffer, fetched, deliveries, timeouts, stops>>
  BY DEF InsertOk
<1>2. rows'[m] = rows[m] + Copies(events[f], m)
  BY <1>1 DEF Inserted, Copies, Positions
<1>3. /\ Cardinality(Places(events, m)) = Cardinality(Places(events', m)) + Copies(events[f], m)
      /\ Cardinality(Places(events', m)) \in Nat
  BY <1>1, CopiesReleased
<1>4. Copies(events[f], m) \in Nat
  BY CopiesType DEF TypeOK
<1>5. CopiesInProcess(m) = CopiesInProcess(m)' + Copies(events[f], m) /\ CopiesInProcess(m)' \in Nat
  BY <1>1, <1>3, <1>4, CopiesNat DEF CopiesInProcess
<1>6. /\ rows[m] \in Nat /\ Copies(events[f], m) \in Nat /\ CopiesInProcess(m)' \in Nat
      /\ deliveries[m] \in Nat
  BY <1>5, <1>4, LimitsAssumption DEF TypeOK
<1>7. rows'[m] + CopiesInProcess(m)' = rows[m] + CopiesInProcess(m)
      /\ CopiesInProcess(m)' <= CopiesInProcess(m)
  BY <1>2, <1>5, <1>6
<1>8. CopiesInProcess(m)' <= deliveries'[m]
  BY <1>1, <1>6, <1>7, CopiesNat DEF Owed
<1> QED BY <1>1, <1>7, <1>8 DEF Owed

\* An insert that took effect and reports an error adds rows and keeps the
\* copies: at most one per delivery, as no more copies are in process.
LEMMA OwedTimedOut ==
  ASSUME TypeOK, NEW f \in Flushers, InsertTimeout(f), NEW m \in Msgs, Owed(m)
  PROVE  Owed(m)'
<1>1. /\ rows' = Inserted(events[f]) /\ PutBack(f) /\ timeouts' = timeouts + 1
      /\ UNCHANGED <<fetched, deliveries, stops>>
  BY DEF InsertTimeout
<1>2. rows'[m] = rows[m] + Copies(events[f], m)
  BY <1>1 DEF Inserted, Copies, Positions
<1>3. CopiesInProcess(m)' = CopiesInProcess(m)
  BY <1>1, CopiesPutBack
<1>4. Copies(events[f], m) \in Nat /\ Copies(events[f], m) <= CopiesInProcess(m)
  BY CopiesOfFlush, <<>> \in Seq(Msgs)
<1>5. PICK d \in Nat, t \in Nat, r \in Nat, i \in Nat, a \in Nat :
        /\ d = deliveries[m] /\ t = timeouts /\ r = rows[m] /\ i = CopiesInProcess(m)
        /\ a = Copies(events[f], m)
  <2>1. deliveries[m] \in Nat /\ timeouts \in Nat /\ rows[m] \in Nat
    BY LimitsAssumption DEF TypeOK
  <2>2. CopiesInProcess(m) \in Nat
    BY CopiesNat
  <2> QED BY <1>4, <2>1, <2>2
<1>6. i <= d /\ r + i <= d * (1 + t) /\ a <= i
  BY <1>4, <1>5 DEF Owed
<1>7. d * (1 + (t + 1)) = d * (1 + t) + d /\ d * (1 + t) \in Nat
  OBVIOUS
<1>8. (r + a) + i <= d * (1 + (t + 1)) /\ t + 1 # 0
  BY <1>6, <1>7
<1> QED BY <1>1, <1>2, <1>3, <1>5, <1>6, <1>8 DEF Owed

\* The process is gone with its copies; only a first stop ends the exact account.
LEMMA OwedDied ==
  ASSUME TypeOK, StopsCounted, Exit \/ Crash, NEW m \in Msgs, Owed(m)
  PROVE  Owed(m)'
<1>1. /\ buffer' = <<>> /\ events' = [f \in Flushers |-> <<>>]
      /\ fetched' = [c \in Consumers |-> <<>>]
      /\ UNCHANGED <<rows, deliveries, timeouts>>
      /\ stops' \in Nat /\ stops' # 0 /\ stops \in Nat /\ stops <= stops'
  BY DEF Exit, Crash, Die, StopsCounted, TypeOK
<1>2. Places(events', m) = {} /\ Places(fetched', m) = {} /\ Copies(buffer', m) = 0
  BY <1>1, CopiesEmpty DEF Places
<1>3. CopiesInProcess(m)' = 0
  BY <1>2, FS_EmptySet DEF CopiesInProcess
<1>4. CopiesInProcess(m) \in Nat
  BY CopiesNat
<1> QED BY <1>1, <1>3, <1>4, OwedMoved

\* No step makes a row or loses a copy otherwise.
LEMMA OwedStep ==
  ASSUME TypeOK, AcksMatchEvents, StopsCounted, [Next]_vars, NEW m \in Msgs, Owed(m)
  PROVE  Owed(m)'
<1>1. stops \in Nat /\ stops' \in Nat /\ stops <= stops' /\ CopiesInProcess(m) \in Nat
  BY TypeStep, StopsStep, CopiesNat DEF TypeOK
<1>2. ASSUME UNCHANGED <<rows, deliveries, timeouts, buffer, events, fetched>>
      PROVE  Owed(m)'
  <2>1. CopiesInProcess(m)' = CopiesInProcess(m)
    BY <1>2 DEF CopiesInProcess
  <2> QED BY <1>1, <1>2, <2>1, OwedMoved
<1>3. ASSUME NEW c \in Consumers, NEW k \in Msgs, Deliver(c, k)
      PROVE  Owed(m)'
  BY <1>3, OwedDelivered
<1>4. ASSUME NEW c \in Consumers, HandleUndecodable(c)
      PROVE  Owed(m)'
  <2>1. /\ fetched[c] # <<>> /\ Head(fetched[c]) \in Undecodable
        /\ fetched' = [fetched EXCEPT ![c] = Tail(@)]
        /\ UNCHANGED <<rows, deliveries, timeouts, buffer, events>>
    BY <1>4 DEF HandleUndecodable
  <2>2. /\ Cardinality(Places(fetched, m))
             = Cardinality(Places(fetched', m)) + (IF Head(fetched[c]) = m THEN 1 ELSE 0)
        /\ Cardinality(Places(fetched', m)) \in Nat
    BY <2>1, CopiesTaken
  <2>3. /\ CopiesInProcess(m)' \in Nat /\ CopiesInProcess(m)' <= CopiesInProcess(m)
        /\ m \notin Undecodable => CopiesInProcess(m)' = CopiesInProcess(m)
    BY <2>1, <2>2, CopiesNat DEF CopiesInProcess
  <2> QED BY <1>1, <2>1, <2>3, OwedMoved
<1>5. ASSUME NEW c \in Consumers, Handle(c)
      PROVE  Owed(m)'
  <2>1. UNCHANGED <<rows, deliveries, timeouts>>
    BY <1>5 DEF Handle
  <2>2. CopiesInProcess(m)' = CopiesInProcess(m)
    BY <1>5, CopiesHandle
  <2> QED BY <1>1, <2>1, <2>2, OwedMoved
<1>6. ASSUME NEW f \in Flushers, Flush(f)
      PROVE  Owed(m)'
  <2>1. CASE FlushTake(f)
    <3>1. UNCHANGED <<rows, deliveries, timeouts>>
      BY <2>1 DEF FlushTake
    <3>2. CopiesInProcess(m)' = CopiesInProcess(m)
      BY <2>1, CopiesTake
    <3> QED BY <1>1, <3>1, <3>2, OwedMoved
  <2>2. CASE InsertOk(f)
    BY <2>2, OwedInserted
  <2>3. CASE InsertFail(f)
    <3>1. UNCHANGED <<rows, deliveries, timeouts, fetched>> /\ PutBack(f)
      BY <2>3 DEF InsertFail
    <3>2. CopiesInProcess(m)' = CopiesInProcess(m)
      BY <3>1, CopiesPutBack
    <3> QED BY <1>1, <3>1, <3>2, OwedMoved
  <2>4. CASE InsertTimeout(f)
    BY <2>4, OwedTimedOut
  <2>5. CASE FlushEmpty(f) \/ Ack(f) \/ FlushReturn(f)
    BY <1>2, <2>5 DEF FlushEmpty, Ack, FlushReturn
  <2> QED BY <1>6, <2>1, <2>2, <2>3, <2>4, <2>5 DEF Flush
<1>7. ASSUME Exit \/ Crash
      PROVE  Owed(m)'
  BY <1>7, OwedDied
<1>8. ASSUME NEW c \in Consumers, Consume(c)
      PROVE  Owed(m)'
  BY <1>2, <1>4, <1>5, <1>8 DEF Consume, Fetch, FetchEnd
<1> QED
  BY <1>2, <1>3, <1>6, <1>7, <1>8
  DEF Next, vars, Publish, AckWaitExpire, StreamExpire, Tick, Shutdown, LoopFinalFlush,
      MainFinalFlush, Return, Cancel, Restart

\* Rows are owed to deliveries and to inserts that reported a false error, and
\* an undisturbed process turns each delivery into exactly one row.
THEOREM RowsAccounted == Spec => []RowsExplained
<1> DEFINE Inv == StopsCounted /\ CopiesOwed /\ RowsExplained
<1>1. Inv <=> StopsCounted /\ \A m \in Msgs : Owed(m)
  BY DEF CopiesOwed, RowsExplained, Owed
<1>2. ASSUME Init
      PROVE  Inv
  <2>1. /\ stops = 0 /\ timeouts = 0 /\ buffer = <<>> /\ stage = "running"
        /\ \A m \in Msgs : rows[m] = 0 /\ deliveries[m] = 0
    BY <1>2 DEF Init
  <2>2. \A m : Places(events, m) = {} /\ Places(fetched, m) = {}
    BY <1>2 DEF Init, Places, Positions
  <2>3. \A m : CopiesInProcess(m) = 0
    BY <2>1, <2>2, CopiesEmpty, FS_EmptySet DEF CopiesInProcess
  <2> QED BY <1>1, <2>1, <2>3 DEF StopsCounted, Owed
<1>3. ASSUME TypeOK, AcksMatchEvents, Inv, [Next]_vars
      PROVE  Inv'
  <2>1. \A m \in Msgs : Owed(m)'
    BY <1>1, <1>3, OwedStep
  <2>2. StopsCounted'
    BY <1>3, StopsStep
  <2> QED BY <2>1, <2>2 DEF CopiesOwed, RowsExplained, Owed
<1>4. Inv => RowsExplained
  OBVIOUS
<1> HIDE DEF Inv
<1> QED BY <1>2, <1>3, <1>4, TypeCorrect, AcksAligned, PTL DEF Spec

\* Rows inserted from a batch of published messages are a Store step.
LEMMA InsertIsStore ==
  ASSUME TypeOK, OnlyPublished, NEW f \in Flushers, rows' = Inserted(events[f]),
         UNCHANGED <<published, stream, expired>>
  PROVE  \E S \in SUBSET Msgs : Delivery!Store(S)
<1> DEFINE S == Held(events[f])
<1>1. S \subseteq Msgs
  BY HeldType DEF TypeOK
<1>2. S \subseteq published
  BY DEF OnlyPublished, InMemory
<1>3. stored' = stored \cup S
  BY <1>1, InsertedRows DEF stored, TypeOK
<1>4. Delivery!Store(S)
  BY <1>2, <1>3 DEF Delivery!Store
<1> QED BY <1>1, <1>4

\* Every step of the worker is one of EventDelivery, or a stutter of it.
LEMMA DeliveryStep == IInv /\ [Next]_vars => [Delivery!Next]_(Delivery!vars)
<1> SUFFICES ASSUME IInv, [Next]_vars
             PROVE  Delivery!Next \/ UNCHANGED Delivery!vars
  OBVIOUS
<1> USE DEF IInv
<1>1. ASSUME UNCHANGED <<published, stream, expired, rows>>
      PROVE  UNCHANGED Delivery!vars
  BY <1>1 DEF Delivery!vars, stored
<1>2. ASSUME NEW m \in Msgs, Publish(m)
      PROVE  Delivery!Publish(m)
  BY <1>2 DEF Publish, Delivery!Publish, stored
<1>3. ASSUME NEW m \in Msgs, StreamExpire(m)
      PROVE  Delivery!Expire(m)
  BY <1>3 DEF StreamExpire, Delivery!Expire, stored
<1>4. ASSUME NEW f \in Flushers, InsertOk(f) \/ InsertTimeout(f)
      PROVE  Delivery!Next
  BY <1>4, InsertIsStore DEF InsertOk, InsertTimeout, Delivery!Next
<1>5. ASSUME NEW f \in Flushers, Ack(f)
      PROVE  Delivery!Next \/ UNCHANGED Delivery!vars
  <2>1. UNCHANGED <<published, expired, rows>>
    BY <1>5 DEF Ack
  <2>2. CASE stream' = stream
    BY <1>1, <2>1, <2>2
  <2>3. CASE stream' = stream \ {Head(acks[f])}
    <3>1. Head(acks[f]) \in Msgs
      BY <1>5, AckRemovesStored DEF stored
    <3>2. Delivery!Remove(Head(acks[f]))
      BY <1>5, <2>1, <2>3, AckRemovesStored DEF Delivery!Remove, stored
    <3> QED BY <3>1, <3>2 DEF Delivery!Next
  <2> QED BY <1>5, <2>2, <2>3, AckRemovesStored
<1> QED
  BY <1>1, <1>2, <1>3, <1>4, <1>5
  DEF Next, vars, AckWaitExpire, Deliver, Consume, Fetch, FetchEnd, HandleUndecodable,
      Handle, Flush, FlushEmpty, FlushTake, InsertFail, FlushReturn, Tick, Shutdown,
      LoopFinalFlush, MainFinalFlush, Return, Exit, Die, Cancel, Crash, Restart,
      Delivery!Next

\* The worker implements EventDelivery: in particular a message leaves the
\* stream only when the table has it or the stream's limits drop it.
THEOREM ImplementsDelivery == Spec => DeliverySpec
<1>1. Init => Delivery!Init
  BY DEF Init, Delivery!Init, stored
<1> QED BY <1>1, DeliveryStep, Invariance, PTL DEF Spec, DeliverySpec, Delivery!Spec

=============================================================================
