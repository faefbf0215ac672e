---------------------------- MODULE EnvKernel_proofs ----------------------------
(***************************************************************************)
(* The pointer operations of TailQueue do to the represented sequence what *)
(* their names say, for queues of any length; the last lemmas of the first *)
(* part, about the set of members, are the ones the kernel's proofs use.   *)
(* Then what the environment table guarantees whatever syscalls the envs   *)
(* make: KernelInv is an inductive invariant of EnvKernel, for every size  *)
(* of the table.                                                           *)
(***************************************************************************)
EXTENDS EnvKernel, TLAPS, SequenceTheorems, FiniteSetTheorems, WellFoundedInduction

\* Inserting at the tail keeps the record a queue.
LEMMA InsertTailType ==
  ASSUME NEW q \in TailQ, NEW e \in Elem
  PROVE  TAILQ_INSERT_TAIL(q, e) \in TailQ
BY QueueAssumption DEF TailQ, TAILQ_INSERT_TAIL

\* Inserting at the head keeps the record a queue.
LEMMA InsertHeadType ==
  ASSUME NEW q \in TailQ, NEW e \in Elem
  PROVE  TAILQ_INSERT_HEAD(q, e) \in TailQ
BY QueueAssumption DEF TailQ, TAILQ_INSERT_HEAD

\* Removing an element whose links were written keeps the record a queue.
LEMMA RemoveType ==
  ASSUME NEW q \in TailQ, NEW e \in Elem, ~RemoveFaults(q, e)
  PROVE  TAILQ_REMOVE(q, e) \in TailQ
BY QueueAssumption DEF TailQ, TAILQ_REMOVE, RemoveFaults

\* What Represents says of a sequence of known length.
LEMMA Links ==
  ASSUME NEW q \in TailQ, NEW s \in Seq(Elem), Represents(q, s)
  PROVE  /\ Len(s) \in Nat /\ DOMAIN s = 1..Len(s)
         /\ \A i \in 1..Len(s) : s[i] \in Elem
         /\ \A i, j \in 1..Len(s) : s[i] = s[j] => i = j
         /\ Len(s) = 0 <=> q.last = HEAD
         /\ Len(s) = 0 <=> q.first = NULL
         /\ Len(s) # 0 => q.first = s[1] /\ q.last = s[Len(s)]
         /\ \A i \in 1..Len(s) :
              /\ q.next[s[i]] = IF i = Len(s) THEN NULL ELSE s[i + 1]
              /\ q.prev[s[i]] = IF i = 1 THEN HEAD ELSE s[i - 1]
<1>1. Len(s) \in Nat /\ DOMAIN s = 1..Len(s) /\ \A i \in 1..Len(s) : s[i] \in Elem
  OBVIOUS
<1>2. Len(s) # 0 => s[1] \in Elem /\ s[Len(s)] \in Elem
  BY <1>1
<1>3. /\ Len(s) = 0 <=> q.last = HEAD
      /\ Len(s) = 0 <=> q.first = NULL
      /\ Len(s) # 0 => q.first = s[1] /\ q.last = s[Len(s)]
  BY <1>2, QueueAssumption DEF Represents
<1>4. QED
  BY <1>1, <1>3 DEF Represents

\* TAILQ_INSERT_TAIL appends.
LEMMA InsertTailAppends ==
  ASSUME NEW q \in TailQ, NEW s \in Seq(Elem), Represents(q, s),
         NEW e \in Elem, \A i \in DOMAIN s : s[i] # e
  PROVE  Represents(TAILQ_INSERT_TAIL(q, e), Append(s, e))
<1> DEFINE r == TAILQ_INSERT_TAIL(q, e)
           t == Append(s, e)
           n == Len(s)
<1>1. /\ Len(t) = n + 1 /\ DOMAIN t = 1..(n + 1) /\ t[n + 1] = e
      /\ \A i \in 1..n : t[i] = s[i]
  OBVIOUS
<1>2. /\ r.last = e
      /\ r.first = IF n = 0 THEN e ELSE q.first
      /\ r.prev = [q.prev EXCEPT ![e] = q.last]
      /\ r.next = IF n = 0 THEN [q.next EXCEPT ![e] = NULL]
                           ELSE [q.next EXCEPT ![e] = NULL, ![q.last] = e]
  BY Links, QueueAssumption DEF TAILQ_INSERT_TAIL
<1>3. /\ n \in Nat /\ DOMAIN s = 1..n /\ \A i \in 1..n : s[i] \in Elem /\ s[i] # e
      /\ \A i, j \in 1..n : s[i] = s[j] => i = j
      /\ n = 0 => q.last = HEAD
      /\ n # 0 => q.first = s[1] /\ q.last = s[n]
      /\ \A i \in 1..n : /\ q.next[s[i]] = IF i = n THEN NULL ELSE s[i + 1]
                         /\ q.prev[s[i]] = IF i = 1 THEN HEAD ELSE s[i - 1]
      /\ q.next \in [Elem -> Elem \cup {NULL}]
      /\ q.prev \in [Elem -> Elem \cup {HEAD, NULL}]
  BY Links DEF TailQ
<1> HIDE DEF r, t, n
<1>4. /\ \A i, j \in 1..(n + 1) : t[i] = t[j] => i = j
      /\ r.first = t[1] /\ r.last = t[n + 1]
  BY <1>1, <1>2, <1>3
<1>5. ASSUME NEW i \in 1..(n + 1)
      PROVE  /\ r.next[t[i]] = IF i = n + 1 THEN NULL ELSE t[i + 1]
             /\ r.prev[t[i]] = IF i = 1 THEN HEAD ELSE t[i - 1]
  <2>1. CASE i = n + 1
    BY <1>1, <1>2, <1>3, <2>1
  <2>2. CASE i \in 1..n
    <3>1. r.prev[s[i]] = IF i = 1 THEN HEAD ELSE s[i - 1]
      BY <1>2, <1>3, <2>2
    <3>2. n # 0 /\ n \in 1..n
      BY <1>3, <2>2
    <3>3. r.next[s[i]] = IF s[i] = s[n] THEN e ELSE q.next[s[i]]
      BY <1>2, <1>3, <2>2, <3>2
    <3>4. r.next[s[i]] = IF i = n THEN e ELSE s[i + 1]
      BY <1>3, <2>2, <3>2, <3>3
    <3>5. QED
      BY <1>1, <1>3, <2>2, <3>1, <3>4
  <2>3. QED
    BY <1>3, <2>1, <2>2
<1>6. Represents(r, t)
  BY <1>1, <1>3, <1>4, <1>5 DEF Represents
<1>7. QED
  BY <1>6 DEF r, t

\* TAILQ_INSERT_HEAD prepends.
LEMMA InsertHeadPrepends ==
  ASSUME NEW q \in TailQ, NEW s \in Seq(Elem), Represents(q, s),
         NEW e \in Elem, \A i \in DOMAIN s : s[i] # e
  PROVE  Represents(TAILQ_INSERT_HEAD(q, e), <<e>> \o s)
<1> DEFINE r == TAILQ_INSERT_HEAD(q, e)
           t == <<e>> \o s
           n == Len(s)
<1>1. /\ Len(t) = n + 1 /\ DOMAIN t = 1..(n + 1) /\ t[1] = e
      /\ \A i \in 2..(n + 1) : t[i] = s[i - 1]
  OBVIOUS
<1>2. /\ r.first = e
      /\ r.last = IF n = 0 THEN e ELSE q.last
      /\ r.next = [q.next EXCEPT ![e] = q.first]
      /\ r.prev = IF n = 0 THEN [q.prev EXCEPT ![e] = HEAD]
                           ELSE [q.prev EXCEPT ![q.first] = e, ![e] = HEAD]
  BY Links, QueueAssumption DEF TAILQ_INSERT_HEAD
<1>3. /\ n \in Nat /\ DOMAIN s = 1..n /\ \A i \in 1..n : s[i] \in Elem /\ s[i] # e
      /\ \A i, j \in 1..n : s[i] = s[j] => i = j
      /\ n = 0 => q.first = NULL
      /\ n # 0 => q.first = s[1] /\ q.last = s[n]
      /\ \A i \in 1..n : /\ q.next[s[i]] = IF i = n THEN NULL ELSE s[i + 1]
                         /\ q.prev[s[i]] = IF i = 1 THEN HEAD ELSE s[i - 1]
      /\ q.next \in [Elem -> Elem \cup {NULL}]
      /\ q.prev \in [Elem -> Elem \cup {HEAD, NULL}]
  BY Links DEF TailQ
<1> HIDE DEF r, t, n
<1>4. /\ \A i, j \in 1..(n + 1) : t[i] = t[j] => i = j
      /\ r.first = t[1] /\ r.last = t[n + 1]
  <2>1. \A i \in 1..(n + 1) : i = 1 \/ (i \in 2..(n + 1) /\ i - 1 \in 1..n)
    BY <1>3
  <2>2. QED
    BY <1>1, <1>2, <1>3, <2>1
<1>5. ASSUME NEW i \in 1..(n + 1)
      PROVE  /\ r.next[t[i]] = IF i = n + 1 THEN NULL ELSE t[i + 1]
             /\ r.prev[t[i]] = IF i = 1 THEN HEAD ELSE t[i - 1]
  <2>1. CASE i = 1
    BY <1>1, <1>2, <1>3, <2>1
  <2>2. CASE i # 1
    <3> DEFINE j == i - 1
    <3>1. j \in 1..n /\ t[i] = s[j] /\ n # 0 /\ 1 \in 1..n /\ i \in 2..(n + 1)
      BY <1>1, <1>3, <2>2
    <3>2. r.next[s[j]] = IF j = n THEN NULL ELSE s[j + 1]
      BY <1>2, <1>3, <3>1
    <3>3. r.prev[s[j]] = IF s[j] = s[1] THEN e ELSE q.prev[s[j]]
      BY <1>2, <1>3, <3>1
    <3>4. r.prev[s[j]] = IF j = 1 THEN e ELSE s[j - 1]
      BY <1>3, <3>1, <3>3
    <3>5. QED
      BY <1>1, <1>3, <2>2, <3>1, <3>2, <3>4
  <2>3. QED
    BY <2>1, <2>2
<1>6. Represents(r, t)
  BY <1>1, <1>3, <1>4, <1>5 DEF Represents
<1>7. QED
  BY <1>6 DEF r, t

\* TAILQ_REMOVE takes out exactly the element it is given.
LEMMA RemoveDrops ==
  ASSUME NEW q \in TailQ, NEW s \in Seq(Elem), Represents(q, s),
         NEW k \in DOMAIN s
  PROVE  /\ Represents(TAILQ_REMOVE(q, s[k]), Without(s, k))
         /\ ~RemoveFaults(q, s[k])
<1> DEFINE r == TAILQ_REMOVE(q, s[k])
           t == Without(s, k)
           n == Len(s)
           succ == IF k = n THEN NULL ELSE s[k + 1]
           pred == IF k = 1 THEN HEAD ELSE s[k - 1]
<1>1. /\ n \in Nat /\ DOMAIN s = 1..n /\ k \in 1..n
      /\ \A i \in 1..n : s[i] \in Elem
      /\ \A i, j \in 1..n : s[i] = s[j] => i = j
      /\ q.first = s[1] /\ q.last = s[n]
      /\ \A i \in 1..n : /\ q.next[s[i]] = IF i = n THEN NULL ELSE s[i + 1]
                         /\ q.prev[s[i]] = IF i = 1 THEN HEAD ELSE s[i - 1]
      /\ q.next \in [Elem -> Elem \cup {NULL}]
      /\ q.prev \in [Elem -> Elem \cup {HEAD, NULL}]
  <2>1. /\ n \in Nat /\ DOMAIN s = 1..n
        /\ \A i \in 1..n : s[i] \in Elem
        /\ \A i, j \in 1..n : s[i] = s[j] => i = j
        /\ n # 0 => q.first = s[1] /\ q.last = s[n]
        /\ \A i \in 1..n : /\ q.next[s[i]] = IF i = n THEN NULL ELSE s[i + 1]
                           /\ q.prev[s[i]] = IF i = 1 THEN HEAD ELSE s[i - 1]
    BY Links, Zenon
  <2>2. k \in 1..n /\ n # 0
    BY <2>1
  <2>3. QED
    BY <2>1, <2>2 DEF TailQ
<1>2. q.next[s[k]] = succ /\ q.prev[s[k]] = pred
  BY <1>1
<1>3. /\ r.first = IF pred = HEAD THEN succ ELSE q.first
      /\ r.last = IF succ = NULL THEN pred ELSE q.last
      /\ r.next = IF pred = HEAD THEN q.next ELSE [q.next EXCEPT ![pred] = succ]
      /\ r.prev = IF succ = NULL THEN q.prev ELSE [q.prev EXCEPT ![succ] = pred]
  BY <1>2 DEF TAILQ_REMOVE
<1>4. /\ Len(t) = n - 1 /\ DOMAIN t = 1..(n - 1)
      /\ \A i \in 1..(n - 1) : t[i] = IF i < k THEN s[i] ELSE s[i + 1]
  <2> HIDE DEF n
  <2>1. n - 1 \in Nat
    BY <1>1
  <2>2. t = [i \in 1..(n - 1) |-> IF i < k THEN s[i] ELSE s[i + 1]]
    BY DEF Without, n
  <2> HIDE DEF t
  <2>3. QED
    BY <2>1, <2>2
<1>5. /\ pred = HEAD <=> k = 1
      /\ succ = NULL <=> k = n
      /\ k # n => k + 1 \in 1..n
      /\ k # 1 => k - 1 \in 1..n
  <2> HIDE DEF n
  <2>1. (k # n => k + 1 \in 1..n) /\ (k # 1 => k - 1 \in 1..n)
    BY <1>1
  <2>2. QED
    BY <2>1, <1>1, QueueAssumption
<1> HIDE DEF r, t, n
<1>6. \A i, j \in 1..(n - 1) : t[i] = t[j] => i = j
  BY <1>1, <1>4
<1>7. /\ r.first = IF n - 1 = 0 THEN NULL ELSE t[1]
      /\ r.last = IF n - 1 = 0 THEN HEAD ELSE t[n - 1]
  BY <1>1, <1>3, <1>4, <1>5
<1>8. ASSUME NEW i \in 1..(n - 1)
      PROVE  /\ r.next[t[i]] = IF i = n - 1 THEN NULL ELSE t[i + 1]
             /\ r.prev[t[i]] = IF i = 1 THEN HEAD ELSE t[i - 1]
  <2> DEFINE j == IF i < k THEN i ELSE i + 1
  <2>1. j \in 1..n /\ j # k /\ t[i] = s[j] /\ s[j] \in Elem
    BY <1>1, <1>4
  <2>2. r.next[s[j]] = IF k # 1 /\ j = k - 1 THEN succ ELSE q.next[s[j]]
    <3>1. CASE k = 1
      BY <3>1, <1>3, <1>5
    <3>2. CASE k # 1
      <4>1. pred = s[k - 1] /\ k - 1 \in 1..n
        BY <3>2, <1>5
      <4>2. s[j] = pred <=> j = k - 1
        BY <4>1, <2>1, <1>1
      <4>3. QED
        BY <4>1, <4>2, <3>2, <2>1, <1>1, <1>3, <1>5
    <3>3. QED
      BY <3>1, <3>2
  <2>3. r.prev[s[j]] = IF k # n /\ j = k + 1 THEN pred ELSE q.prev[s[j]]
    <3>1. CASE k = n
      BY <3>1, <1>3, <1>5
    <3>2. CASE k # n
      <4>1. succ = s[k + 1] /\ k + 1 \in 1..n
        BY <3>2, <1>5
      <4>2. s[j] = succ <=> j = k + 1
        BY <4>1, <2>1, <1>1
      <4>3. QED
        BY <4>1, <4>2, <3>2, <2>1, <1>1, <1>3, <1>5
    <3>3. QED
      BY <3>1, <3>2
  <2>4. r.next[t[i]] = IF i = n - 1 THEN NULL ELSE t[i + 1]
    BY <1>1, <1>4, <2>1, <2>2
  <2>5. r.prev[t[i]] = IF i = 1 THEN HEAD ELSE t[i - 1]
    BY <1>1, <1>4, <2>1, <2>3
  <2>6. QED
    BY <2>4, <2>5
<1>9. Represents(r, t)
  BY <1>1, <1>4, <1>6, <1>7, <1>8 DEF Represents
<1>10. ~RemoveFaults(q, s[k])
  BY <1>1, <1>2, QueueAssumption DEF RemoveFaults
<1>11. QED
  BY <1>9, <1>10 DEF r, t

-----------------------------------------------------------------------------
(* The members of a queue.                                                 *)

\* An order of a finite set of elements is a sequence of elements.
LEMMA OrderFacts ==
  ASSUME NEW S \in SUBSET Elem, IsFiniteSet(S), NEW s \in Orders(S)
  PROVE  /\ s \in Seq(Elem) /\ Len(s) = Cardinality(S) /\ Cardinality(S) \in Nat
         /\ DOMAIN s = 1..Cardinality(S)
         /\ \A i \in DOMAIN s : s[i] \in S
         /\ \A i, j \in DOMAIN s : s[i] = s[j] => i = j
         /\ \A e \in S : \E i \in DOMAIN s : s[i] = e
<1>1. Cardinality(S) \in Nat
  BY FS_CardinalityType
<1>2. s \in [1..Cardinality(S) -> S]
  BY DEF Orders
<1>3. s \in [1..Cardinality(S) -> Elem]
  BY <1>2
<1>4. s \in Seq(Elem) /\ Len(s) = Cardinality(S)
  BY <1>1, <1>3
<1>5. QED
  BY <1>1, <1>2, <1>4 DEF Orders

\* TAILQ_INIT makes an empty queue.
LEMMA HoldsInit == TAILQ_INIT \in TailQ /\ Holds(TAILQ_INIT, {})
<1>1. TAILQ_INIT \in TailQ
  BY DEF TAILQ_INIT, TailQ
<1>2. Cardinality({}) = 0
  BY FS_EmptySet
<1>3. <<>> \in [1..0 -> {}] /\ DOMAIN <<>> = 1..0 /\ Len(<<>>) = 0
  OBVIOUS
<1>4. <<>> \in Orders({})
  BY <1>2, <1>3 DEF Orders
<1>5. Represents(TAILQ_INIT, <<>>)
  BY <1>3 DEF Represents, TAILQ_INIT
<1>6. QED
  BY <1>1, <1>4, <1>5 DEF Holds

\* The first element of a queue is a member, and there is one unless it is empty.
LEMMA HoldsFirst ==
  ASSUME NEW q \in TailQ, NEW S \in SUBSET Elem, IsFiniteSet(S), Holds(q, S)
  PROVE  /\ TAILQ_FIRST(q) = NULL <=> S = {}
         /\ S # {} => TAILQ_FIRST(q) \in S
<1>1. PICK s \in Orders(S) : Represents(q, s)
  BY DEF Holds
<1>2. /\ s \in Seq(Elem) /\ Len(s) = Cardinality(S) /\ Cardinality(S) \in Nat
      /\ DOMAIN s = 1..Cardinality(S)
      /\ \A i \in DOMAIN s : s[i] \in S
  BY OrderFacts
<1>3. Cardinality(S) = 0 <=> S = {}
  BY FS_EmptySet
<1>4. q.first = IF Cardinality(S) = 0 THEN NULL ELSE s[1]
  BY <1>1, <1>2 DEF Represents
<1>5. Cardinality(S) # 0 => s[1] \in S
  BY <1>2
<1>6. QED
  BY <1>3, <1>4, <1>5, QueueAssumption DEF TAILQ_FIRST

\* Inserting a new element at the tail adds it to the members.
LEMMA HoldsInsertTail ==
  ASSUME NEW q \in TailQ, NEW S \in SUBSET Elem, IsFiniteSet(S), Holds(q, S),
         NEW e \in Elem, e \notin S
  PROVE  Holds(TAILQ_INSERT_TAIL(q, e), S \cup {e})
<1> DEFINE n == Cardinality(S)
<1>1. PICK s \in Orders(S) : Represents(q, s)
  BY DEF Holds
<1>2. /\ s \in Seq(Elem) /\ Len(s) = n /\ n \in Nat /\ DOMAIN s = 1..n
      /\ \A i \in 1..n : s[i] \in S
      /\ \A i, j \in 1..n : s[i] = s[j] => i = j
      /\ \A f \in S : \E i \in 1..n : s[i] = f
  BY OrderFacts
<1>3. Cardinality(S \cup {e}) = n + 1
  BY FS_AddElement
<1> DEFINE t == Append(s, e)
<1>4. Represents(TAILQ_INSERT_TAIL(q, e), t)
  BY <1>1, <1>2, InsertTailAppends
<1> HIDE DEF n
<1>5. t = [i \in 1..(n + 1) |-> IF i = n + 1 THEN e ELSE s[i]]
  <2>1. /\ DOMAIN t = 1..(n + 1) /\ t = [i \in DOMAIN t |-> t[i]]
        /\ \A i \in 1..n : t[i] = s[i]
        /\ t[n + 1] = e
    <3>1. /\ t \in Seq(Elem) /\ Len(t) = Len(s) + 1
          /\ \A i \in 1..Len(s) : t[i] = s[i]
          /\ t[Len(s) + 1] = e
      BY <1>2
    <3> HIDE DEF t
    <3>2. t \in [1..(n + 1) -> Elem]
      BY <3>1, <1>2
    <3>3. QED
      BY <3>1, <3>2, <1>2
  <2> HIDE DEF t
  <2>2. \A i \in 1..(n + 1) : i = n + 1 \/ i \in 1..n
    BY <1>2
  <2>3. QED
    BY <2>1, <2>2
<1> HIDE DEF t
<1>6. \A i \in 1..(n + 1) : i = n + 1 \/ i \in 1..n
  BY <1>2
<1>7. t \in [1..(n + 1) -> S \cup {e}]
  BY <1>2, <1>5, <1>6
<1>8. \A i, j \in 1..(n + 1) : t[i] = t[j] => i = j
  BY <1>2, <1>5, <1>6
<1>9. \A f \in S \cup {e} : \E i \in 1..(n + 1) : t[i] = f
  <2>1. ASSUME NEW f \in S PROVE \E i \in 1..(n + 1) : t[i] = f
    <3>1. PICK i \in 1..n : s[i] = f
      BY <1>2, <2>1
    <3>2. i \in 1..(n + 1) /\ t[i] = f
      BY <1>2, <1>5, <3>1
    <3>3. QED
      BY <3>2
  <2>2. n + 1 \in 1..(n + 1) /\ t[n + 1] = e
    BY <1>2, <1>5
  <2>3. QED
    BY <2>1, <2>2
<1>10. t \in Orders(S \cup {e})
  BY <1>3, <1>7, <1>8, <1>9 DEF Orders
<1>11. QED
  BY <1>4, <1>10 DEF Holds

\* Inserting a new element at the head adds it to the members.
LEMMA HoldsInsertHead ==
  ASSUME NEW q \in TailQ, NEW S \in SUBSET Elem, IsFiniteSet(S), Holds(q, S),
         NEW e \in Elem, e \notin S
  PROVE  Holds(TAILQ_INSERT_HEAD(q, e), S \cup {e})
<1> DEFINE n == Cardinality(S)
<1>1. PICK s \in Orders(S) : Represents(q, s)
  BY DEF Holds
<1>2. /\ s \in Seq(Elem) /\ Len(s) = n /\ n \in Nat /\ DOMAIN s = 1..n
      /\ \A i \in 1..n : s[i] \in S
      /\ \A i, j \in 1..n : s[i] = s[j] => i = j
      /\ \A f \in S : \E i \in 1..n : s[i] = f
  BY OrderFacts
<1>3. Cardinality(S \cup {e}) = n + 1
  BY FS_AddElement
<1> DEFINE t == <<e>> \o s
<1>4. Represents(TAILQ_INSERT_HEAD(q, e), t)
  BY <1>1, <1>2, InsertHeadPrepends
<1> HIDE DEF n
<1>5. t = [i \in 1..(n + 1) |-> IF i = 1 THEN e ELSE s[i - 1]]
  <2>1. /\ DOMAIN t = 1..(n + 1) /\ t = [i \in DOMAIN t |-> t[i]]
        /\ t[1] = e /\ \A i \in 2..(n + 1) : t[i] = s[i - 1]
    BY <1>2
  <2> HIDE DEF t
  <2>2. \A i \in 1..(n + 1) : i = 1 \/ i \in 2..(n + 1)
    BY <1>2
  <2>3. QED
    BY <2>1, <2>2
<1> HIDE DEF t
<1>6. \A i \in 1..(n + 1) : i = 1 \/ i - 1 \in 1..n
  BY <1>2
<1>7. t \in [1..(n + 1) -> S \cup {e}]
  BY <1>2, <1>5, <1>6
<1>8. \A i, j \in 1..(n + 1) : t[i] = t[j] => i = j
  BY <1>2, <1>5, <1>6
<1>9. \A f \in S \cup {e} : \E i \in 1..(n + 1) : t[i] = f
  <2>1. ASSUME NEW f \in S PROVE \E i \in 1..(n + 1) : t[i] = f
    <3>1. PICK i \in 1..n : s[i] = f
      BY <1>2, <2>1
    <3>2. i + 1 \in 1..(n + 1) /\ t[i + 1] = f
      BY <1>2, <1>5, <3>1
    <3>3. QED
      BY <3>2
  <2>2. 1 \in 1..(n + 1) /\ t[1] = e
    BY <1>2, <1>5
  <2>3. QED
    BY <2>1, <2>2
<1>10. t \in Orders(S \cup {e})
  BY <1>3, <1>7, <1>8, <1>9 DEF Orders
<1>11. QED
  BY <1>4, <1>10 DEF Holds

\* Removing a member takes it, and nothing else, out; the store goes through a
\* link that was written.
LEMMA HoldsRemove ==
  ASSUME NEW q \in TailQ, NEW S \in SUBSET Elem, IsFiniteSet(S), Holds(q, S),
         NEW e \in S
  PROVE  Holds(TAILQ_REMOVE(q, e), S \ {e}) /\ ~RemoveFaults(q, e)
<1> DEFINE n == Cardinality(S)
<1>1. PICK s \in Orders(S) : Represents(q, s)
  BY DEF Holds
<1>2. /\ s \in Seq(Elem) /\ Len(s) = n /\ n \in Nat /\ DOMAIN s = 1..n
      /\ \A i \in 1..n : s[i] \in S
      /\ \A i, j \in 1..n : s[i] = s[j] => i = j
      /\ \A f \in S : \E i \in 1..n : s[i] = f
  BY OrderFacts
<1>3. Cardinality(S \ {e}) = n - 1
  BY FS_RemoveElement
<1>4. PICK k \in 1..n : s[k] = e
  BY <1>2
<1> DEFINE t == Without(s, k)
<1>5. Represents(TAILQ_REMOVE(q, e), t) /\ ~RemoveFaults(q, e)
  BY <1>1, <1>2, <1>4, RemoveDrops
<1> HIDE DEF n
<1>6. t = [i \in 1..(n - 1) |-> IF i < k THEN s[i] ELSE s[i + 1]]
  BY <1>2 DEF Without
<1> HIDE DEF t
<1>7. \A i \in 1..(n - 1) :
        /\ i < k => i \in 1..n /\ i # k
        /\ ~(i < k) => i + 1 \in 1..n /\ i + 1 # k
  BY <1>2
<1>8. t \in [1..(n - 1) -> S \ {e}]
  BY <1>2, <1>4, <1>6, <1>7
<1>9. \A i, j \in 1..(n - 1) : t[i] = t[j] => i = j
  BY <1>2, <1>6, <1>7
<1>10. \A f \in S \ {e} : \E i \in 1..(n - 1) : t[i] = f
  <2>1. SUFFICES ASSUME NEW f \in S \ {e} PROVE \E i \in 1..(n - 1) : t[i] = f
    OBVIOUS
  <2>2. PICK i \in 1..n : s[i] = f
    BY <1>2
  <2>3. CASE i < k
    <3>1. i \in 1..(n - 1) /\ t[i] = f
      BY <1>2, <1>6, <2>2, <2>3
    <3>2. QED
      BY <3>1
  <2>4. CASE i > k
    <3>1. i - 1 \in 1..(n - 1) /\ t[i - 1] = f
      BY <1>2, <1>6, <2>2, <2>4
    <3>2. QED
      BY <3>1
  <2>5. i # k
    BY <1>4, <2>2
  <2>6. QED
    BY <1>2, <2>3, <2>4, <2>5
<1>11. t \in Orders(S \ {e})
  BY <1>3, <1>8, <1>9, <1>10 DEF Orders
<1>12. QED
  BY <1>5, <1>11 DEF Holds

-----------------------------------------------------------------------------
\* asid_alloc returns a clear bit when there is one.
LEMMA AsidAllocFresh ==
  ASSUME asid_bitmap \subseteq 0..(NASID - 1), asid_bitmap # 0..(NASID - 1)
  PROVE  asid_alloc \in (0..(NASID - 1)) \ asid_bitmap
<1> DEFINE T == (0..(NASID - 1)) \ asid_bitmap
           R == OpToRel(<, Nat)
<1>1. T \subseteq Nat /\ T # {}
  <2>1. 0..(NASID - 1) \subseteq Nat
    BY KernelAssumption
  <2>2. \E a \in 0..(NASID - 1) : a \notin asid_bitmap
    OBVIOUS
  <2>3. QED
    BY <2>1, <2>2
<1>2. PICK a \in T : \A b \in T : ~(<<b, a>> \in R)
  <2> HIDE DEF T, R
  <2>1. IsWellFoundedOn(R, Nat)
    BY NatLessThanWellFounded DEF R
  <2>2. QED
    BY <1>1, <2>1, WFMin
<1>3. \A b \in T : a <= b
  <2>1. SUFFICES ASSUME NEW b \in T PROVE a <= b
    OBVIOUS
  <2>2. a \in Nat /\ b \in Nat
    BY <1>1
  <2>3. ~(<<b, a>> \in R)
    BY <1>2
  <2>4. ~(b < a)
    BY <2>2, <2>3 DEF OpToRel
  <2>5. QED
    BY <2>2, <2>4
<1>4. QED
  BY <1>3 DEF asid_alloc

\* What schedule does to the variables it changes, given a run list in which the
\* env to be rotated has been inserted before.
LEMMA ScheduleStep ==
  ASSUME NEW yield \in BOOLEAN, NEW e \in Elem \cup {NULL}, NEW q \in TailQ,
         NEW st \in [Elem -> Status], e \in Elem => q.prev[e] # NULL,
         count \in Int, env_pri \in [Elem -> Nat], halted = "no",
         schedule(yield, e, q, st)
  PROVE  /\ env_sched_list' \in TailQ
         /\ \A f \in Elem : q.prev[f] # NULL => env_sched_list'.prev[f] # NULL
         /\ count' \in Int /\ curenv' \in Elem \cup {NULL}
         /\ halted' \in {"no", "empty", "assert"}
         /\ halted' = "no" => curenv' \in Elem /\ st[curenv'] = RUNNABLE
<1> DEFINE over == yield \/ count = 0 \/ e = NULL \/ st[e] # RUNNABLE
           rot  == over /\ e # NULL /\ st[e] = RUNNABLE
           q1   == IF rot THEN TAILQ_INSERT_TAIL(TAILQ_REMOVE(q, e), e) ELSE q
           new  == IF over THEN TAILQ_FIRST(q1) ELSE e
<1>1. /\ q1 \in TailQ
      /\ \A f \in Elem : q.prev[f] # NULL => q1.prev[f] # NULL
  <2>1. CASE rot
    <3> DEFINE m == TAILQ_REMOVE(q, e)
    <3>1. e \in Elem /\ ~RemoveFaults(q, e)
      BY <2>1 DEF RemoveFaults
    <3>2. m \in TailQ
      BY <3>1, RemoveType
    <3>3. \A f \in Elem : q.prev[f] # NULL => m.prev[f] # NULL
      BY <3>1 DEF TAILQ_REMOVE, TailQ, RemoveFaults
    <3> HIDE DEF m
    <3>4. TAILQ_INSERT_TAIL(m, e) \in TailQ
      BY <3>1, <3>2, InsertTailType
    <3>5. \A f \in Elem : m.prev[f] # NULL => TAILQ_INSERT_TAIL(m, e).prev[f] # NULL
      BY <3>1, <3>2, QueueAssumption DEF TAILQ_INSERT_TAIL, TailQ
    <3>6. q1 = TAILQ_INSERT_TAIL(m, e)
      BY <2>1 DEF m
    <3>7. QED
      BY <3>3, <3>4, <3>5, <3>6
  <2>2. CASE ~rot
    BY <2>2
  <2>3. QED
    BY <2>1, <2>2
<1>2. /\ env_sched_list' = q1
      /\ \/ new = NULL /\ halted' = "empty" /\ curenv' = e /\ count' = count
         \/ /\ new # NULL
            /\ count' = (IF over THEN env_pri[new] ELSE count) - 1
            /\ \/ st[new] = RUNNABLE /\ curenv' = new /\ halted' = halted
               \/ curenv' = e /\ halted' = "assert"
  BY DEF schedule
<1>3. new \in Elem \cup {NULL}
  <2> HIDE DEF q1
  <2>1. TAILQ_FIRST(q1) \in Elem \cup {NULL}
    BY <1>1 DEF TAILQ_FIRST, TailQ
  <2>2. QED
    BY <2>1
<1> HIDE DEF q1, new, over
<1>4. QED
  BY <1>1, <1>2, <1>3

-----------------------------------------------------------------------------
(* The free list as a stack.                                               *)

\* When the slot after the array is the only free one, NENV envs are alive and hold
\* all the ASIDs.
LEMMA PhantomHeadMeansFull ==
  ASSUME KernelInv, Head(env_free_list) = NENV
  PROVE  asid_bitmap = 0..(NASID - 1)
<1> DEFINE A == 0..(NASID - 1)
           L == 0..(NENV - 1)
<1>1. /\ NENV \in Nat /\ NASID \in Nat /\ NASID <= NENV /\ Elem = 0..NENV
  BY KernelAssumption
<1>2. env_free_list \in Seq(Elem) /\ Len(env_free_list) \in Nat \ {0}
  BY DEF KernelInv, TypeOK, PhantomLast
<1>3. 1 \in DOMAIN env_free_list /\ Len(env_free_list) \in DOMAIN env_free_list
  BY <1>2
<1>4. env_free_list[1] = NENV /\ env_free_list[Len(env_free_list)] = NENV
  BY <1>2 DEF KernelInv, PhantomLast
<1>5. Len(env_free_list) = 1
  BY <1>3, <1>4 DEF KernelInv, FreeListExact
<1>6. L \subseteq Live
  <2>1. SUFFICES ASSUME NEW e \in L PROVE e \in Live
    OBVIOUS
  <2>2. e \in Elem /\ e # NENV
    BY <1>1
  <2>3. DOMAIN env_free_list = {1}
    BY <1>2, <1>5
  <2>4. QED
    BY <2>2, <2>3, <1>4 DEF KernelInv, FreeListExact
<1>7. asid_bitmap \subseteq A /\ IsFiniteSet(A) /\ Cardinality(A) = NASID
  <2>1. asid_bitmap \subseteq A
    BY DEF KernelInv, TypeOK
  <2>2. 0 \in Int /\ NASID - 1 \in Int
    BY <1>1
  <2>3. IsFiniteSet(A) /\ Cardinality(A) = IF 0 > NASID - 1 THEN 0 ELSE (NASID - 1) - 0 + 1
    BY <2>2, FS_Interval
  <2>4. Cardinality(A) = NASID
    <3> HIDE DEF A
    <3>1. QED
      BY <2>3, <1>1
  <2>5. QED
    BY <2>1, <2>3, <2>4
<1>8. IsFiniteSet(L) /\ Cardinality(L) = NENV
  BY <1>1, FS_Interval
<1>9. IsFiniteSet(asid_bitmap) /\ Cardinality(asid_bitmap) <= NASID
       /\ (NASID = Cardinality(asid_bitmap) => A = asid_bitmap)
  BY <1>7, FS_Subset
<1>10. NENV <= Cardinality(asid_bitmap)
  <2> DEFINE f == [e \in L |-> env_asid[e]]
  <2>1. f \in [L -> asid_bitmap]
    BY <1>6 DEF KernelInv, IdsOwned
  <2>2. \A x, y \in L : f[x] = f[y] => x = y
    BY <1>6 DEF KernelInv, AsidsDistinct
  <2>3. f \in Injection(L, asid_bitmap)
    BY <2>1, <2>2 DEF Injection, IsInjective
  <2>4. QED
    BY <2>3, <1>8, <1>9, FS_Injection
<1>11. Cardinality(asid_bitmap) \in Nat
  BY <1>9, FS_CardinalityType
<1>12. QED
  BY <1>1, <1>9, <1>10, <1>11

-----------------------------------------------------------------------------
(* The invariant.                                                          *)

\* Nothing in KernelInv depends on anything but the kernel's variables.
LEMMA KernelStutter == KernelInv /\ UNCHANGED kvars => KernelInv'
BY DEF KernelInv, TypeOK, LinksWritten, PhantomLast, IdsOwned, FreeListExact,
       AsidsDistinct, BootAsids, Live, Runnables, Running, Ids, Status, kvars,
       ipcVars, envVars, runVars

\* env_init establishes the invariant.
LEMMA KernelInitially == Init => KernelInv
<1> SUFFICES ASSUME Init PROVE KernelInv
  OBVIOUS
<1>1. /\ NENV \in Nat /\ NASID \in Nat \ {0} /\ Elem = 0..NENV
      /\ Len(BootPri) \in Nat
  BY KernelAssumption
<1>2. Live = {} /\ Runnables = {} /\ ~Running
  BY DEF Init, Live, Runnables, Running, FREE, RUNNABLE
<1>3. env_free_list = [i \in 1..(NENV + 1) |-> i - 1]
  BY DEF Init
<1>4. /\ env_free_list \in [1..(NENV + 1) -> Elem]
      /\ env_free_list \in Seq(Elem) /\ Len(env_free_list) = NENV + 1
  <2>1. env_free_list \in [1..(NENV + 1) -> Elem]
    BY <1>1, <1>3
  <2>2. NENV + 1 \in Nat
    BY <1>1
  <2> HIDE <1>3
  <2>3. QED
    BY <2>1, <2>2
<1>5. FreeListExact
  <2>1. \A e \in Elem : e + 1 \in 1..(NENV + 1) /\ env_free_list[e + 1] = e
    BY <1>1, <1>3
  <2>2. DOMAIN env_free_list = 1..(NENV + 1)
    BY <1>3
  <2>3. \A i, j \in 1..(NENV + 1) : env_free_list[i] = env_free_list[j] => i = j
    BY <1>1, <1>3
  <2>4. QED
    BY <1>2, <2>1, <2>2, <2>3 DEF FreeListExact
<1>6. PhantomLast
  BY <1>1, <1>3, <1>4 DEF PhantomLast
<1>7. TypeOK
  BY <1>1, <1>4, HoldsInit DEF Init, TypeOK, Status, FREE
<1>8. BootAsids
  BY FS_EmptySet DEF Init, BootAsids
<1>9. QED
  BY <1>2, <1>5, <1>6, <1>7, <1>8 DEF KernelInv, LinksWritten, IdsOwned, AsidsDistinct

\* The timer and sys_yield only reschedule.
LEMMA RescheduleKeeps ==
  ASSUME KernelInv, halted = "no", created = Len(BootPri), NEW yield \in BOOLEAN,
         schedule(yield, curenv, env_sched_list, env_status),
         UNCHANGED <<env_status, ipcVars, envVars>>
  PROVE  KernelInv'
<1>1. /\ env_sched_list' \in TailQ
      /\ \A f \in Elem : env_sched_list.prev[f] # NULL => env_sched_list'.prev[f] # NULL
      /\ count' \in Int /\ curenv' \in Elem \cup {NULL}
      /\ halted' \in {"no", "empty", "assert"}
      /\ halted' = "no" => curenv' \in Elem /\ env_status[curenv'] = RUNNABLE
  <2>1. curenv \in Elem => env_sched_list.prev[curenv] # NULL
    BY QueueAssumption DEF KernelInv, LinksWritten, Running
  <2>2. QED
    BY <2>1, ScheduleStep DEF KernelInv, TypeOK
<1>2. TypeOK'
  BY <1>1 DEF KernelInv, TypeOK, ipcVars, envVars
<1>3. LinksWritten'
  BY <1>1 DEF KernelInv, LinksWritten, Runnables, Running, Live, FREE, RUNNABLE
<1>4. PhantomLast' /\ IdsOwned' /\ FreeListExact' /\ AsidsDistinct'
  BY DEF KernelInv, PhantomLast, IdsOwned, FreeListExact, AsidsDistinct, Live, envVars
<1>5. BootAsids'
  BY KernelAssumption DEF BootAsids, envVars
<1>6. QED
  BY <1>2, <1>3, <1>4, <1>5 DEF KernelInv

\* The pieces of KernelInv about the table and the free list.
TableInv == PhantomLast /\ IdsOwned /\ FreeListExact /\ AsidsDistinct

\* The types of the variables that env_alloc and env_free change.
TableType ==
  /\ env_status \in [Elem -> Status]
  /\ env_id \in [Elem -> Ids \cup {NULL}]
  /\ env_parent_id \in [Elem -> Ids \cup {NULL}]
  /\ env_asid \in [Elem -> 0..NASID]
  /\ env_free_list \in Seq(Elem)
  /\ asid_bitmap \subseteq 0..(NASID - 1)
  /\ idcount \in Nat

\* A successful env_alloc takes a free env that is inside the array.
LEMMA AllocTable ==
  ASSUME KernelInv, NEW e \in Elem, NEW parent \in Ids \cup {NULL},
         env_alloc(e, parent), asid_bitmap # 0..(NASID - 1),
         NEW st \in Status, st # FREE, env_status' = [env_status EXCEPT ![e] = st]
  PROVE  /\ e \notin Live /\ e # NENV /\ Live' = Live \cup {e}
         /\ TableType' /\ TableInv'
<1> DEFINE fl == env_free_list
           n == Len(fl)
<1>1. /\ fl \in Seq(Elem) /\ n \in Nat /\ n # 0 /\ DOMAIN fl = 1..n
      /\ fl[1] = e /\ fl[n] = NENV
      /\ \A i \in 1..n : fl[i] \in Elem
  BY DEF KernelInv, TypeOK, PhantomLast, env_alloc
<1>2. /\ fl' = Tail(fl) /\ fl' \in Seq(Elem) /\ Len(fl') = n - 1 /\ DOMAIN fl' = 1..(n - 1)
      /\ \A i \in 1..(n - 1) : fl'[i] = fl[i + 1]
  <2>1. fl' = Tail(fl)
    BY DEF env_alloc
  <2>2. QED
    BY <2>1, <1>1
<1>3. e # NENV
  <2>1. Head(fl) = e
    BY DEF env_alloc
  <2>2. QED
    BY <2>1, PhantomHeadMeansFull
<1>4. e \notin Live
  BY <1>1 DEF KernelInv, FreeListExact
<1>5. Live' = Live \cup {e}
  BY DEF KernelInv, TypeOK, Live
<1>6. n # 1
  BY <1>1, <1>3
<1>7. PhantomLast'
  <2>1. n - 1 \in 1..(n - 1)
    BY <1>1, <1>6
  <2>2. QED
    BY <1>1, <1>2, <1>6, <2>1 DEF PhantomLast
<1>8. FreeListExact'
  <2>1. ASSUME NEW f \in Elem, f \notin Live'
        PROVE  \E i \in 1..(n - 1) : fl'[i] = f
    <3>1. f \notin Live /\ f # e
      BY <1>5, <2>1
    <3>2. PICK i \in 1..n : fl[i] = f
      BY <1>1, <3>1 DEF KernelInv, FreeListExact
    <3>3. i # 1 /\ i - 1 \in 1..(n - 1)
      BY <1>1, <3>1, <3>2
    <3>4. fl'[i - 1] = f
      BY <1>1, <1>2, <3>2, <3>3
    <3>5. QED
      BY <3>3, <3>4
  <2>2. ASSUME NEW i \in 1..(n - 1), NEW j \in 1..(n - 1)
        PROVE  fl'[i] \notin Live' /\ (fl'[i] = fl'[j] => i = j)
    <3>1. i + 1 \in 1..n /\ j + 1 \in 1..n /\ 1 \in 1..n /\ i + 1 # 1
      BY <1>1
    <3>2. fl[i + 1] \notin Live /\ (fl[i + 1] = fl[j + 1] => i + 1 = j + 1)
          /\ fl[i + 1] # fl[1]
      BY <1>1, <3>1 DEF KernelInv, FreeListExact
    <3>3. QED
      BY <1>1, <1>2, <1>5, <3>2
  <2>3. QED
    BY <1>2, <2>1, <2>2 DEF FreeListExact
<1>9. asid_alloc \in (0..(NASID - 1)) \ asid_bitmap
  BY AsidAllocFresh DEF KernelInv, TypeOK
<1>10. /\ env_asid' = [env_asid EXCEPT ![e] = asid_alloc]
       /\ asid_bitmap' = asid_bitmap \cup {asid_alloc}
       /\ env_id' = [env_id EXCEPT ![e] = [n |-> idcount + 1, slot |-> e]]
       /\ env_parent_id' = [env_parent_id EXCEPT ![e] = parent]
       /\ idcount' = idcount + 1
  BY DEF env_alloc
<1>11. TableType'
  <2>1. [n |-> idcount + 1, slot |-> e] \in Ids
    BY DEF Ids, KernelInv, TypeOK
  <2>2. asid_alloc \in 0..NASID
    BY <1>9, KernelAssumption
  <2>3. QED
    BY <1>2, <1>9, <1>10, <2>1, <2>2 DEF TableType, KernelInv, TypeOK, Ids
<1>12. IdsOwned'
  <2>1. ASSUME NEW f \in Live'
        PROVE  env_id'[f] \in Ids /\ env_id'[f].slot = f /\ env_asid'[f] \in asid_bitmap'
    <3>1. CASE f = e
      BY <3>1, <1>10 DEF KernelInv, TypeOK, Ids
    <3>2. CASE f \in Live /\ f # e
      BY <3>2, <1>10 DEF KernelInv, TypeOK, IdsOwned
    <3>3. QED
      BY <3>1, <3>2, <1>5
  <2>2. QED
    BY <2>1 DEF IdsOwned, Ids
<1>13. AsidsDistinct'
  <2>1. \A f \in Live : f # e /\ f \in Elem /\ env_asid'[f] = env_asid[f]
                        /\ env_asid[f] # asid_alloc
    BY <1>4, <1>9, <1>10 DEF KernelInv, IdsOwned, TypeOK, Live
  <2>2. env_asid'[e] = asid_alloc
    BY <1>10 DEF KernelInv, TypeOK
  <2>3. QED
    BY <1>5, <2>1, <2>2 DEF KernelInv, AsidsDistinct
<1>14. QED
  BY <1>3, <1>4, <1>5, <1>7, <1>8, <1>11, <1>12, <1>13 DEF TableInv

\* An env_alloc that runs out of ASIDs relabels the first free env and no more.
LEMMA AllocFailsTable ==
  ASSUME KernelInv, NEW e \in Elem, NEW parent \in Ids \cup {NULL},
         env_alloc(e, parent), asid_bitmap = 0..(NASID - 1),
         UNCHANGED env_status
  PROVE  e \notin Live /\ Live' = Live /\ TableType' /\ TableInv'
<1>1. /\ env_id' = [env_id EXCEPT ![e] = [n |-> idcount + 1, slot |-> e]]
      /\ env_parent_id' = [env_parent_id EXCEPT ![e] = parent]
      /\ idcount' = idcount + 1
      /\ UNCHANGED <<env_asid, asid_bitmap, env_free_list>>
      /\ e = Head(env_free_list) /\ env_free_list # <<>>
  BY DEF env_alloc
<1>2. 1 \in DOMAIN env_free_list /\ env_free_list[1] = e
  BY <1>1 DEF KernelInv, TypeOK
<1>3. e \notin Live
  BY <1>2 DEF KernelInv, FreeListExact
<1>4. Live' = Live
  BY DEF Live
<1>5. [n |-> idcount + 1, slot |-> e] \in Ids
  BY DEF Ids, KernelInv, TypeOK
<1>6. TableType'
  BY <1>1, <1>5 DEF TableType, KernelInv, TypeOK, Ids
<1>7. IdsOwned'
  BY <1>1, <1>3, <1>4 DEF IdsOwned, KernelInv, TypeOK, Live, Ids
<1>8. PhantomLast' /\ FreeListExact' /\ AsidsDistinct'
  BY <1>1, <1>4 DEF KernelInv, PhantomLast, FreeListExact, AsidsDistinct
<1>9. QED
  BY <1>3, <1>4, <1>6, <1>7, <1>8 DEF TableInv

\* A live env holds an identifier and lies inside the array.
LEMMA LiveInside ==
  ASSUME KernelInv
  PROVE  NENV \notin Live /\ PhantomStaysFree
<1>1. Len(env_free_list) \in DOMAIN env_free_list
  BY DEF KernelInv, TypeOK, PhantomLast
<1>2. NENV \in Elem
  BY KernelAssumption
<1>3. NENV \notin Live
  BY <1>1 DEF KernelInv, PhantomLast, FreeListExact
<1>4. QED
  BY <1>2, <1>3 DEF PhantomStaysFree, Live

\* envid2env returns NULL or a live env, for an envid of the table.
LEMMA FoundLive ==
  ASSUME KernelInv, Running, NEW envid \in EnvIds, NEW checkperm \in BOOLEAN,
         envid2env(envid, checkperm) # NULL
  PROVE  envid2env(envid, checkperm) \in Live
<1>1. curenv \in Live
  BY DEF KernelInv, LinksWritten
<1>2. CASE envid = NULL
  BY <1>1, <1>2 DEF envid2env
<1>3. CASE envid # NULL
  <2>1. envid \in Ids
    BY <1>3 DEF EnvIds, KernelInv, TypeOK
  <2>2. ENVX(envid) \in Elem
    BY <2>1, KernelAssumption DEF ENVX, Ids
  <2>3. QED
    BY <1>3, <2>2 DEF envid2env, Live
<1>4. QED
  BY <1>2, <1>3

\* env_free returns a live env and its ASID.
LEMMA FreeTable ==
  ASSUME KernelInv, NEW e \in Live, env_free(e)
  PROVE  Live' = Live \ {e} /\ TableType' /\ TableInv'
<1> DEFINE fl == env_free_list
           n == Len(fl)
<1>1. /\ fl \in Seq(Elem) /\ n \in Nat /\ n # 0 /\ DOMAIN fl = 1..n
      /\ fl[n] = NENV /\ e \in Elem
  BY DEF KernelInv, TypeOK, PhantomLast, Live
<1>2. /\ fl' = <<e>> \o fl /\ fl' \in Seq(Elem) /\ Len(fl') = n + 1
      /\ DOMAIN fl' = 1..(n + 1) /\ fl'[1] = e
      /\ \A i \in 2..(n + 1) : fl'[i] = fl[i - 1]
  <2>1. fl' = <<e>> \o fl
    BY DEF env_free
  <2>2. <<e>> \in Seq(Elem)
    BY <1>1
  <2>3. QED
    BY <1>1, <2>1, <2>2
<1>3. Live' = Live \ {e}
  BY <1>1 DEF env_free, Live, KernelInv, TypeOK
<1>4. \A i \in 2..(n + 1) : i - 1 \in 1..n
  BY <1>1
<1>5. PhantomLast'
  <2>1. n + 1 \in 2..(n + 1) /\ (n + 1) - 1 = n
    BY <1>1
  <2>2. QED
    BY <1>1, <1>2, <2>1 DEF PhantomLast
<1>6. FreeListExact'
  <2>1. ASSUME NEW f \in Elem, f \notin Live'
        PROVE  \E i \in 1..(n + 1) : fl'[i] = f
    <3>1. CASE f = e
      BY <1>1, <1>2, <3>1
    <3>2. CASE f # e
      <4>1. PICK i \in 1..n : fl[i] = f
        BY <1>1, <1>3, <2>1, <3>2 DEF KernelInv, FreeListExact
      <4>2. i + 1 \in 2..(n + 1) /\ i + 1 \in 1..(n + 1) /\ (i + 1) - 1 = i
        BY <1>1
      <4>3. QED
        BY <1>2, <4>1, <4>2
    <3>3. QED
      BY <3>1, <3>2
  <2>2. ASSUME NEW i \in 1..(n + 1)
        PROVE  \/ i = 1 /\ fl'[i] = e
               \/ i - 1 \in 1..n /\ fl'[i] = fl[i - 1] /\ fl[i - 1] \notin Live
    <3>1. CASE i = 1
      BY <3>1, <1>2
    <3>2. CASE i # 1
      <4>1. i \in 2..(n + 1)
        BY <1>1, <3>2
      <4>2. QED
        BY <4>1, <1>1, <1>2, <1>4 DEF KernelInv, FreeListExact
    <3>3. QED
      BY <3>1, <3>2
  <2>3. \A i \in 1..(n + 1) : fl'[i] \notin Live'
    BY <1>3, <2>2
  <2>4. ASSUME NEW i \in 1..(n + 1), NEW j \in 1..(n + 1), fl'[i] = fl'[j]
        PROVE  i = j
    <3>1. \A k, l \in 1..n : fl[k] = fl[l] => k = l
      BY <1>1 DEF KernelInv, FreeListExact
    <3>2. i - 1 \in 1..n /\ j - 1 \in 1..n /\ fl[i - 1] = fl[j - 1] => i = j
      BY <1>1, <3>1
    <3>3. QED
      BY <2>2, <2>4, <3>2
  <2>5. QED
    BY <1>2, <2>1, <2>3, <2>4 DEF FreeListExact
<1>7. TableType'
  BY <1>1, <1>2 DEF env_free, TableType, KernelInv, TypeOK, Status, Ids
<1>8. IdsOwned'
  <2>1. \A f \in Live' : f # e /\ f \in Live /\ env_asid[f] # env_asid[e]
    BY <1>3 DEF KernelInv, AsidsDistinct
  <2>2. QED
    BY <2>1 DEF IdsOwned, KernelInv, env_free, Ids
<1>9. AsidsDistinct'
  BY <1>3 DEF AsidsDistinct, KernelInv, env_free
<1>10. QED
  BY <1>3, <1>5, <1>6, <1>7, <1>8, <1>9 DEF TableInv

\* A running env means that the boot is over.
LEMMA RunningBooted ==
  ASSUME KernelInv, Running
  PROVE  /\ created = Len(BootPri) /\ halted = "no"
         /\ curenv \in Elem /\ curenv \in Live /\ env_id[curenv] \in Ids
         /\ env_sched_list \in TailQ /\ env_sched_list.prev[curenv] # NULL
<1>1. curenv \in Elem /\ curenv # NULL /\ halted = "no" /\ env_sched_list \in TailQ
  BY DEF KernelInv, TypeOK, Running
<1>2. Len(BootPri) \in Nat /\ created \in 0..Len(BootPri)
  BY KernelAssumption DEF KernelInv, TypeOK
<1>3. ~(created < Len(BootPri))
  BY <1>1 DEF KernelInv, BootAsids
<1>4. created = Len(BootPri)
  BY <1>2, <1>3
<1>5. QED
  BY <1>1, <1>4 DEF KernelInv, LinksWritten, IdsOwned

\* Removing or inserting an env leaves no link of another env unwritten.
LEMMA LinksStayWritten ==
  ASSUME NEW q \in TailQ, NEW e \in Elem
  PROVE  /\ \A f \in Elem : q.prev[f] # NULL => TAILQ_INSERT_TAIL(q, e).prev[f] # NULL
         /\ \A f \in Elem : q.prev[f] # NULL => TAILQ_INSERT_HEAD(q, e).prev[f] # NULL
         /\ TAILQ_INSERT_TAIL(q, e).prev[e] # NULL
         /\ TAILQ_INSERT_HEAD(q, e).prev[e] # NULL
         /\ ~RemoveFaults(q, e) =>
              \A f \in Elem : q.prev[f] # NULL => TAILQ_REMOVE(q, e).prev[f] # NULL
<1>1. /\ \A f \in Elem : q.prev[f] # NULL => TAILQ_INSERT_TAIL(q, e).prev[f] # NULL
      /\ TAILQ_INSERT_TAIL(q, e).prev[e] # NULL
  BY QueueAssumption DEF TAILQ_INSERT_TAIL, TailQ
<1>2. /\ \A f \in Elem : q.prev[f] # NULL => TAILQ_INSERT_HEAD(q, e).prev[f] # NULL
      /\ TAILQ_INSERT_HEAD(q, e).prev[e] # NULL
  BY QueueAssumption DEF TAILQ_INSERT_HEAD, TailQ
<1>3. ~RemoveFaults(q, e) =>
        \A f \in Elem : q.prev[f] # NULL => TAILQ_REMOVE(q, e).prev[f] # NULL
  BY DEF TAILQ_REMOVE, RemoveFaults, TailQ
<1>4. QED
  BY <1>1, <1>2, <1>3

\* sys_env_destroy keeps the invariant, in the fault case too.
LEMMA DestroyKeeps ==
  ASSUME KernelInv, NEW envid \in EnvIds, sys_env_destroy(envid)
  PROVE  KernelInv'
<1> DEFINE e == envid2env(envid, TRUE)
           q == TAILQ_REMOVE(env_sched_list, e)
<1>1. Running /\ e # NULL /\ env_free(e)
  BY DEF sys_env_destroy
<1>2. e \in Live /\ e \in Elem
  BY <1>1, FoundLive DEF Live
<1>3. /\ created = Len(BootPri) /\ halted = "no" /\ curenv \in Elem /\ curenv \in Live
      /\ env_sched_list \in TailQ /\ env_sched_list.prev[curenv] # NULL
  BY <1>1, RunningBooted
<1>4. Live' = Live \ {e} /\ TableType' /\ TableInv'
  BY <1>1, <1>2, FreeTable
<1>5. /\ UNCHANGED <<env_pri, created, ipcVars>>
      /\ env_status' = [env_status EXCEPT ![e] = FREE]
  BY <1>1 DEF env_free
<1>6. \A f \in Runnables' : f \in Runnables /\ f # e
  BY <1>2, <1>5 DEF Runnables, KernelInv, TypeOK, FREE, RUNNABLE
<1>7. BootAsids'
  BY <1>3, <1>5, KernelAssumption DEF BootAsids
<1>8. CASE RemoveFaults(env_sched_list, e)
  <2>1. halted' = "fault" /\ UNCHANGED <<env_sched_list, curenv, count>>
    BY <1>8 DEF sys_env_destroy
  <2>2. TypeOK'
    BY <1>4, <1>5, <2>1 DEF TypeOK, TableType, KernelInv, ipcVars
  <2>3. LinksWritten'
    BY <1>6, <2>1 DEF LinksWritten, KernelInv, Running
  <2>4. QED
    BY <1>4, <1>7, <2>2, <2>3 DEF KernelInv, TableInv
<1>9. CASE ~RemoveFaults(env_sched_list, e)
  <2>1. /\ q \in TailQ
        /\ \A f \in Elem : env_sched_list.prev[f] # NULL => q.prev[f] # NULL
    BY <1>2, <1>3, <1>9, RemoveType, LinksStayWritten
  <2>2. CASE e = curenv
    <3>1. schedule(TRUE, NULL, q, env_status')
      BY <1>9, <2>2 DEF sys_env_destroy
    <3>2. env_status' \in [Elem -> Status] /\ count \in Int /\ env_pri \in [Elem -> Nat]
      BY <1>4 DEF TableType, KernelInv, TypeOK
    <3> HIDE DEF q
    <3>3. /\ env_sched_list' \in TailQ
          /\ \A f \in Elem : q.prev[f] # NULL => env_sched_list'.prev[f] # NULL
          /\ count' \in Int /\ curenv' \in Elem \cup {NULL}
          /\ halted' \in {"no", "empty", "assert"}
          /\ halted' = "no" => curenv' \in Elem /\ env_status'[curenv'] = RUNNABLE
      BY <1>3, <2>1, <3>1, <3>2, QueueAssumption, ScheduleStep
    <3>4. TypeOK'
      BY <1>4, <1>5, <3>3 DEF TypeOK, TableType, KernelInv, ipcVars
    <3>5. LinksWritten'
      BY <1>6, <2>1, <3>3 DEF LinksWritten, KernelInv, Running, Runnables, Live, FREE, RUNNABLE
    <3>6. QED
      BY <1>4, <1>7, <3>4, <3>5 DEF KernelInv, TableInv
  <2>3. CASE e # curenv
    <3>1. env_sched_list' = q /\ UNCHANGED <<curenv, count, halted>>
      BY <1>9, <2>3 DEF sys_env_destroy
    <3> HIDE DEF q
    <3>2. TypeOK'
      BY <1>4, <1>5, <2>1, <3>1 DEF TypeOK, TableType, KernelInv, ipcVars
    <3>3. curenv' \in Live'
      BY <1>3, <1>4, <2>3, <3>1
    <3>4. LinksWritten'
      BY <1>3, <1>6, <2>1, <3>1, <3>3 DEF LinksWritten, KernelInv, Running, Runnables
    <3>5. QED
      BY <1>4, <1>7, <3>2, <3>4 DEF KernelInv, TableInv
  <2>4. QED
    BY <2>2, <2>3
<1>10. QED
  BY <1>8, <1>9

\* A step that only moves live envs between RUNNABLE and NOT_RUNNABLE leaves the
\* table alone.
LEMMA StatusTable ==
  ASSUME KernelInv, UNCHANGED envVars, env_status' \in [Elem -> Status], Live' = Live
  PROVE  TableInv' /\ (created = Len(BootPri) => BootAsids')
<1>1. TableInv'
  BY DEF KernelInv, TableInv, PhantomLast, IdsOwned, FreeListExact, AsidsDistinct,
         envVars, Ids
<1>2. created = Len(BootPri) => BootAsids'
  BY KernelAssumption DEF BootAsids, envVars
<1>3. QED
  BY <1>1, <1>2

\* sys_set_env_status keeps the invariant.
LEMMA SetStatusKeeps ==
  ASSUME KernelInv, NEW envid \in EnvIds, NEW status \in {RUNNABLE, NOT_RUNNABLE},
         sys_set_env_status(envid, status)
  PROVE  KernelInv'
<1> DEFINE e == envid2env(envid, TRUE)
<1>1. /\ Running /\ e # NULL /\ env_status[e] # status
      /\ env_status' = [env_status EXCEPT ![e] = status]
      /\ env_sched_list' = IF status = RUNNABLE
                           THEN TAILQ_INSERT_TAIL(env_sched_list, e)
                           ELSE TAILQ_REMOVE(env_sched_list, e)
      /\ UNCHANGED <<ipcVars, envVars, curenv, count, halted>>
  BY DEF sys_set_env_status
<1>2. e \in Live /\ e \in Elem
  BY <1>1, FoundLive DEF Live
<1>3. /\ created = Len(BootPri) /\ curenv \in Elem /\ curenv \in Live
      /\ env_sched_list \in TailQ /\ env_sched_list.prev[curenv] # NULL
  BY <1>1, RunningBooted
<1> HIDE DEF e
<1>4. /\ env_status' \in [Elem -> Status] /\ Live' = Live
      /\ Runnables' = IF status = RUNNABLE THEN Runnables \cup {e} ELSE Runnables \ {e}
  BY <1>1, <1>2 DEF KernelInv, TypeOK, Status, Live, Runnables, FREE, RUNNABLE, NOT_RUNNABLE
<1>5. /\ env_sched_list' \in TailQ
      /\ \A f \in Elem : env_sched_list.prev[f] # NULL => env_sched_list'.prev[f] # NULL
      /\ status = RUNNABLE => env_sched_list'.prev[e] # NULL
  <2>1. CASE status = RUNNABLE
    BY <1>1, <1>2, <1>3, <2>1, InsertTailType, LinksStayWritten
  <2>2. CASE status # RUNNABLE
    <3>1. e \in Runnables
      BY <1>1, <1>2, <2>2
         DEF KernelInv, TypeOK, Status, Live, Runnables, FREE, RUNNABLE, NOT_RUNNABLE
    <3>2. ~RemoveFaults(env_sched_list, e)
      BY <3>1 DEF KernelInv, LinksWritten, RemoveFaults
    <3>3. QED
      BY <1>1, <1>2, <1>3, <2>2, <3>2, RemoveType, LinksStayWritten
  <2>3. QED
    BY <2>1, <2>2
<1>6. TypeOK'
  BY <1>1, <1>4, <1>5 DEF KernelInv, TypeOK, ipcVars, envVars
<1>7. LinksWritten'
  BY <1>1, <1>3, <1>4, <1>5 DEF KernelInv, LinksWritten, Running, Runnables
<1>8. TableInv' /\ BootAsids'
  BY <1>1, <1>3, <1>4, StatusTable
<1>9. QED
  BY <1>6, <1>7, <1>8 DEF KernelInv, TableInv

\* sys_ipc_recv keeps the invariant, even when curenv is NOT_RUNNABLE already.
LEMMA RecvKeeps ==
  ASSUME KernelInv, sys_ipc_recv
  PROVE  KernelInv'
<1> DEFINE q == TAILQ_REMOVE(env_sched_list, curenv)
<1>1. /\ Running
      /\ env_ipc_recving' = [env_ipc_recving EXCEPT ![curenv] = TRUE]
      /\ env_status' = [env_status EXCEPT ![curenv] = NOT_RUNNABLE]
      /\ schedule(TRUE, curenv, q, env_status')
      /\ UNCHANGED <<env_ipc_from, envVars>>
  BY DEF sys_ipc_recv
<1>2. /\ created = Len(BootPri) /\ halted = "no" /\ curenv \in Elem /\ curenv \in Live
      /\ env_sched_list \in TailQ /\ env_sched_list.prev[curenv] # NULL
  BY <1>1, RunningBooted
<1>3. /\ env_status' \in [Elem -> Status] /\ Live' = Live
      /\ Runnables' = Runnables \ {curenv}
  BY <1>1, <1>2 DEF KernelInv, TypeOK, Status, Live, Runnables, FREE, RUNNABLE, NOT_RUNNABLE
<1>4. q \in TailQ /\ \A f \in Elem : env_sched_list.prev[f] # NULL => q.prev[f] # NULL
  BY <1>2, RemoveType, LinksStayWritten DEF RemoveFaults
<1>5. count \in Int /\ env_pri \in [Elem -> Nat]
  BY DEF KernelInv, TypeOK
<1> HIDE DEF q
<1>6. /\ env_sched_list' \in TailQ
      /\ \A f \in Elem : q.prev[f] # NULL => env_sched_list'.prev[f] # NULL
      /\ count' \in Int /\ curenv' \in Elem \cup {NULL}
      /\ halted' \in {"no", "empty", "assert"}
      /\ halted' = "no" => curenv' \in Elem /\ env_status'[curenv'] = RUNNABLE
  BY <1>1, <1>2, <1>3, <1>4, <1>5, ScheduleStep
<1>7. TypeOK'
  BY <1>1, <1>2, <1>3, <1>6 DEF KernelInv, TypeOK, envVars
<1>8. LinksWritten'
  BY <1>3, <1>4, <1>6 DEF KernelInv, LinksWritten, Running, Runnables, Live, FREE, RUNNABLE
<1>9. TableInv' /\ BootAsids'
  BY <1>1, <1>2, <1>3, StatusTable
<1>10. QED
  BY <1>7, <1>8, <1>9 DEF KernelInv, TableInv

\* sys_ipc_try_send keeps the invariant.
LEMMA SendKeeps ==
  ASSUME KernelInv, NEW envid \in EnvIds, sys_ipc_try_send(envid)
  PROVE  KernelInv'
<1> DEFINE e == envid2env(envid, FALSE)
<1>1. /\ Running /\ e # NULL
      /\ env_ipc_from' = [env_ipc_from EXCEPT ![e] = env_id[curenv]]
      /\ env_ipc_recving' = [env_ipc_recving EXCEPT ![e] = FALSE]
      /\ env_status' = [env_status EXCEPT ![e] = RUNNABLE]
      /\ env_sched_list' = TAILQ_INSERT_TAIL(env_sched_list, e)
      /\ UNCHANGED <<envVars, curenv, count, halted>>
  BY DEF sys_ipc_try_send, SendResult
<1>2. e \in Live /\ e \in Elem
  BY <1>1, FoundLive DEF Live
<1>3. /\ created = Len(BootPri) /\ curenv \in Elem /\ curenv \in Live
      /\ env_id[curenv] \in Ids
      /\ env_sched_list \in TailQ /\ env_sched_list.prev[curenv] # NULL
  BY <1>1, RunningBooted
<1> HIDE DEF e
<1>4. /\ env_status' \in [Elem -> Status] /\ Live' = Live
      /\ Runnables' = Runnables \cup {e}
  BY <1>1, <1>2 DEF KernelInv, TypeOK, Status, Live, Runnables, FREE, RUNNABLE, NOT_RUNNABLE
<1>5. /\ env_sched_list' \in TailQ
      /\ \A f \in Elem : env_sched_list.prev[f] # NULL => env_sched_list'.prev[f] # NULL
      /\ env_sched_list'.prev[e] # NULL
  BY <1>1, <1>2, <1>3, InsertTailType, LinksStayWritten
<1>6. TypeOK'
  BY <1>1, <1>2, <1>3, <1>4, <1>5 DEF KernelInv, TypeOK, envVars, Ids
<1>7. LinksWritten'
  BY <1>1, <1>3, <1>4, <1>5 DEF KernelInv, LinksWritten, Running, Runnables
<1>8. TableInv' /\ BootAsids'
  BY <1>1, <1>3, <1>4, StatusTable
<1>9. QED
  BY <1>6, <1>7, <1>8 DEF KernelInv, TableInv

\* sys_exofork keeps the invariant, with or without an ASID left.
LEMMA ExoforkKeeps ==
  ASSUME KernelInv, NEW e \in Elem, sys_exofork(e)
  PROVE  KernelInv'
<1> DEFINE parent == env_id[curenv]
<1>1. Running /\ env_alloc(e, parent) /\ UNCHANGED <<ipcVars, runVars, created>>
  BY DEF sys_exofork
<1>2. /\ created = Len(BootPri) /\ curenv \in Elem /\ curenv \in Live /\ parent \in Ids
  BY <1>1, RunningBooted
<1>3. BootAsids'
  BY <1>1, <1>2, KernelAssumption DEF BootAsids
<1>4. CASE asid_bitmap # 0..(NASID - 1)
  <2>1. /\ env_status' = [env_status EXCEPT ![e] = NOT_RUNNABLE]
        /\ env_pri' = [env_pri EXCEPT ![e] = env_pri[curenv]]
    BY <1>4 DEF sys_exofork
  <2>2. NOT_RUNNABLE \in Status /\ NOT_RUNNABLE # FREE
    BY DEF Status, NOT_RUNNABLE, FREE
  <2>3. Live' = Live \cup {e} /\ TableType' /\ TableInv'
    BY <1>1, <1>2, <1>4, <2>1, <2>2, AllocTable
  <2>4. TypeOK'
    BY <1>1, <1>2, <2>1, <2>3 DEF KernelInv, TypeOK, TableType, ipcVars, runVars
  <2>5. LinksWritten'
    BY <1>1, <1>2, <2>1, <2>3
       DEF KernelInv, TypeOK, LinksWritten, Running, Runnables, runVars, RUNNABLE, NOT_RUNNABLE
  <2>6. QED
    BY <1>3, <2>3, <2>4, <2>5 DEF KernelInv, TableInv
<1>5. CASE asid_bitmap = 0..(NASID - 1)
  <2>1. UNCHANGED <<env_status, env_pri>>
    BY <1>5 DEF sys_exofork
  <2>2. Live' = Live /\ TableType' /\ TableInv'
    BY <1>1, <1>2, <1>5, <2>1, AllocFailsTable
  <2>3. TypeOK'
    BY <1>1, <2>1, <2>2 DEF KernelInv, TypeOK, TableType, ipcVars, runVars
  <2>4. LinksWritten'
    BY <1>1, <2>1, <2>2 DEF KernelInv, LinksWritten, Running, Runnables, runVars
  <2>5. QED
    BY <1>3, <2>2, <2>3, <2>4 DEF KernelInv, TableInv
<1>6. QED
  BY <1>4, <1>5

\* env_create keeps the invariant: there is an ASID for every boot env.
LEMMA CreateKeeps ==
  ASSUME KernelInv, env_create
  PROVE  KernelInv' /\ asid_bitmap # 0..(NASID - 1)
<1>1. PICK e \in Elem :
        /\ env_alloc(e, NULL)
        /\ env_pri' = [env_pri EXCEPT ![e] = BootPri[created + 1]]
        /\ env_status' = [env_status EXCEPT ![e] = RUNNABLE]
        /\ env_sched_list' = TAILQ_INSERT_HEAD(env_sched_list, e)
  BY DEF env_create
<1>2. /\ halted = "no" /\ created < Len(BootPri) /\ created' = created + 1
      /\ UNCHANGED <<ipcVars, curenv, count, halted>>
  BY DEF env_create
<1>3. /\ NASID \in Nat /\ Len(BootPri) \in Nat /\ Len(BootPri) <= NASID
      /\ BootPri \in Seq(Nat \ {0}) /\ created \in 0..Len(BootPri)
  BY KernelAssumption DEF KernelInv, TypeOK
<1>4. curenv = NULL /\ Cardinality(asid_bitmap) = created
  BY <1>2 DEF KernelInv, BootAsids
<1>5. IsFiniteSet(0..(NASID - 1)) /\ Cardinality(0..(NASID - 1)) = NASID
  <2> DEFINE A == 0..(NASID - 1)
  <2>1. 0 \in Int /\ NASID - 1 \in Int
    BY <1>3
  <2>2. IsFiniteSet(A) /\ Cardinality(A) = IF 0 > NASID - 1 THEN 0 ELSE (NASID - 1) - 0 + 1
    BY <2>1, FS_Interval
  <2> HIDE DEF A
  <2>3. Cardinality(A) = NASID
    BY <2>2, <1>3
  <2>4. QED
    BY <2>2, <2>3 DEF A
<1>6. asid_bitmap # 0..(NASID - 1)
  BY <1>2, <1>3, <1>4, <1>5
<1>7. RUNNABLE \in Status /\ RUNNABLE # FREE
  BY DEF Status, RUNNABLE, FREE
<1>8. Live' = Live \cup {e} /\ TableType' /\ TableInv'
  BY <1>1, <1>6, <1>7, AllocTable
<1>9. BootAsids'
  <2>1. asid_alloc \in (0..(NASID - 1)) \ asid_bitmap
    BY <1>6, AsidAllocFresh DEF KernelInv, TypeOK
  <2>2. asid_bitmap' = asid_bitmap \cup {asid_alloc}
    BY <1>1, <1>6 DEF env_alloc
  <2>3. IsFiniteSet(asid_bitmap)
    BY <1>5, FS_Subset DEF KernelInv, TypeOK
  <2>4. Cardinality(asid_bitmap') = created + 1
    BY <1>4, <2>1, <2>2, <2>3, FS_AddElement
  <2>5. QED
    BY <1>2, <1>4, <2>4 DEF BootAsids
<1>10. env_sched_list \in TailQ
  BY DEF KernelInv, TypeOK
<1>11. /\ env_sched_list' \in TailQ /\ env_sched_list'.prev[e] # NULL
       /\ \A f \in Elem : env_sched_list.prev[f] # NULL => env_sched_list'.prev[f] # NULL
  BY <1>1, <1>10, InsertHeadType, LinksStayWritten
<1>12. BootPri[created + 1] \in Nat /\ created + 1 \in 0..Len(BootPri)
  BY <1>2, <1>3
<1>13. TypeOK'
  BY <1>1, <1>2, <1>8, <1>11, <1>12 DEF KernelInv, TypeOK, TableType, ipcVars
<1>14. LinksWritten'
  BY <1>1, <1>2, <1>4, <1>11 DEF KernelInv, TypeOK, LinksWritten, Running, Runnables
<1>15. QED
  BY <1>6, <1>8, <1>9, <1>13, <1>14 DEF KernelInv, TableInv

-----------------------------------------------------------------------------
(* The theorems.                                                           *)

\* One step: every action of the kernel keeps KernelInv.
LEMMA KernelNext == KernelInv /\ [Next]_kvars => KernelInv'
<1> SUFFICES ASSUME KernelInv, [Next]_kvars PROVE KernelInv'
  OBVIOUS
<1>1. CASE env_create
  BY <1>1, CreateKeeps
<1>2. CASE Timer
  BY <1>2, RescheduleKeeps DEF Timer
<1>3. CASE sys_yield
  <2>1. created = Len(BootPri) /\ halted = "no"
    BY <1>3, RunningBooted DEF sys_yield
  <2>2. QED
    BY <1>3, <2>1, RescheduleKeeps DEF sys_yield
<1>4. CASE \E e \in Elem : sys_exofork(e)
  BY <1>4, ExoforkKeeps
<1>5. CASE \E envid \in EnvIds : sys_env_destroy(envid)
  BY <1>5, DestroyKeeps
<1>6. CASE \E envid \in EnvIds, status \in {RUNNABLE, NOT_RUNNABLE} :
             sys_set_env_status(envid, status)
  BY <1>6, SetStatusKeeps
<1>7. CASE sys_ipc_recv
  BY <1>7, RecvKeeps
<1>8. CASE \E envid \in EnvIds : sys_ipc_try_send(envid)
  BY <1>8, SendKeeps
<1>9. CASE UNCHANGED kvars
  BY <1>9, KernelStutter
<1>10. QED
  BY <1>1, <1>2, <1>3, <1>4, <1>5, <1>6, <1>7, <1>8, <1>9 DEF Next

\* KernelInv holds in every reachable state.
LEMMA KernelAlways == Spec => []KernelInv
BY KernelInitially, KernelNext, PTL DEF Spec

\* Whatever syscalls the envs make, in whatever order, the kernel's variables keep
\* their types: links and curenv point to envs, the ASID bitmap stays in range.
THEOREM KernelTypeOK == Spec => []TypeOK
<1>1. KernelInv => TypeOK
  BY DEF KernelInv
<1>2. QED
  BY <1>1, KernelAlways, PTL

\* Whatever syscalls the envs make, live envs hold distinct ASIDs (asid_alloc,
\* asid_free), for any NASID <= NENV.
THEOREM AsidsStayDistinct == Spec => []AsidsDistinct
<1>1. KernelInv => AsidsDistinct
  BY DEF KernelInv
<1>2. QED
  BY <1>1, KernelAlways, PTL

\* Whatever syscalls the envs make, env_free_list holds every env that is not live
\* exactly once (env_alloc, its failure after mkenvid, env_free).
THEOREM FreeListStaysExact == Spec => []FreeListExact
<1>1. KernelInv => FreeListExact
  BY DEF KernelInv
<1>2. QED
  BY <1>1, KernelAlways, PTL

\* env_alloc never hands out the slot one past the end of envs that env_init
\* frees: before it comes first in the free list the NASID <= NENV ASIDs are gone.
THEOREM PhantomNeverAllocated == Spec => []PhantomStaysFree
<1>1. KernelInv => PhantomStaysFree
  BY LiveInside
<1>2. QED
  BY <1>1, KernelAlways, PTL
================================================================================
