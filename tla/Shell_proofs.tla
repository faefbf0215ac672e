------------------------------ MODULE Shell_proofs ------------------------------
(***************************************************************************)
(* The pipelines of sh.c, for lines of any length: the shell prompts only  *)
(* when all envs of a line have gone, and _pipe_is_closed tells a program  *)
(* of a line the truth although pages are mapped and unmapped one by one.  *)
(*                                                                         *)
(* The invariant says where each env is in its list of page steps and      *)
(* which ends it can have there.  The verdict then compares two sets: all  *)
(* holders of the end that a running program asks for have the page of the *)
(* pipe mapped, so that a holder of the other end makes the count of the   *)
(* pipe larger.                                                            *)
(***************************************************************************)
EXTENDS Shell, TLAPS, SequenceTheorems, FiniteSetTheorems, NaturalsInduction

-----------------------------------------------------------------------------
(* Envs, ends and lists.                                                   *)

\* The envs of sh.c and of the programs are all different.
LEMMA Procs ==
  /\ \A i \in Command : Sh(i) \in Proc /\ Prog(i) \in Proc
  /\ \A p \in Proc : \E i \in Command : p = Sh(i) \/ p = Prog(i)
  /\ \A i, j : Sh(i) # Prog(j) /\ (Sh(i) = Sh(j) => i = j) /\ (Prog(i) = Prog(j) => i = j)
  /\ \A i : Sh(i)[1] = "sh" /\ Sh(i)[2] = i /\ Prog(i)[1] = "prog" /\ Prog(i)[2] = i
BY DEF Proc, Sh, Prog

\* So are the ends of pipes; NULL is none.
LEMMA Ends ==
  /\ \A k, l : R(k) # W(l) /\ (R(k) = R(l) => k = l) /\ (W(k) = W(l) => k = l)
  /\ \A k : R(k)[2] = k /\ W(k)[2] = k /\ R(k)[1] = "r" /\ W(k)[1] = "w"
  /\ \A e \in End : e # NULL /\ e[2] \in Pipe /\ e[2] # 0 /\ (e = R(e[2]) \/ e = W(e[2]))
  /\ \A k \in Pipe : R(k) \in End /\ W(k) \in End
<1>1. \A k, l : R(k) # W(l) /\ (R(k) = R(l) => k = l) /\ (W(k) = W(l) => k = l)
  BY DEF R, W
<1>2. \A k : R(k)[2] = k /\ W(k)[2] = k /\ R(k)[1] = "r" /\ W(k)[1] = "w"
  BY DEF R, W
<1>3. \A k \in Pipe : R(k) \in End /\ W(k) \in End
  BY DEF End
<1>4. \A e \in End : e # NULL /\ e[2] \in Pipe /\ e[2] # 0 /\ (e = R(e[2]) \/ e = W(e[2]))
  <2> SUFFICES ASSUME NEW e \in End
               PROVE  e # NULL /\ e[2] \in Pipe /\ e[2] # 0 /\ (e = R(e[2]) \/ e = W(e[2]))
    OBVIOUS
  <2>1. PICK k \in Pipe : e = R(k) \/ e = W(k)
    BY DEF End
  <2>2. k # 0
    BY ShellAssumption DEF Pipe
  <2> QED BY <2>1, <2>2, <1>2, ShellAssumption
<1> QED BY <1>1, <1>2, <1>3, <1>4

\* The lists of page steps, step by step.
LEMMA CloseIs ==
  ASSUME NEW d \in Fd
  PROVE  /\ close(d) \in Seq(Step) /\ Len(close(d)) = 2
         /\ close(d)[1] = <<"fd-", d, d>> /\ close(d)[2] = <<"data-", d, d>>
<1> DEFINE a == <<"fd-", d, d>>
           b == <<"data-", d, d>>
<1>1. a \in Step /\ b \in Step
  BY DEF Step
<1>2. close(d) = <<a, b>>
  BY DEF close
<1> HIDE DEF a, b
<1>3. /\ close(d) \in Seq(Step) /\ Len(close(d)) = 2
      /\ close(d)[1] = a /\ close(d)[2] = b
  BY <1>1, <1>2
<1> QED BY <1>3 DEF a, b

\* Concatenation, kept from being expanded.
Cat(a, b) == a \o b

\* A list and two more steps.
LEMMA Joined ==
  ASSUME NEW a \in Seq(Step), NEW b \in Seq(Step), Len(b) = 2
  PROVE  /\ Cat(a, b) \in Seq(Step) /\ Len(Cat(a, b)) = Len(a) + 2
         /\ \A l \in 1..Len(a) : Cat(a, b)[l] = a[l]
         /\ Cat(a, b)[Len(a) + 1] = b[1] /\ Cat(a, b)[Len(a) + 2] = b[2]
<1> DEFINE c == Cat(a, b)
<1>1. /\ c \in Seq(Step) /\ Len(c) = Len(a) + Len(b)
      /\ \A i \in 1 .. Len(a) + Len(b) : c[i] = IF i <= Len(a) THEN a[i] ELSE b[i - Len(a)]
  BY ConcatProperties, Zenon DEF Cat
<1> HIDE DEF c
<1>2. Len(a) \in Nat
  OBVIOUS
<1>3. c \in Seq(Step) /\ Len(c) = Len(a) + 2
  BY <1>1
<1>4. \A l \in 1..Len(a) : c[l] = a[l]
  BY <1>1, <1>2
<1>5. c[Len(a) + 1] = b[1] /\ c[Len(a) + 2] = b[2]
  <2>1. Len(a) + 1 \in 1 .. Len(a) + Len(b) /\ Len(a) + 2 \in 1 .. Len(a) + Len(b)
    BY <1>2
  <2>2. ~(Len(a) + 1 <= Len(a)) /\ ~(Len(a) + 2 <= Len(a))
    BY <1>2
  <2>3. c[Len(a) + 1] = b[(Len(a) + 1) - Len(a)] /\ c[Len(a) + 2] = b[(Len(a) + 2) - Len(a)]
    BY <1>1, <2>1, <2>2
  <2> QED BY <1>2, <2>3
<1> QED BY <1>3, <1>4, <1>5, Zenon DEF c

\* Two closes in a row,
LEMMA Joined2 ==
  ASSUME NEW a \in Seq(Step), NEW b \in Seq(Step), Len(a) = 2, Len(b) = 2
  PROVE  /\ Cat(a, b) \in Seq(Step) /\ Len(Cat(a, b)) = 4
         /\ Cat(a, b)[1] = a[1] /\ Cat(a, b)[2] = a[2]
         /\ Cat(a, b)[3] = b[1] /\ Cat(a, b)[4] = b[2]
<1> DEFINE c == Cat(a, b)
<1>1. /\ c \in Seq(Step) /\ Len(c) = Len(a) + 2
      /\ \A l \in 1..Len(a) : c[l] = a[l]
      /\ c[Len(a) + 1] = b[1] /\ c[Len(a) + 2] = b[2]
  BY Joined, Zenon
<1> HIDE DEF c
<1>2. Len(c) = 4 /\ c[1] = a[1] /\ c[2] = a[2] /\ c[3] = b[1] /\ c[4] = b[2]
  BY <1>1
<1> QED BY <1>1, <1>2 DEF c

\* and two after a dup.
LEMMA Joined4 ==
  ASSUME NEW a \in Seq(Step), NEW b \in Seq(Step), NEW c \in Seq(Step),
         Len(a) = 4, Len(b) = 2, Len(c) = 2
  PROVE  /\ Cat(Cat(a, b), c) \in Seq(Step) /\ Len(Cat(Cat(a, b), c)) = 8
         /\ \A l \in 1..4 : Cat(Cat(a, b), c)[l] = a[l]
         /\ Cat(Cat(a, b), c)[5] = b[1] /\ Cat(Cat(a, b), c)[6] = b[2]
         /\ Cat(Cat(a, b), c)[7] = c[1] /\ Cat(Cat(a, b), c)[8] = c[2]
<1> DEFINE e == Cat(a, b)
           f == Cat(e, c)
<1>1. /\ e \in Seq(Step) /\ Len(e) = Len(a) + 2
      /\ \A l \in 1..Len(a) : e[l] = a[l]
      /\ e[Len(a) + 1] = b[1] /\ e[Len(a) + 2] = b[2]
  BY Joined, Zenon
<1> HIDE DEF e
<1>2. /\ f \in Seq(Step) /\ Len(f) = Len(e) + 2
      /\ \A l \in 1..Len(e) : f[l] = e[l]
      /\ f[Len(e) + 1] = c[1] /\ f[Len(e) + 2] = c[2]
  BY <1>1, Joined, Zenon
<1> HIDE DEF f
<1>3. Len(e) = 6 /\ (\A l \in 1..4 : e[l] = a[l]) /\ e[5] = b[1] /\ e[6] = b[2]
  BY <1>1
<1>4. Len(f) = 8 /\ (\A l \in 1..6 : f[l] = e[l]) /\ f[7] = c[1] /\ f[8] = c[2]
  BY <1>2, <1>3
<1>5. (\A l \in 1..4 : f[l] = a[l]) /\ f[5] = b[1] /\ f[6] = b[2]
  BY <1>3, <1>4
<1> QED BY <1>2, <1>4, <1>5 DEF e, f

\* What the lists of close, dup, the two sides of a bar, close_all and share hold.
LEMMA DupIs ==
  ASSUME NEW d \in Fd, NEW e \in Fd
  PROVE  /\ dup(d, e) \in Seq(Step) /\ Len(dup(d, e)) = 4
         /\ dup(d, e)[1] = <<"fd-", e, e>> /\ dup(d, e)[2] = <<"data-", e, e>>
         /\ dup(d, e)[3] = <<"data+", d, e>> /\ dup(d, e)[4] = <<"fd+", d, e>>
<1> DEFINE x == <<"data+", d, e>>
           y == <<"fd+", d, e>>
           s == <<x, y>>
<1>1. x \in Step /\ y \in Step
  BY DEF Step
<1>2. dup(d, e) = Cat(close(e), s)
  BY DEF dup, Cat
<1> HIDE DEF x, y
<1>3. s \in Seq(Step) /\ Len(s) = 2 /\ s[1] = x /\ s[2] = y
  BY <1>1
<1> HIDE DEF s
<1> QED BY <1>2, <1>3, CloseIs, Joined2 DEF x, y

\* The side left of a bar.
LEMMA LeftEndIs ==
  /\ LeftEnd \in Seq(Step) /\ Len(LeftEnd) = 8
  /\ LeftEnd[1] = <<"fd-", 1, 1>> /\ LeftEnd[2] = <<"data-", 1, 1>>
  /\ LeftEnd[3] = <<"data+", 3, 1>> /\ LeftEnd[4] = <<"fd+", 3, 1>>
  /\ LeftEnd[5] = <<"fd-", 3, 3>> /\ LeftEnd[6] = <<"data-", 3, 3>>
  /\ LeftEnd[7] = <<"fd-", 2, 2>> /\ LeftEnd[8] = <<"data-", 2, 2>>
<1>0. 0 \in Fd /\ 1 \in Fd /\ 2 \in Fd /\ 3 \in Fd
  BY DEF Fd
<1>1. LeftEnd = Cat(Cat(dup(3, 1), close(3)), close(2))
  BY DEF LeftEnd, Cat
<1> QED BY <1>0, <1>1, CloseIs, DupIs, Joined4

\* The side right of it.
LEMMA RightEndIs ==
  /\ RightEnd \in Seq(Step) /\ Len(RightEnd) = 8
  /\ RightEnd[1] = <<"fd-", 0, 0>> /\ RightEnd[2] = <<"data-", 0, 0>>
  /\ RightEnd[3] = <<"data+", 2, 0>> /\ RightEnd[4] = <<"fd+", 2, 0>>
  /\ RightEnd[5] = <<"fd-", 2, 2>> /\ RightEnd[6] = <<"data-", 2, 2>>
  /\ RightEnd[7] = <<"fd-", 3, 3>> /\ RightEnd[8] = <<"data-", 3, 3>>
<1>0. 0 \in Fd /\ 1 \in Fd /\ 2 \in Fd /\ 3 \in Fd
  BY DEF Fd
<1>1. RightEnd = Cat(Cat(dup(2, 0), close(2)), close(3))
  BY DEF RightEnd, Cat
<1> QED BY <1>0, <1>1, CloseIs, DupIs, Joined4

\* All four descriptors.
LEMMA CloseAllIs ==
  /\ close_all \in Seq(Step) /\ Len(close_all) = 8
  /\ close_all[1] = <<"fd-", 0, 0>> /\ close_all[2] = <<"data-", 0, 0>>
  /\ close_all[3] = <<"fd-", 1, 1>> /\ close_all[4] = <<"data-", 1, 1>>
  /\ close_all[5] = <<"fd-", 2, 2>> /\ close_all[6] = <<"data-", 2, 2>>
  /\ close_all[7] = <<"fd-", 3, 3>> /\ close_all[8] = <<"data-", 3, 3>>
<1>0. 0 \in Fd /\ 1 \in Fd /\ 2 \in Fd /\ 3 \in Fd
  BY DEF Fd
<1> DEFINE a == Cat(close(0), close(1))
<1>1. /\ a \in Seq(Step) /\ Len(a) = 4
      /\ a[1] = <<"fd-", 0, 0>> /\ a[2] = <<"data-", 0, 0>>
      /\ a[3] = <<"fd-", 1, 1>> /\ a[4] = <<"data-", 1, 1>>
  BY <1>0, CloseIs, Joined2
<1>2. close_all = Cat(Cat(a, close(2)), close(3))
  BY DEF close_all, Cat
<1> HIDE DEF a
<1> QED BY <1>0, <1>1, <1>2, CloseIs, Joined4

\* The Fd pages, then the pages of the pipes.
LEMMA ShareIs ==
  /\ share \in Seq(Step) /\ Len(share) = 8
  /\ \A d \in Fd :
       share[d + 1] = <<"givefd", d, d>> /\ share[d + 5] = <<"givedata", d, d>>
<1> DEFINE a == [i \in 1..4 |-> <<"givefd", i - 1, i - 1>>]
           b == [i \in 1..4 |-> <<"givedata", i - 1, i - 1>>]
<1>1. \A i \in 1..4 : <<"givefd", i - 1, i - 1>> \in Step /\ <<"givedata", i - 1, i - 1>> \in Step
  BY DEF Step, Fd
<1>2. a \in [1..4 -> Step] /\ b \in [1..4 -> Step]
  BY <1>1
<1>3. a \in Seq(Step) /\ b \in Seq(Step)
  BY <1>2, SeqDef
<1>4. Len(a) = 4 /\ Len(b) = 4
  BY <1>3, LenProperties
<1>5. share = a \o b
  BY DEF share
<1>6. \A d \in Fd : a[d + 1] = <<"givefd", d, d>> /\ b[d + 1] = <<"givedata", d, d>>
  BY DEF Fd
<1> HIDE DEF a, b
<1>7. /\ share \in Seq(Step) /\ Len(share) = Len(a) + Len(b)
      /\ \A l \in 1 .. Len(a) + Len(b) : share[l] = IF l <= Len(a) THEN a[l] ELSE b[l - Len(a)]
  BY <1>3, <1>5, ConcatProperties, Zenon
<1>8. Len(share) = 8 /\ \A l \in 1..8 : share[l] = IF l <= 4 THEN a[l] ELSE b[l - 4]
  BY <1>4, <1>7
<1>9. \A d \in Fd : share[d + 1] = a[d + 1] /\ share[d + 5] = b[d + 1]
  BY <1>8 DEF Fd
<1> QED BY <1>6, <1>7, <1>8, <1>9

\* Every set of numbers that is not empty has a least one.
LEMMA LeastOne ==
  ASSUME NEW S \in SUBSET Nat, S # {}
  PROVE  \E x \in S : \A y \in S : x <= y
<1>1. PICK x \in S : \A y \in S : ~(<<y, x>> \in OpToRel(<, Nat))
  BY NatLessThanWellFounded, WFMin
<1>2. \A y \in S : x <= y
  <2> TAKE y \in S
  <2>1. x \in Nat /\ y \in Nat OBVIOUS
  <2>2. ~(y < x) BY <1>1, <2>1 DEF OpToRel
  <2> QED BY <2>1, <2>2
<1> QED BY <1>2

\* What is left of a list at its k-th step.
LEMMA FromIs ==
  ASSUME NEW L \in Seq(Step), NEW k \in 1..(Len(L) + 1)
  PROVE  /\ From(L, k) \in Seq(Step)
         /\ From(L, k) = <<>> <=> k = Len(L) + 1
         /\ k <= Len(L) => Head(From(L, k)) = L[k] /\ Tail(From(L, k)) = From(L, k + 1)
<1>0. Len(L) \in Nat /\ k \in Int /\ Len(L) \in Int
  OBVIOUS
<1>1. \A i \in k .. Len(L) : L[i] \in Step
  <2> TAKE i \in k .. Len(L)
  <2>1. i \in 1 .. Len(L) BY <1>0
  <2> QED BY <2>1, ElementOfSeq
<1>2. /\ From(L, k) \in Seq(Step)
      /\ Len(From(L, k)) = IF k <= Len(L) THEN Len(L) - k + 1 ELSE 0
  BY <1>0, <1>1, SubSeqProperties, Zenon DEF From
<1>3. From(L, k) = <<>> <=> Len(From(L, k)) = 0
  BY <1>2, EmptySeq
<1>4. Len(From(L, k)) = 0 <=> k = Len(L) + 1
  BY <1>0, <1>2
<1>5. ASSUME k <= Len(L)
      PROVE  Head(From(L, k)) = L[k] /\ Tail(From(L, k)) = From(L, k + 1)
  <2>1. k \in 1 .. Len(L) /\ Len(L) \in k .. Len(L)
    BY <1>0, <1>5
  <2> QED BY <2>1, HeadTailOfSubSeq, Zenon DEF From
<1> QED BY <1>2, <1>3, <1>4, <1>5

\* Rest leaves out steps at the beginning that are about no page.
LEMMA RestIs ==
  ASSUME NEW F, NEW D, NEW L \in Seq(Step)
  PROVE  \E m \in 1..(Len(L) + 1) :
           Rest(F, D, L) = From(L, m) /\ \A i \in 1..(m - 1) : ~Moves(F, D, L[i])
<1> DEFINE I == {i \in DOMAIN L : Moves(F, D, L[i])}
           x == CHOOSE i \in I : \A j \in I : i <= j
<1>0. Len(L) \in Nat /\ DOMAIN L = 1..Len(L)
  OBVIOUS
<1>1. CASE I = {}
  <2>1. Rest(F, D, L) = <<>> BY <1>1 DEF Rest
  <2>2. Len(L) + 1 \in 1..(Len(L) + 1) BY <1>0
  <2>3. From(L, Len(L) + 1) = <<>> BY <2>2, FromIs
  <2>4. \A i \in 1..((Len(L) + 1) - 1) : ~Moves(F, D, L[i]) BY <1>0, <1>1
  <2> QED BY <2>1, <2>2, <2>3, <2>4
<1>2. CASE I # {}
  <2>1. Rest(F, D, L) = From(L, x) BY <1>2 DEF Rest, From
  <2>2. I \in SUBSET Nat BY <1>0
  <2>3. x \in I /\ \A j \in I : x <= j BY <1>2, <2>2, LeastOne, Zenon
  <2>4. x \in 1..Len(L) BY <2>3, <1>0
  <2> HIDE DEF x
  <2>5. \A i \in 1..(x - 1) : ~Moves(F, D, L[i]) BY <2>3, <2>4, <1>0
  <2> QED BY <2>1, <2>4, <2>5, <1>0
<1> QED BY <1>1, <1>2

\* The rest of a rest.
LEMMA FromFrom ==
  ASSUME NEW L \in Seq(Step), NEW k \in 1..(Len(L) + 1), NEW m \in 1..(Len(From(L, k)) + 1)
  PROVE  /\ Len(From(L, k)) = Len(L) - k + 1
         /\ From(From(L, k), m) = From(L, k + m - 1)
         /\ \A i \in 1..Len(From(L, k)) : From(L, k)[i] = L[k + i - 1]
<1>0. Len(L) \in Nat /\ k \in Int /\ Len(L) \in Int /\ m \in Int
  OBVIOUS
<1>1. \A i \in k .. Len(L) : L[i] \in Step
  <2> TAKE i \in k .. Len(L)
  <2>1. i \in 1 .. Len(L) BY <1>0
  <2> QED BY <2>1, ElementOfSeq
<1>2. /\ Len(From(L, k)) = IF k <= Len(L) THEN Len(L) - k + 1 ELSE 0
      /\ \A i \in 1 .. Len(L) - k + 1 : From(L, k)[i] = L[k + i - 1]
  <2> DEFINE n == Len(L)
  <2>1. n \in Int /\ \A i \in k .. n : L[i] \in Step BY <1>0, <1>1
  <2> HIDE DEF n
  <2>2. /\ SubSeq(L, k, n) \in Seq(Step)
        /\ Len(SubSeq(L, k, n)) = IF k <= n THEN n - k + 1 ELSE 0
        /\ \A i \in 1 .. n - k + 1 : SubSeq(L, k, n)[i] = L[k + i - 1]
    BY <1>0, <2>1, SubSeqProperties
  <2> QED BY <2>2, Zenon DEF From, n
<1>3. Len(From(L, k)) = Len(L) - k + 1
  BY <1>0, <1>2
<1> DEFINE s == From(L, k)
           n == Len(L) - k + 1
<1>4. CASE m = n + 1
  <2>0. Len(s) \in Int /\ Len(s) < m BY <1>0, <1>3, <1>4
  <2>1. From(s, m) = <<>> BY <2>0, <1>0, SubSeqEmpty, Zenon DEF From
  <2>2. k + m - 1 = Len(L) + 1 BY <1>0, <1>4
  <2>3. From(L, Len(L) + 1) = <<>> BY <1>0, FromIs
  <2> QED BY <1>2, <1>3, <2>1, <2>2, <2>3
<1>5. CASE m # n + 1
  <2>1. m \in 1 .. n /\ n \in 1 .. n /\ k \in 1 .. Len(L) /\ Len(L) \in 1 .. Len(L)
    BY <1>0, <1>3, <1>5
  <2>2. SubSeq(SubSeq(L, k, Len(L)), m, n) = SubSeq(L, k + m - 1, k + n - 1)
    <3> DEFINE l == Len(L)
    <3>1. /\ l \in 1 .. Len(L) /\ n = l - k + 1 /\ k \in 1 .. Len(L)
          /\ m \in 1 .. l - k + 1 /\ n \in 1 .. l - k + 1
      BY <2>1
    <3> HIDE DEF l, n
    <3>2. SubSeq(SubSeq(L, k, l), m, n) = SubSeq(L, k + m - 1, k + n - 1)
      BY <3>1, SubSeqOfSubSeq
    <3> QED BY <3>2 DEF l, n
  <2>3. k + n - 1 = Len(L) BY <1>0
  <2> QED BY <1>2, <1>3, <2>2, <2>3 DEF From
<1> QED BY <1>4, <1>5

\* One step of a list is done, and those after it that are about no page are left out.
LEMMA StepDone ==
  ASSUME NEW L \in Seq(Step), NEW k \in 1..(Len(L) + 1), From(L, k) # <<>>, NEW F, NEW D
  PROVE  /\ k <= Len(L) /\ Head(From(L, k)) = L[k] /\ L[k] \in Step
         /\ \E n \in (k + 1)..(Len(L) + 1) :
              /\ Rest(F, D, Tail(From(L, k))) = From(L, n)
              /\ \A i \in (k + 1)..(n - 1) : ~Moves(F, D, L[i])
<1>0. Len(L) \in Nat
  OBVIOUS
<1>1. k <= Len(L) /\ Head(From(L, k)) = L[k] /\ Tail(From(L, k)) = From(L, k + 1)
  <2>1. k # Len(L) + 1 BY FromIs, Zenon
  <2>2. k <= Len(L) BY <1>0, <2>1
  <2> QED BY <2>2, FromIs, Zenon
<1>2. L[k] \in Step
  <2>1. k \in 1..Len(L) BY <1>0, <1>1
  <2> QED BY <2>1, ElementOfSeq
<1> DEFINE j == k + 1
<1>3. j \in 1..(Len(L) + 1)
  BY <1>0, <1>1
<1> HIDE DEF j
<1>4. From(L, j) \in Seq(Step)
  BY <1>3, FromIs
<1>5. PICK m \in 1..(Len(From(L, j)) + 1) :
        /\ Rest(F, D, From(L, j)) = From(From(L, j), m)
        /\ \A i \in 1..(m - 1) : ~Moves(F, D, From(L, j)[i])
  BY <1>4, RestIs
<1>6. /\ Len(From(L, j)) = Len(L) - j + 1
      /\ From(From(L, j), m) = From(L, j + m - 1)
      /\ \A i \in 1..Len(From(L, j)) : From(L, j)[i] = L[j + i - 1]
  BY <1>3, FromFrom
<1>7. j + m - 1 \in j..(Len(L) + 1)
  BY <1>0, <1>3, <1>6
<1>8. \A i \in j..(j + m - 2) : ~Moves(F, D, L[i])
  <2> TAKE i \in j..(j + m - 2)
  <2>1. (i - j + 1) \in 1..(m - 1) /\ (i - j + 1) \in 1..Len(From(L, j)) BY <1>0, <1>3, <1>6
  <2>2. From(L, j)[i - j + 1] = L[j + (i - j + 1) - 1] BY <1>6, <2>1
  <2>3. j + (i - j + 1) - 1 = i BY <1>3
  <2> QED BY <1>5, <2>1, <2>2, <2>3
<1>9. (j + m - 1) - 1 = j + m - 2
  BY <1>3
<1>10. \E n \in j..(Len(L) + 1) :
         /\ Rest(F, D, From(L, j)) = From(L, n)
         /\ \A i \in j..(n - 1) : ~Moves(F, D, L[i])
  <2> WITNESS j + m - 1 \in j..(Len(L) + 1)
  <2> QED BY <1>5, <1>6, <1>8, <1>9
<1> QED BY <1>1, <1>2, <1>10 DEF j
-----------------------------------------------------------------------------
(* Where the envs of a line can be.                                        *)

\* Nobody is there at the start.
LEMMA LineInit == Init => LineInv
<1> SUFFICES ASSUME Init PROVE LineInv
  OBVIOUS
<1>1. \A p \in Proc : pc[p] = "off"
  BY DEF Init
<1>2. \A i \in Command : pc[Sh(i)] = "off" /\ pc[Prog(i)] = "off" /\ ~right[i]
  BY <1>1, Procs DEF Init
<1>3. 1 \in Command /\ \A i \in Command : i < N => i + 1 \in Command
  BY ShellAssumption DEF Command
<1> QED BY <1>1, <1>2, <1>3 DEF Init, LineInv, LineAt

\* An env of sh.c goes from one place to another.
ShGoes(i, l) ==
  /\ pc' = [pc EXCEPT ![Sh(i)] = l]
  /\ right' = right /\ prompt' = prompt

\* The envs after a step that changes the place of one of them.
LEMMA ShGoesIs ==
  ASSUME LineInv, NEW i \in Command, NEW l, ShGoes(i, l)
  PROVE  /\ pc'[Sh(i)] = l
         /\ \A j \in Command : j # i => pc'[Sh(j)] = pc[Sh(j)]
         /\ \A j \in Command : pc'[Prog(j)] = pc[Prog(j)]
BY Procs DEF ShGoes, LineInv, LineAt

\* The commands of a line are numbered from 1.
LEMMA Neighbours ==
  /\ 1 \in Command
  /\ \A i \in Command : i \in Nat /\ i # i + 1 /\ i + 1 > i /\ (i < N => i + 1 \in Command)
BY ShellAssumption DEF Command

\* Before the right side of a bar, and without one.
LEMMA GoesEarly ==
  ASSUME LineInv, NEW i \in Command, NEW l, ShGoes(i, l), UNCHANGED empty,
         \/ pc[Sh(i)] = "parse" /\ l \in {"parse", "fork", "left", "spawn", "wait", "exit"}
         \/ pc[Sh(i)] = "left" /\ l \in {"spawn", "wait"},
         l = "fork" => i < N
  PROVE  LineInv'
<1>1. /\ pc'[Sh(i)] = l
      /\ \A j \in Command : j # i => pc'[Sh(j)] = pc[Sh(j)]
      /\ \A j \in Command : pc'[Prog(j)] = pc[Prog(j)]
  BY ShGoesIs
<1>2. pc' \in [Proc -> {"off", "parse", "fork", "left", "spawn", "wait", "run", "exit"}]
  BY DEF LineInv, LineAt, ShGoes
<1> QED BY <1>1, <1>2, Neighbours DEF LineInv, LineAt, ShGoes

\* No env of sh.c or of a program moves.
LEMMA LineStays ==
  ASSUME LineInv, UNCHANGED <<prompt, pc, right, empty>>
  PROVE  LineInv'
BY DEF LineInv, LineAt

\* The child of a fork is the new last env of the line.
LEMMA fork_doneLine ==
  ASSUME LineInv, NEW i \in Command, fork_done(i)
  PROVE  LineInv'
<1>1. i < N /\ i + 1 \in Command /\ pc[Sh(i)] = "fork"
  BY Neighbours DEF LineInv, LineAt, fork_done
<1>2. /\ pc'[Sh(i)] = "left" /\ pc'[Sh(i + 1)] = "parse"
      /\ \A j \in Command : j # i /\ j # i + 1 => pc'[Sh(j)] = pc[Sh(j)]
      /\ \A j \in Command : pc'[Prog(j)] = pc[Prog(j)]
  BY <1>1, Procs, Neighbours DEF fork_done, LineInv, LineAt
<1>3. pc' \in [Proc -> {"off", "parse", "fork", "left", "spawn", "wait", "run", "exit"}]
  BY DEF LineInv, LineAt, fork_done
<1>4. right' \in [Command -> BOOLEAN] /\ right'[i] /\ \A j \in Command : j # i => right'[j] = right[j]
  BY DEF LineInv, LineAt, fork_done
<1>5. prompt' = prompt /\ empty' = empty
  BY DEF fork_done
<1>6. \A j \in Command : j > i => pc[Sh(j)] = "off"
  BY <1>1 DEF LineInv, LineAt
<1>7. \A j \in Command : j < i => pc[Sh(j)] \notin {"parse", "fork"}
  BY <1>1 DEF LineInv, LineAt
<1>8. ASSUME NEW j \in Command PROVE LineAt(j)'
  <2>1. CASE j < i
    <3>1. j # i /\ j # i + 1 BY <2>1, Neighbours
    <3>2. LineAt(j) BY DEF LineInv
    <3>3. pc'[Sh(j)] = pc[Sh(j)] /\ pc'[Prog(j)] = pc[Prog(j)] /\ right'[j] = right[j]
      BY <1>2, <1>4, <3>1
    <3>4. j < N /\ pc'[Sh(j + 1)] # "off" => pc[Sh(j + 1)] # "off"
      BY <1>1, <1>2, <2>1, Neighbours
    <3> QED BY <1>5, <1>7, <2>1, <3>2, <3>3, <3>4 DEF LineAt
  <2>2. CASE j = i
    BY <1>1, <1>2, <1>4, <2>2 DEF LineInv, LineAt
  <2>3. CASE j = i + 1
    <3>1. \A l \in Command : l > j => l # i /\ l # i + 1 /\ pc[Sh(l)] = "off"
      BY <1>6, <2>3, Neighbours
    <3>2. j < N => pc'[Sh(j + 1)] = "off"
      BY <1>2, <3>1, Neighbours
    <3>3. ~right'[j] /\ pc'[Prog(j)] = "off"
      BY <1>1, <1>2, <1>4, <1>6, <2>3, Neighbours DEF LineInv, LineAt
    <3> QED BY <1>2, <2>3, <3>1, <3>2, <3>3 DEF LineAt
  <2>4. CASE j > i + 1
    <3>1. j # i /\ j # i + 1 /\ j > i BY <2>4, Neighbours
    <3>2. LineAt(j) /\ pc[Sh(j)] = "off" BY <1>6, <3>1 DEF LineInv
    <3>3. pc'[Sh(j)] = pc[Sh(j)] /\ pc'[Prog(j)] = pc[Prog(j)] /\ right'[j] = right[j]
      BY <1>2, <1>4, <3>1
    <3>4. j < N => pc'[Sh(j + 1)] = pc[Sh(j + 1)]
      BY <1>2, <2>4, Neighbours
    <3> QED BY <1>5, <3>2, <3>3, <3>4 DEF LineAt
  <2> QED BY <2>1, <2>2, <2>3, <2>4, Neighbours
<1>9. prompt' => pc'[Sh(1)] = "off"
  <2> HAVE prompt'
  <2>1. pc[Sh(1)] = "off" BY <1>5 DEF LineInv
  <2>2. 1 # i /\ 1 # i + 1 BY <1>1, <2>1, ShellAssumption DEF Command
  <2> QED BY <1>2, <2>1, <2>2, Neighbours
<1>10. empty' \in BOOLEAN /\ prompt' \in BOOLEAN
  BY <1>5 DEF LineInv
<1> QED BY <1>3, <1>4, <1>8, <1>9, <1>10 DEF LineInv

\* A command without words is what empty remembers.
LEMMA no_wordsLine ==
  ASSUME LineInv, NEW i \in Command, no_words(i)
  PROVE  LineInv'
<1>1. ShGoes(i, "exit") /\ empty' = TRUE /\ pc[Sh(i)] \in {"parse", "left"}
  BY DEF no_words, Goto, Parsed, ShGoes
<1>2. /\ pc'[Sh(i)] = "exit"
      /\ \A j \in Command : j # i => pc'[Sh(j)] = pc[Sh(j)]
      /\ \A j \in Command : pc'[Prog(j)] = pc[Prog(j)]
  BY <1>1, ShGoesIs
<1>3. pc' \in [Proc -> {"off", "parse", "fork", "left", "spawn", "wait", "run", "exit"}]
  BY <1>1 DEF LineInv, LineAt, ShGoes
<1> QED BY <1>1, <1>2, <1>3, Neighbours DEF LineInv, LineAt, ShGoes

\* The program runs, or not, while its env waits.
LEMMA spawn_doneLine ==
  ASSUME LineInv, NEW i \in Command, spawn_done(i)
  PROVE  LineInv'
<1>1. pc[Sh(i)] = "spawn" /\ right' = right /\ prompt' = prompt /\ empty' = empty
  BY DEF spawn_done
<1>2. /\ pc'[Sh(i)] = "wait" /\ pc'[Prog(i)] \in {"run", pc[Prog(i)]}
      /\ \A j \in Command : j # i => pc'[Sh(j)] = pc[Sh(j)] /\ pc'[Prog(j)] = pc[Prog(j)]
      /\ pc' \in [Proc -> {"off", "parse", "fork", "left", "spawn", "wait", "run", "exit"}]
  BY Procs DEF spawn_done, LineInv, LineAt
<1> QED BY <1>1, <1>2, Neighbours DEF LineInv, LineAt

\* An env that has waited leaves nobody behind to its right.
LEMMA waitLine ==
  ASSUME LineInv, NEW i \in Command, wait(i)
  PROVE  LineInv'
<1>1. ShGoes(i, "exit") /\ empty' = empty /\ pc[Sh(i)] = "wait" /\ Waited(i)
  BY DEF wait, Goto, ShGoes
<1>2. /\ pc'[Sh(i)] = "exit"
      /\ \A j \in Command : j # i => pc'[Sh(j)] = pc[Sh(j)]
      /\ \A j \in Command : pc'[Prog(j)] = pc[Prog(j)]
  BY <1>1, ShGoesIs
<1>3. pc' \in [Proc -> {"off", "parse", "fork", "left", "spawn", "wait", "run", "exit"}]
  BY <1>1 DEF LineInv, LineAt, ShGoes
<1> QED BY <1>1, <1>2, <1>3, Neighbours DEF LineInv, LineAt, ShGoes, Waited

\* So it can go,
LEMMA exitShLine ==
  ASSUME LineInv, NEW i \in Command, exit(Sh(i))
  PROVE  LineInv'
<1>1. /\ pc[Sh(i)] = "exit" /\ pc' = [pc EXCEPT ![Sh(i)] = "off"]
      /\ right' = [right EXCEPT ![i] = FALSE] /\ prompt' = prompt /\ empty' = empty
  BY Procs DEF exit, Goto
<1>2. /\ pc'[Sh(i)] = "off"
      /\ \A j \in Command : j # i => pc'[Sh(j)] = pc[Sh(j)]
      /\ \A j \in Command : pc'[Prog(j)] = pc[Prog(j)]
      /\ pc' \in [Proc -> {"off", "parse", "fork", "left", "spawn", "wait", "run", "exit"}]
  BY <1>1, Procs DEF LineInv, LineAt
<1>3. right' \in [Command -> BOOLEAN] /\ ~right'[i] /\ \A j \in Command : j # i => right'[j] = right[j]
  BY <1>1 DEF LineInv, LineAt
<1> QED BY <1>1, <1>2, <1>3, Neighbours DEF LineInv, LineAt

\* A program goes to exit, or is gone.
LEMMA ProgLine ==
  ASSUME LineInv, NEW i \in Command, NEW l \in {"exit", "off"}, pc[Prog(i)] # "off",
         pc' = [pc EXCEPT ![Prog(i)] = l], UNCHANGED <<prompt, right, empty>>
  PROVE  LineInv'
<1>1. /\ pc'[Prog(i)] = l
      /\ \A j \in Command : j # i => pc'[Prog(j)] = pc[Prog(j)]
      /\ \A j \in Command : pc'[Sh(j)] = pc[Sh(j)]
      /\ pc' \in [Proc -> {"off", "parse", "fork", "left", "spawn", "wait", "run", "exit"}]
  BY Procs DEF LineInv, LineAt
<1> QED BY <1>1, Neighbours DEF LineInv, LineAt

\* The first env of a line comes when nobody is there,
LEMMA main_forkLine ==
  ASSUME LineInv, main_fork
  PROVE  LineInv'
<1>1. /\ pc'[Sh(1)] = "parse"
      /\ \A j \in Command : pc[Sh(j)] = "off"
      /\ \A j \in Command : j # 1 => pc'[Sh(j)] = "off"
      /\ \A j \in Command : pc'[Prog(j)] = "off"
      /\ pc' \in [Proc -> {"off", "parse", "fork", "left", "spawn", "wait", "run", "exit"}]
  BY Procs, Neighbours DEF LineInv, LineAt, main_fork
<1>2. prompt' = FALSE /\ empty' = FALSE /\ right' = right
  BY DEF main_fork
<1>3. \A j \in Command : j # 1 => j > 1
  BY ShellAssumption DEF Command
<1>4. \A j \in Command : j < N => j + 1 # 1
  BY ShellAssumption DEF Command
<1>5. ASSUME NEW j \in Command PROVE LineAt(j)'
  <2>1. ~right'[j]
    BY <1>1, <1>2 DEF LineInv, LineAt
  <2>2. j < N => pc'[Sh(j + 1)] = "off"
    BY <1>1, <1>4, Neighbours
  <2>3. \A l \in Command : l > j => pc'[Sh(l)] = "off"
    <3> TAKE l \in Command
    <3> HAVE l > j
    <3>1. l # 1 BY ShellAssumption DEF Command
    <3> QED BY <1>1, <3>1
  <2>4. pc'[Sh(j)] \in {"off", "parse"} /\ pc'[Prog(j)] = "off"
    BY <1>1
  <2> QED BY <2>1, <2>2, <2>3, <2>4 DEF LineAt
<1> QED BY <1>1, <1>2, <1>5 DEF LineInv

\* and main prompts when it has gone.
LEMMA main_waitLine ==
  ASSUME LineInv, main_wait
  PROVE  LineInv'
BY DEF LineInv, LineAt, main_wait

\* Every step keeps LineInv.
LEMMA LineNext == LineInv /\ [Next]_shVars => LineInv'
<1> SUFFICES ASSUME LineInv, [Next]_shVars PROVE LineInv'
  OBVIOUS
<1>1. CASE UNCHANGED shVars
  BY <1>1, LineStays DEF shVars
<1>2. CASE main_fork
  BY <1>2, main_forkLine
<1>3. CASE main_wait
  BY <1>3, main_waitLine
<1>4. ASSUME NEW i \in Command, ShStep(i) PROVE LineInv'
  <2>1. CASE page(Sh(i))
    BY <2>1, LineStays DEF page
  <2>2. ASSUME NEW d \in {0, 1}, redirect(i, d) PROVE LineInv'
    <3>1. ShGoes(i, "parse") /\ UNCHANGED empty /\ pc[Sh(i)] = "parse"
      BY <2>2 DEF redirect, Goto, ShGoes
    <3> QED BY <3>1, GoesEarly
  <2>3. CASE parse_error(i)
    <3>1. ShGoes(i, "exit") /\ UNCHANGED empty /\ pc[Sh(i)] = "parse"
      BY <2>3 DEF parse_error, Goto, ShGoes
    <3> QED BY <3>1, GoesEarly
  <2>4. CASE fork(i)
    <3>1. (ShGoes(i, "fork") \/ ShGoes(i, "left")) /\ UNCHANGED empty /\ pc[Sh(i)] = "parse" /\ i < N
      BY <2>4 DEF fork, Goto, ShGoes
    <3> QED BY <3>1, GoesEarly
  <2>5. CASE fork_done(i)
    BY <2>5, fork_doneLine
  <2>6. CASE no_words(i)
    BY <2>6, no_wordsLine
  <2>7. CASE spawn(i)
    <3>1. (ShGoes(i, "spawn") \/ ShGoes(i, "wait")) /\ UNCHANGED empty /\ pc[Sh(i)] \in {"parse", "left"}
      BY <2>7 DEF spawn, Goto, ShGoes, Parsed
    <3> QED BY <3>1, GoesEarly
  <2>8. CASE spawn_done(i)
    BY <2>8, spawn_doneLine
  <2>9. CASE wait(i)
    BY <2>9, waitLine
  <2>10. CASE exit(Sh(i))
    BY <2>10, exitShLine
  <2> QED BY <1>4, <2>1, <2>2, <2>3, <2>4, <2>5, <2>6, <2>7, <2>8, <2>9, <2>10 DEF ShStep
<1>5. ASSUME NEW i \in Command, ProgStep(i) \/ abort(i) PROVE LineInv'
  <2>1. CASE page(Prog(i)) \/ write(i) \/ read(i)
    BY <2>1, LineStays DEF page, write, read
  <2>2. CASE Quit(i)
    BY <2>2, ProgLine DEF Quit, Goto
  <2>3. CASE exit(Prog(i))
    <3>1. pc[Prog(i)] = "exit" /\ pc' = [pc EXCEPT ![Prog(i)] = "off"] /\ UNCHANGED <<prompt, right, empty>>
      BY <2>3, Procs DEF exit, Goto
    <3> QED BY <3>1, ProgLine
  <2> QED BY <1>5, <2>1, <2>2, <2>3 DEF ProgStep, finish, abort
<1> QED BY <1>1, <1>2, <1>3, <1>4, <1>5 DEF Next

\* The shell waits for every env of a line: the first of those that are left would have
\* one to its left that waits for it.
LEMMA LineWaits == LineInv => WaitsForAll
<1> SUFFICES ASSUME LineInv, prompt, ~empty, NEW p \in Proc, pc[p] # "off" PROVE FALSE
  BY DEF WaitsForAll
<1> DEFINE S == {i \in Command : pc[Sh(i)] # "off"}
<1>1. PICK i \in Command : p = Sh(i) \/ p = Prog(i)
  BY Procs
<1>2. S # {} /\ S \in SUBSET Nat
  BY <1>1, Neighbours DEF LineInv, LineAt
<1>3. PICK x \in S : \A y \in S : x <= y
  BY <1>2, LeastOne
<1>4. x # 1
  BY <1>3 DEF LineInv, LineAt
<1>5. x - 1 \in Command /\ x - 1 < N /\ (x - 1) + 1 = x
  BY <1>3, <1>4, ShellAssumption DEF Command
<1>6. pc[Sh(x - 1)] # "off"
  BY <1>3, <1>5 DEF LineInv, LineAt
<1>7. x - 1 \in S
  BY <1>5, <1>6
<1>8. x <= x - 1 /\ x \in Nat
  BY <1>2, <1>3, <1>7
<1> QED BY <1>8
-----------------------------------------------------------------------------
(* One page step of an env on its own descriptors.                         *)

Descs   == [Fd -> End \cup {NULL}]
Windows == [Fd -> Pipe \cup {0}]

After(F, D, s, F2, D2) ==
  /\ F2 = CASE s[1] = "fd-" -> [F EXCEPT ![s[2]] = NULL]
            [] s[1] = "fd+" -> [F EXCEPT ![s[3]] = F[s[2]]]
            [] OTHER        -> F
  /\ D2 = CASE s[1] = "data-" -> [D EXCEPT ![s[2]] = 0]
            [] s[1] = "data+" -> [D EXCEPT ![s[3]] = D[s[2]]]
            [] OTHER          -> D

\* One step changes one table.
LEMMA AfterIs ==
  ASSUME NEW F, NEW D, NEW s, NEW F2, NEW D2, After(F, D, s, F2, D2)
  PROVE  /\ s[1] = "fd-" => F2 = [F EXCEPT ![s[2]] = NULL] /\ D2 = D
         /\ s[1] = "fd+" => F2 = [F EXCEPT ![s[3]] = F[s[2]]] /\ D2 = D
         /\ s[1] = "data-" => F2 = F /\ D2 = [D EXCEPT ![s[2]] = 0]
         /\ s[1] = "data+" => F2 = F /\ D2 = [D EXCEPT ![s[3]] = D[s[2]]]
BY DEF After

\* Both keep their types.
LEMMA AfterTypes ==
  ASSUME NEW F \in Descs, NEW D \in Windows, NEW s \in Step, NEW F2, NEW D2, After(F, D, s, F2, D2)
  PROVE  F2 \in Descs /\ D2 \in Windows
<1>1. s[1] \in {"fd-", "fd+", "data-", "data+", "givefd", "givedata"} /\ s[2] \in Fd /\ s[3] \in Fd
  BY DEF Step
<1>2. F2 \in Descs
  BY <1>1 DEF After, Descs
<1>3. D2 \in Windows
  BY <1>1 DEF After, Windows
<1> QED BY <1>2, <1>3

\* Unmapping an Fd page, or a pipe whose Fd page is gone, leaves the others backed.
LEMMA BackedCloses ==
  ASSUME NEW F \in Descs, NEW D \in Windows, NEW s \in Step, NEW F2, NEW D2, After(F, D, s, F2, D2),
         Backed(F, D), s[1] = "fd-" \/ (s[1] = "data-" /\ F[s[2]] = NULL)
  PROVE  Backed(F2, D2)
<1>1. s[2] \in Fd
  BY DEF Step
<1>2. CASE s[1] = "fd-"
  BY <1>1, <1>2 DEF After, Backed, Descs, Windows
<1>3. CASE s[1] = "data-" /\ F[s[2]] = NULL
  BY <1>1, <1>3 DEF After, Backed, Descs, Windows
<1> QED BY <1>2, <1>3

\* In a list of steps each pipe is unmapped right after the Fd page.
Pairs(L) ==
  \A j \in 1..Len(L) : L[j][1] = "data-" => j > 1 /\ L[j - 1][1] = "fd-" /\ L[j - 1][2] = L[j][2]

\* All lists but share are like that.
LEMMA AllPairs ==
  /\ Pairs(close_all) /\ Pairs(LeftEnd) /\ Pairs(RightEnd)
  /\ \A d \in Fd : Pairs(close(d))
<1>1. \A j \in 1..8 : j = 1 \/ j = 2 \/ j = 3 \/ j = 4 \/ j = 5 \/ j = 6 \/ j = 7 \/ j = 8
  OBVIOUS
<1>2. Pairs(close_all)
  BY <1>1, CloseAllIs DEF Pairs
<1>3. Pairs(LeftEnd)
  BY <1>1, LeftEndIs DEF Pairs
<1>4. Pairs(RightEnd)
  BY <1>1, RightEndIs DEF Pairs
<1>5. ASSUME NEW d \in Fd PROVE Pairs(close(d))
  <2>1. \A j \in 1..2 : j = 1 \/ j = 2
    OBVIOUS
  <2> QED BY <2>1, CloseIs DEF Pairs
<1> QED BY <1>2, <1>3, <1>4, <1>5

\* The next step of a list of pairs: the position n, and what was left out before it.
StepsBy(L, k, T, F, D, F2, D2) ==
  /\ L \in Seq(Step) /\ Pairs(L) /\ F \in Descs /\ D \in Windows
  /\ Closes(T, F, L, k) /\ T # <<>> /\ After(F, D, Head(T), F2, D2)

StepsTo(L, k, T, F, F2, D2) ==
  /\ k \in 1..Len(L) /\ Head(T) = L[k] /\ L[k] \in Step
  /\ L[k][1] = "data-" => F[L[k][2]] = NULL
  /\ \E n \in (k + 1)..(Len(L) + 1) :
       /\ Closes(Rest(F2, D2, Tail(T)), F2, L, n)
       /\ \A i \in (k + 1)..(n - 1) : ~Moves(F2, D2, L[i])

\* One step along a list that closes.
LEMMA ClosesStep ==
  ASSUME NEW L, NEW k, NEW T, NEW F, NEW D, NEW F2, NEW D2, StepsBy(L, k, T, F, D, F2, D2)
  PROVE  StepsTo(L, k, T, F, F2, D2)
<1> USE DEF StepsBy
<1>0. Len(L) \in Nat /\ DOMAIN L = 1..Len(L)
  OBVIOUS
<1>1. T = From(L, k) /\ k \in 1..(Len(L) + 1)
  BY DEF Closes, At
<1>2. k <= Len(L) /\ Head(T) = L[k] /\ L[k] \in Step
  BY <1>1, StepDone
<1>3. PICK n \in (k + 1)..(Len(L) + 1) :
        Rest(F2, D2, Tail(T)) = From(L, n) /\ \A i \in (k + 1)..(n - 1) : ~Moves(F2, D2, L[i])
  BY <1>1, StepDone
<1>4. k \in 1..Len(L) /\ n \in 1..(Len(L) + 1) /\ n - 1 \in k..Len(L)
  BY <1>0, <1>1, <1>2
<1>5. ASSUME n \in DOMAIN L, L[n][1] = "data-" PROVE F2[L[n][2]] = NULL
  <2>1. L[n - 1][1] = "fd-" /\ L[n - 1][2] = L[n][2]
    BY <1>0, <1>5 DEF Pairs
  <2>2. CASE n - 1 = k
    <3>1. F2 = [F EXCEPT ![L[k][2]] = NULL] BY <1>2, <2>1, <2>2 DEF After
    <3>2. L[k][2] \in Fd BY <1>2 DEF Step
    <3> QED BY <2>1, <2>2, <3>1, <3>2 DEF Descs
  <2>3. CASE n - 1 # k
    <3>1. ~Moves(F2, D2, L[n - 1]) BY <1>3, <1>4, <2>3
    <3> QED BY <2>1, <3>1 DEF Moves
  <2> QED BY <2>2, <2>3
<1>6. Closes(Rest(F2, D2, Tail(T)), F2, L, n)
  BY <1>3, <1>4, <1>5 DEF Closes, At
<1>7. L[k][1] = "data-" => F[L[k][2]] = NULL
  BY <1>0, <1>4 DEF Closes
<1> QED BY <1>2, <1>3, <1>4, <1>6, <1>7 DEF StepsTo

\* An env begins with a list.
LEMMA ClosesStart ==
  ASSUME NEW L \in Seq(Step), Pairs(L), NEW F, NEW D
  PROVE  \E n \in 1..(Len(L) + 1) :
           Closes(Rest(F, D, L), F, L, n) /\ \A i \in 1..(n - 1) : ~Moves(F, D, L[i])
<1>0. Len(L) \in Nat /\ DOMAIN L = 1..Len(L)
  OBVIOUS
<1>1. PICK n \in 1..(Len(L) + 1) :
        Rest(F, D, L) = From(L, n) /\ \A i \in 1..(n - 1) : ~Moves(F, D, L[i])
  BY RestIs
<1>2. ASSUME n \in DOMAIN L, L[n][1] = "data-" PROVE F[L[n][2]] = NULL
  <2>1. n > 1 /\ L[n - 1][1] = "fd-" /\ L[n - 1][2] = L[n][2]
    BY <1>0, <1>2 DEF Pairs
  <2>2. ~Moves(F, D, L[n - 1])
    BY <1>0, <1>1, <2>1
  <2> QED BY <2>1, <2>2 DEF Moves
<1>3. Closes(Rest(F, D, L), F, L, n)
  BY <1>1, <1>2 DEF Closes, At
<1> QED BY <1>1, <1>3

\* A list that is at its end has no step left, and the other way round.
LEMMA ClosesEnd ==
  ASSUME NEW L \in Seq(Step), NEW F, NEW T, NEW k, Closes(T, F, L, k)
  PROVE  T = <<>> <=> k = Len(L) + 1
BY FromIs DEF Closes, At

\* close_all, from one step to the next.
LEMMA CloseAllStep ==
  ASSUME NEW F \in Descs, NEW D \in Windows, NEW T, NEW k \in 1..9, Closes(T, F, close_all, k),
         T # <<>>, NEW F2, NEW D2, After(F, D, Head(T), F2, D2), Backed(F, D)
  PROVE  /\ Backed(F2, D2)
         /\ \E n \in 1..9 : Closes(Rest(F2, D2, Tail(T)), F2, close_all, n)
<1> DEFINE L == close_all
<1>1. L \in Seq(Step) /\ Len(L) = 8
  BY CloseAllIs
<1>2. /\ k \in 1..Len(L) /\ Head(T) = L[k] /\ L[k] \in Step
      /\ L[k][1] = "data-" => F[L[k][2]] = NULL
      /\ \E n \in (k + 1)..(Len(L) + 1) :
           /\ Closes(Rest(F2, D2, Tail(T)), F2, L, n)
           /\ \A i \in (k + 1)..(n - 1) : ~Moves(F2, D2, L[i])
  <2>1. StepsBy(L, k, T, F, D, F2, D2) BY <1>1, AllPairs DEF StepsBy
  <2> QED BY <2>1, ClosesStep DEF StepsTo
<1>3. L[k][1] = "fd-" \/ L[k][1] = "data-"
  <2>1. k = 1 \/ k = 2 \/ k = 3 \/ k = 4 \/ k = 5 \/ k = 6 \/ k = 7 \/ k = 8
    BY <1>1, <1>2
  <2> QED BY <2>1, CloseAllIs
<1>4. Backed(F2, D2)
  BY <1>2, <1>3, BackedCloses
<1>5. \E n \in 1..9 : Closes(Rest(F2, D2, Tail(T)), F2, L, n)
  BY <1>1, <1>2
<1> QED BY <1>4, <1>5

\* A redirection, from one step to the next.
LEMMA RedirectStep ==
  ASSUME NEW F \in Descs, NEW D \in Windows, NEW T, NEW k \in 1..3, NEW d \in {0, 1},
         Closes(T, F, close(d), k), T # <<>>, NEW F2, NEW D2, After(F, D, Head(T), F2, D2),
         Backed(F, D), NEW S, Has(F, S, {}, {}, {})
  PROVE  /\ Backed(F2, D2)
         /\ Has(F2, S, {}, {}, {})
         /\ \E n \in 1..3 : Closes(Rest(F2, D2, Tail(T)), F2, close(d), n)
<1> DEFINE L == close(d)
<1>0. d \in Fd
  BY DEF Fd
<1>1. L \in Seq(Step) /\ Len(L) = 2
  BY <1>0, CloseIs
<1>2. /\ k \in 1..Len(L) /\ Head(T) = L[k] /\ L[k] \in Step
      /\ L[k][1] = "data-" => F[L[k][2]] = NULL
      /\ \E n \in (k + 1)..(Len(L) + 1) :
           /\ Closes(Rest(F2, D2, Tail(T)), F2, L, n)
           /\ \A i \in (k + 1)..(n - 1) : ~Moves(F2, D2, L[i])
  <2>1. StepsBy(L, k, T, F, D, F2, D2) BY <1>0, <1>1, AllPairs DEF StepsBy
  <2> QED BY <2>1, ClosesStep DEF StepsTo
<1>3. (L[k][1] = "fd-" \/ L[k][1] = "data-") /\ L[k][2] = d
  <2>1. k = 1 \/ k = 2
    BY <1>1, <1>2
  <2> QED BY <1>0, <2>1, CloseIs
<1>4. Backed(F2, D2)
  BY <1>2, <1>3, BackedCloses
<1>5. \E n \in 1..3 : Closes(Rest(F2, D2, Tail(T)), F2, L, n)
  BY <1>1, <1>2
<1>6. F2 = F \/ F2 = [F EXCEPT ![d] = NULL]
  BY <1>2, <1>3 DEF After
<1>7. Has(F2, S, {}, {}, {})
  BY <1>6 DEF Has, Descs, Fd
<1> QED BY <1>4, <1>5, <1>7

\* The next of an env's steps on its own descriptors.
OwnStep(T, F, D, F2, D2) ==
  /\ F \in Descs /\ D \in Windows /\ T # <<>>
  /\ After(F, D, Head(T), F2, D2) /\ Backed(F, D)

\* The steps of the env right of a bar.
LEMMA JoinsStep ==
  ASSUME NEW i, NEW T, NEW F, NEW D, NEW F2, NEW D2, OwnStep(T, F, D, F2, D2),
         NEW k \in 1..9, Joins(i, T, F, D, k)
  PROVE  /\ Backed(F2, D2)
         /\ \E n \in 1..9 : Joins(i, Rest(F2, D2, Tail(T)), F2, D2, n)
<1> USE DEF OwnStep
<1> DEFINE L == RightEnd
           s == L[k]
<1>1. L \in Seq(Step) /\ Len(L) = 8
  BY RightEndIs
<1>2. StepsTo(L, k, T, F, F2, D2)
  <2>1. StepsBy(L, k, T, F, D, F2, D2) BY <1>1, AllPairs DEF StepsBy, Joins
  <2> QED BY <2>1, ClosesStep
<1>3. PICK n \in (k + 1)..9 :
        /\ Closes(Rest(F2, D2, Tail(T)), F2, L, n)
        /\ \A j \in (k + 1)..(n - 1) : ~Moves(F2, D2, L[j])
  BY <1>1, <1>2 DEF StepsTo
<1>4. k \in 1..8 /\ Head(T) = s /\ s \in Step /\ (s[1] = "data-" => F[s[2]] = NULL)
  BY <1>1, <1>2 DEF StepsTo
<1>5. k = 1 \/ k = 2 \/ k = 3 \/ k = 4 \/ k = 5 \/ k = 6 \/ k = 7 \/ k = 8
  BY <1>4
<1>6. 0 \in Fd /\ 1 \in Fd /\ 2 \in Fd /\ 3 \in Fd
  BY DEF Fd
<1>7. F2 \in Descs /\ D2 \in Windows
  BY <1>4, AfterTypes
<1>8. /\ k = 1 => F2 = [F EXCEPT ![0] = NULL] /\ D2 = D
      /\ k = 3 => F2 = F /\ D2 = [D EXCEPT ![0] = D[2]]
      /\ k = 4 => F2 = [F EXCEPT ![0] = F[2]] /\ D2 = D
      /\ k = 5 => F2 = [F EXCEPT ![2] = NULL] /\ D2 = D
      /\ k = 7 => F2 = [F EXCEPT ![3] = NULL] /\ D2 = D
      /\ k \in {2, 6, 8} => F2 = F
  <2>1. After(F, D, s, F2, D2) BY <1>4
  <2>2. /\ k = 1 => s[1] = "fd-" /\ s[2] = 0
        /\ k = 2 => s[1] = "data-"
        /\ k = 3 => s[1] = "data+" /\ s[2] = 2 /\ s[3] = 0
        /\ k = 4 => s[1] = "fd+" /\ s[2] = 2 /\ s[3] = 0
        /\ k = 5 => s[1] = "fd-" /\ s[2] = 2
        /\ k = 6 => s[1] = "data-"
        /\ k = 7 => s[1] = "fd-" /\ s[2] = 3
        /\ k = 8 => s[1] = "data-"
    BY RightEndIs
  <2> HIDE DEF s
  <2>3. /\ s[1] = "fd-" => F2 = [F EXCEPT ![s[2]] = NULL] /\ D2 = D
        /\ s[1] = "fd+" => F2 = [F EXCEPT ![s[3]] = F[s[2]]] /\ D2 = D
        /\ s[1] = "data-" => F2 = F
        /\ s[1] = "data+" => F2 = F /\ D2 = [D EXCEPT ![s[3]] = D[s[2]]]
    BY <2>1, AfterIs
  <2> QED BY <2>2, <2>3
<1>9. /\ k = 1 => F2[0] = NULL
      /\ k = 3 => D2[0] = D[2]
      /\ k = 4 => F2[0] = F[2]
      /\ k = 5 => F2[2] = NULL
      /\ k = 7 => F2[3] = NULL
      /\ k \notin {1, 4} => F2[0] = F[0]
      /\ k # 5 => F2[2] = F[2]
      /\ k # 7 => F2[3] = F[3]
      /\ F2[1] = F[1]
  BY <1>5, <1>6, <1>8 DEF Descs, Windows
<1>10. Backed(F2, D2)
  <2>1. CASE k \in {1, 2, 5, 6, 7, 8}
    <3>1. s[1] = "fd-" \/ s[1] = "data-" BY <2>1, RightEndIs
    <3> QED BY <1>4, <3>1, BackedCloses
  <2>2. CASE k = 3
    <3>1. F[0] = NULL BY <2>2 DEF Joins
    <3> QED BY <1>8, <2>2, <3>1 DEF Backed, Descs, Windows
  <2>3. CASE k = 4
    <3>1. F[2] # NULL => D[0] = F[2][2] BY <2>3 DEF Joins
    <3> QED BY <1>6, <1>8, <2>3, <3>1 DEF Backed, Descs, Windows
  <2> QED BY <1>5, <2>1, <2>2, <2>3
<1>11. /\ k < 3 /\ 3 < n => D2[2] = 0
       /\ k < 5 /\ 5 < n => F2[2] = NULL
       /\ k < 7 /\ 7 < n => F2[3] = NULL
  <2>1. k < 3 /\ 3 < n => ~Moves(F2, D2, L[3]) BY <1>3, <1>4
  <2>2. k < 5 /\ 5 < n => ~Moves(F2, D2, L[5]) BY <1>3, <1>4
  <2>3. k < 7 /\ 7 < n => ~Moves(F2, D2, L[7]) BY <1>3, <1>4
  <2>4. L[3] = <<"data+", 2, 0>> /\ L[5] = <<"fd-", 2, 2>> /\ L[7] = <<"fd-", 3, 3>> BY RightEndIs
  <2> HIDE DEF L
  <2> QED BY <2>1, <2>2, <2>3, <2>4 DEF Moves
<1>12. /\ F[1] = NULL /\ F[2] \in {NULL, R(i - 1)} /\ F[3] \in {NULL, W(i - 1)}
       /\ k # 1 => F[0] \in {NULL, R(i - 1)}
       /\ k \in {2, 3, 4} => F[0] = NULL
       /\ k = 4 /\ F[2] # NULL => D[0] = F[2][2]
       /\ k > 5 => F[2] = NULL
       /\ k > 7 => F[3] = NULL
  BY DEF Joins, Has
<1>13. n \in 2..9 /\ k < n
  BY <1>3, <1>4
<1>14. Has(F2, {R(i - 1)}, {}, {R(i - 1)}, {W(i - 1)})
  BY <1>5, <1>9, <1>12 DEF Has
<1>15. n \in {2, 3, 4} => F2[0] = NULL
  BY <1>4, <1>9, <1>12, <1>13
<1>16. n > 5 => F2[2] = NULL
  BY <1>4, <1>9, <1>11, <1>12, <1>13
<1>17. n > 7 => F2[3] = NULL
  BY <1>4, <1>9, <1>11, <1>12, <1>13
<1>18. n = 4 /\ F2[2] # NULL => D2[0] = F2[2][2]
  <2> SUFFICES ASSUME n = 4, F2[2] # NULL PROVE D2[0] = F2[2][2]
    OBVIOUS
  <2>1. CASE k = 3
    BY <1>6, <1>9, <2>1 DEF Backed
  <2>2. CASE k < 3
    <3>1. D2[2] = 0 /\ D2[2] = F2[2][2] BY <1>6, <1>10, <1>11, <2>2 DEF Backed
    <3>2. F2[2] \in End BY <1>6, <1>7 DEF Descs
    <3> QED BY <3>1, <3>2, Ends
  <2> QED BY <1>4, <1>13, <2>1, <2>2
<1>19. Joins(i, Rest(F2, D2, Tail(T)), F2, D2, n)
  <2>1. n # 1 BY <1>13
  <2> QED BY <1>3, <1>14, <1>15, <1>16, <1>17, <1>18, <2>1 DEF Joins
<1>20. s[1] \notin {"givefd", "givedata"}
  BY <1>5, RightEndIs
<1> QED BY <1>4, <1>10, <1>13, <1>19, <1>20\* The steps of the env left of a bar.

\* The env left of a bar does its next step.
LEMMA LeavesStep ==
  ASSUME NEW i, NEW T, NEW F, NEW D, NEW F2, NEW D2, OwnStep(T, F, D, F2, D2),
         NEW k \in 1..9, Leaves(i, T, F, D, k)
  PROVE  /\ Backed(F2, D2)
         /\ \E n \in 1..9 : Leaves(i, Rest(F2, D2, Tail(T)), F2, D2, n)
<1> USE DEF OwnStep
<1> DEFINE L == LeftEnd
           s == L[k]
<1>1. L \in Seq(Step) /\ Len(L) = 8
  BY LeftEndIs
<1>2. StepsTo(L, k, T, F, F2, D2)
  <2>1. StepsBy(L, k, T, F, D, F2, D2) BY <1>1, AllPairs DEF StepsBy, Leaves
  <2> QED BY <2>1, ClosesStep
<1>3. PICK n \in (k + 1)..9 :
        /\ Closes(Rest(F2, D2, Tail(T)), F2, L, n)
        /\ \A j \in (k + 1)..(n - 1) : ~Moves(F2, D2, L[j])
  BY <1>1, <1>2 DEF StepsTo
<1>4. k \in 1..8 /\ Head(T) = s /\ s \in Step /\ (s[1] = "data-" => F[s[2]] = NULL)
  BY <1>1, <1>2 DEF StepsTo
<1>5. k = 1 \/ k = 2 \/ k = 3 \/ k = 4 \/ k = 5 \/ k = 6 \/ k = 7 \/ k = 8
  BY <1>4
<1>6. 0 \in Fd /\ 1 \in Fd /\ 2 \in Fd /\ 3 \in Fd
  BY DEF Fd
<1>7. F2 \in Descs /\ D2 \in Windows
  BY <1>4, AfterTypes
<1>8. /\ k = 1 => F2 = [F EXCEPT ![1] = NULL] /\ D2 = D
      /\ k = 3 => F2 = F /\ D2 = [D EXCEPT ![1] = D[3]]
      /\ k = 4 => F2 = [F EXCEPT ![1] = F[3]] /\ D2 = D
      /\ k = 5 => F2 = [F EXCEPT ![3] = NULL] /\ D2 = D
      /\ k = 7 => F2 = [F EXCEPT ![2] = NULL] /\ D2 = D
      /\ k \in {2, 6, 8} => F2 = F
  <2>1. After(F, D, s, F2, D2) BY <1>4
  <2>2. /\ k = 1 => s[1] = "fd-" /\ s[2] = 1
        /\ k = 2 => s[1] = "data-"
        /\ k = 3 => s[1] = "data+" /\ s[2] = 3 /\ s[3] = 1
        /\ k = 4 => s[1] = "fd+" /\ s[2] = 3 /\ s[3] = 1
        /\ k = 5 => s[1] = "fd-" /\ s[2] = 3
        /\ k = 6 => s[1] = "data-"
        /\ k = 7 => s[1] = "fd-" /\ s[2] = 2
        /\ k = 8 => s[1] = "data-"
    BY LeftEndIs
  <2> HIDE DEF s
  <2>3. /\ s[1] = "fd-" => F2 = [F EXCEPT ![s[2]] = NULL] /\ D2 = D
        /\ s[1] = "fd+" => F2 = [F EXCEPT ![s[3]] = F[s[2]]] /\ D2 = D
        /\ s[1] = "data-" => F2 = F
        /\ s[1] = "data+" => F2 = F /\ D2 = [D EXCEPT ![s[3]] = D[s[2]]]
    BY <2>1, AfterIs
  <2> QED BY <2>2, <2>3
<1>9. /\ k = 1 => F2[1] = NULL
      /\ k = 3 => D2[1] = D[3]
      /\ k = 4 => F2[1] = F[3]
      /\ k = 5 => F2[3] = NULL
      /\ k = 7 => F2[2] = NULL
      /\ k \notin {1, 4} => F2[1] = F[1]
      /\ k # 5 => F2[3] = F[3]
      /\ k # 7 => F2[2] = F[2]
      /\ F2[0] = F[0]
  BY <1>5, <1>6, <1>8 DEF Descs, Windows
<1>10. Backed(F2, D2)
  <2>1. CASE k \in {1, 2, 5, 6, 7, 8}
    <3>1. s[1] = "fd-" \/ s[1] = "data-" BY <2>1, LeftEndIs
    <3> QED BY <1>4, <3>1, BackedCloses
  <2>2. CASE k = 3
    <3>1. F[1] = NULL BY <2>2 DEF Leaves
    <3> QED BY <1>8, <2>2, <3>1 DEF Backed, Descs, Windows
  <2>3. CASE k = 4
    <3>1. F[3] # NULL => D[1] = F[3][2] BY <2>3 DEF Leaves
    <3> QED BY <1>6, <1>8, <2>3, <3>1 DEF Backed, Descs, Windows
  <2> QED BY <1>5, <2>1, <2>2, <2>3
<1>11. /\ k < 3 /\ 3 < n => D2[3] = 0
       /\ k < 5 /\ 5 < n => F2[3] = NULL
       /\ k < 7 /\ 7 < n => F2[2] = NULL
  <2>1. k < 3 /\ 3 < n => ~Moves(F2, D2, L[3]) BY <1>3, <1>4
  <2>2. k < 5 /\ 5 < n => ~Moves(F2, D2, L[5]) BY <1>3, <1>4
  <2>3. k < 7 /\ 7 < n => ~Moves(F2, D2, L[7]) BY <1>3, <1>4
  <2>4. L[3] = <<"data+", 3, 1>> /\ L[5] = <<"fd-", 3, 3>> /\ L[7] = <<"fd-", 2, 2>> BY LeftEndIs
  <2> HIDE DEF L
  <2> QED BY <2>1, <2>2, <2>3, <2>4 DEF Moves
<1>12. /\ F[0] \in {NULL, R(i - 1)} /\ F[1] \in {NULL, W(i)}
       /\ F[2] \in {NULL, R(i)} /\ F[3] \in {NULL, W(i)}
       /\ k \in {2, 3, 4} => F[1] = NULL
       /\ k = 4 /\ F[3] # NULL => D[1] = F[3][2]
       /\ k > 5 => F[3] = NULL
       /\ k > 7 => F[2] = NULL
  BY DEF Leaves, Has
<1>13. n \in 2..9 /\ k < n
  BY <1>3, <1>4
<1>14. Has(F2, {R(i - 1)}, {W(i)}, {R(i)}, {W(i)})
  BY <1>5, <1>9, <1>12 DEF Has
<1>15. n \in {2, 3, 4} => F2[1] = NULL
  BY <1>4, <1>9, <1>12, <1>13
<1>16. n > 5 => F2[3] = NULL
  BY <1>4, <1>9, <1>11, <1>12, <1>13
<1>17. n > 7 => F2[2] = NULL
  BY <1>4, <1>9, <1>11, <1>12, <1>13
<1>18. n = 4 /\ F2[3] # NULL => D2[1] = F2[3][2]
  <2> SUFFICES ASSUME n = 4, F2[3] # NULL PROVE D2[1] = F2[3][2]
    OBVIOUS
  <2>1. CASE k = 3
    BY <1>6, <1>9, <2>1 DEF Backed
  <2>2. CASE k < 3
    <3>1. D2[3] = 0 /\ D2[3] = F2[3][2] BY <1>6, <1>10, <1>11, <2>2 DEF Backed
    <3>2. F2[3] \in End BY <1>6, <1>7 DEF Descs
    <3> QED BY <3>1, <3>2, Ends
  <2> QED BY <1>4, <1>13, <2>1, <2>2
<1>19. Leaves(i, Rest(F2, D2, Tail(T)), F2, D2, n)
  <2>1. n # 1 BY <1>13
  <2> QED BY <1>3, <1>14, <1>15, <1>16, <1>17, <1>18, <2>1 DEF Leaves
<1> QED BY <1>10, <1>13, <1>19

\* A page is handed to a child.
Gives(F, D, s, G, E, G2, E2) ==
  \/ s[1] = "givefd" /\ G2 = [G EXCEPT ![s[3]] = F[s[2]]] /\ E2 = E
  \/ s[1] = "givedata" /\ G2 = G /\ E2 = [E EXCEPT ![s[3]] = D[s[2]]]

\* What Rest leaves out while pages are handed over the parent does not have.
LEMMA NotGiven ==
  ASSUME NEW F \in Descs, NEW D \in Windows, Backed(F, D), NEW d \in Fd,
         ~Moves(F, D, share[d + 1]) \/ ~Moves(F, D, share[d + 5])
  PROVE  F[d] = NULL
<1>1. share[d + 1] = <<"givefd", d, d>> /\ share[d + 5] = <<"givedata", d, d>>
  BY ShareIs
<1> DEFINE a == share[d + 1]
           b == share[d + 5]
<1>2. a[1] = "givefd" /\ a[2] = d /\ b[1] = "givedata" /\ b[2] = d
  BY <1>1
<1>3. ~Moves(F, D, a) \/ ~Moves(F, D, b)
  OBVIOUS
<1> HIDE DEF a, b
<1>4. F[d] = NULL \/ D[d] = 0
  BY <1>2, <1>3 DEF Moves
<1>5. F[d] # NULL => F[d] \in End /\ D[d] = F[d][2]
  BY DEF Backed, Descs
<1> QED BY <1>4, <1>5, Ends

\* fork and spawn hand over pages, from one step to the next.
LEMMA SharesStep ==
  ASSUME NEW F \in Descs, NEW D \in Windows, NEW G \in Descs, NEW E \in Windows, NEW T, NEW k \in 1..9,
         Shares(T, F, G, E, k), T # <<>>, Backed(F, D)
  PROVE  /\ Head(T) \in Step /\ Head(T)[1] \in {"givefd", "givedata"}
         /\ \A G2, E2 : Gives(F, D, Head(T), G, E, G2, E2) =>
              /\ G2 \in Descs /\ E2 \in Windows
              /\ \E n \in 1..9 : Shares(Rest(F, D, Tail(T)), F, G2, E2, n)
<1>1. share \in Seq(Step) /\ Len(share) = 8
  BY ShareIs
<1>2. T = From(share, k) /\ k \in 1..(Len(share) + 1)
  BY DEF Shares, At
<1>3. k <= Len(share) /\ Head(T) = share[k] /\ share[k] \in Step
  BY <1>1, <1>2, StepDone
<1>4. PICK n \in (k + 1)..(Len(share) + 1) :
        /\ Rest(F, D, Tail(T)) = From(share, n)
        /\ \A i \in (k + 1)..(n - 1) : ~Moves(F, D, share[i])
  BY <1>1, <1>2, StepDone
<1>5. k \in 1..8 /\ n \in 2..9 /\ k < n
  BY <1>1, <1>3, <1>4
<1> DEFINE s == share[k]
           c == IF k <= 4 THEN k - 1 ELSE k - 5
<1>6. /\ c \in Fd /\ s[2] = c /\ s[3] = c
      /\ k <= 4 => s[1] = "givefd" /\ k = c + 1
      /\ k > 4 => s[1] = "givedata" /\ k = c + 5
  <2>1. CASE k <= 4
    <3>1. k - 1 \in Fd /\ c = k - 1 /\ (k - 1) + 1 = k BY <1>5, <2>1 DEF Fd
    <3>2. s = <<"givefd", k - 1, k - 1>> BY <3>1, ShareIs
    <3> QED BY <2>1, <3>1, <3>2
  <2>2. CASE k > 4
    <3>1. k - 5 \in Fd /\ c = k - 5 /\ (k - 5) + 5 = k BY <1>5, <2>2 DEF Fd
    <3>2. s = <<"givedata", k - 5, k - 5>> BY <3>1, ShareIs
    <3> QED BY <1>5, <2>2, <3>1, <3>2
  <2> QED BY <1>5, <2>1, <2>2
<1>7. s[1] \in {"givefd", "givedata"}
  BY <1>5, <1>6
<1>8. \A d \in Fd : (k < d + 1 /\ d + 1 < n) \/ (k < d + 5 /\ d + 5 < n) => F[d] = NULL
  <2> TAKE d \in Fd
  <2> HAVE (k < d + 1 /\ d + 1 < n) \/ (k < d + 5 /\ d + 5 < n)
  <2>1. ~Moves(F, D, share[d + 1]) \/ ~Moves(F, D, share[d + 5]) BY <1>4, <1>5 DEF Fd
  <2> QED BY <2>1, NotGiven
<1>9. \A d \in Fd : /\ G[d] = IF d + 1 < k THEN F[d] ELSE NULL
                    /\ d + 5 < k /\ G[d] # NULL => E[d] = G[d][2]
  BY DEF Shares
<1> HIDE DEF s, c
<1>10. ASSUME NEW G2, NEW E2, Gives(F, D, s, G, E, G2, E2)
       PROVE  G2 \in Descs /\ E2 \in Windows /\ Shares(Rest(F, D, Tail(T)), F, G2, E2, n)
  <2>1. CASE k <= 4
    <3>1. G2 = [G EXCEPT ![c] = F[c]] /\ E2 = E BY <1>6, <1>10, <2>1 DEF Gives
    <3>2. G2 \in Descs /\ E2 \in Windows BY <1>6, <3>1 DEF Descs
    <3>3. G2[c] = F[c] /\ \A d \in Fd : d # c => G2[d] = G[d] BY <1>6, <3>1 DEF Descs
    <3>4. ASSUME NEW d \in Fd
          PROVE  /\ G2[d] = IF d + 1 < n THEN F[d] ELSE NULL
                 /\ d + 5 < n /\ G2[d] # NULL => E2[d] = G2[d][2]
      <4>1. G2[d] = IF d + 1 < n THEN F[d] ELSE NULL
        <5>1. CASE d = c BY <1>5, <1>6, <2>1, <3>3, <5>1 DEF Fd
        <5>2. CASE d # c
          <6>1. G2[d] = IF d + 1 < k THEN F[d] ELSE NULL BY <1>9, <3>3, <5>2
          <6>2. d + 1 # k BY <1>5, <1>6, <2>1, <5>2 DEF Fd
          <6> QED BY <1>5, <1>8, <6>1, <6>2 DEF Fd
        <5> QED BY <5>1, <5>2
      <4>2. d + 5 < n => G2[d] = NULL BY <1>5, <1>8, <2>1, <4>1 DEF Fd
      <4> QED BY <4>1, <4>2
    <3> QED BY <1>1, <1>4, <1>5, <3>2, <3>4 DEF Shares, At
  <2>2. CASE k > 4
    <3>1. G2 = G /\ E2 = [E EXCEPT ![c] = D[c]] BY <1>6, <1>10, <2>2 DEF Gives
    <3>2. G2 \in Descs /\ E2 \in Windows BY <1>6, <3>1 DEF Windows
    <3>3. E2[c] = D[c] /\ \A d \in Fd : d # c => E2[d] = E[d] BY <1>6, <3>1 DEF Windows
    <3>4. ASSUME NEW d \in Fd
          PROVE  /\ G2[d] = IF d + 1 < n THEN F[d] ELSE NULL
                 /\ d + 5 < n /\ G2[d] # NULL => E2[d] = G2[d][2]
      <4>1. G2[d] = IF d + 1 < n THEN F[d] ELSE NULL
        <5>1. d + 1 # k \/ d + 1 < k BY <1>5, <2>2 DEF Fd
        <5> QED BY <1>5, <1>8, <1>9, <2>2, <3>1, <5>1 DEF Fd
      <4>2. d + 5 < n /\ G2[d] # NULL => E2[d] = G2[d][2]
        <5> HAVE d + 5 < n /\ G2[d] # NULL
        <5>1. G2[d] = F[d] /\ F[d] # NULL /\ D[d] = F[d][2] BY <1>5, <4>1 DEF Fd, Backed
        <5>2. ~(k < d + 5) BY <1>8, <5>1
        <5>3. CASE d = c BY <3>3, <5>1, <5>3
        <5>4. CASE d # c
          <6>1. d + 5 < k BY <1>5, <1>6, <2>2, <5>2, <5>4 DEF Fd
          <6> QED BY <1>9, <3>1, <3>3, <5>4, <6>1
        <5> QED BY <5>3, <5>4
      <4> QED BY <4>1, <4>2
    <3> QED BY <1>1, <1>4, <1>5, <3>2, <3>4 DEF Shares, At
  <2> QED BY <1>5, <2>1, <2>2
<1>11. n \in 1..9
  BY <1>5
<1> QED BY <1>3, <1>7, <1>10, <1>11 DEF s

\* fork and spawn begin with a child that has nothing, and when they are done it has
\* what its parent has.
LEMMA SharesStart ==
  ASSUME NEW F \in Descs, NEW D \in Windows, Backed(F, D), NEW G, NEW E, G = NoFd
  PROVE  \E n \in 1..9 : Shares(Rest(F, D, share), F, G, E, n)
<1>1. share \in Seq(Step) /\ Len(share) = 8
  BY ShareIs
<1>2. PICK n \in 1..(Len(share) + 1) :
        Rest(F, D, share) = From(share, n) /\ \A i \in 1..(n - 1) : ~Moves(F, D, share[i])
  BY <1>1, RestIs
<1>3. ASSUME NEW d \in Fd
      PROVE  G[d] = NULL /\ G[d] = IF d + 1 < n THEN F[d] ELSE NULL
  <2>1. G[d] = NULL BY DEF NoFd
  <2>2. d + 1 < n => F[d] = NULL
    <3> HAVE d + 1 < n
    <3>1. ~Moves(F, D, share[d + 1]) BY <1>1, <1>2 DEF Fd
    <3> QED BY <3>1, NotGiven
  <2> QED BY <2>1, <2>2
<1> QED BY <1>1, <1>2, <1>3 DEF Shares, At

\* A child that was handed all pages has what its parent has.
LEMMA SharesEnd ==
  ASSUME NEW F \in Descs, NEW G \in Descs, NEW E, NEW T, NEW k \in 1..9, Shares(T, F, G, E, k), T = <<>>
  PROVE  G = F /\ Backed(G, E)
<1>1. share \in Seq(Step) /\ Len(share) = 8
  BY ShareIs
<1>2. k = 9
  <2>1. From(share, k) = <<>> /\ k \in 1..(Len(share) + 1) BY DEF Shares, At
  <2>2. k = Len(share) + 1 BY <1>1, <2>1, FromIs
  <2> QED BY <1>1, <2>2
<1>3. \A d \in Fd : G[d] = F[d] /\ (G[d] # NULL => E[d] = G[d][2])
  BY <1>2 DEF Shares, Fd
<1> QED BY <1>3 DEF Backed, Descs

\* The right side of a bar begins with what the left side has.
LEMMA JoinsStart ==
  ASSUME NEW i, NEW F \in Descs, NEW D \in Windows, Backed(F, D),
         Has(F, End, {}, {R(i - 1)}, {W(i - 1)})
  PROVE  \E n \in 1..9 : Joins(i, Rest(F, D, RightEnd), F, D, n)
<1> DEFINE L == RightEnd
<1>1. L \in Seq(Step) /\ Len(L) = 8 /\ Pairs(L)
  BY RightEndIs, AllPairs
<1>2. PICK n \in 1..9 :
        Closes(Rest(F, D, L), F, L, n) /\ \A j \in 1..(n - 1) : ~Moves(F, D, L[j])
  BY <1>1, ClosesStart
<1>3. /\ 1 < n => F[0] = NULL
      /\ 3 < n => D[2] = 0
      /\ 5 < n => F[2] = NULL
      /\ 7 < n => F[3] = NULL
  <2>1. 1 < n => ~Moves(F, D, L[1]) BY <1>2
  <2>2. 3 < n => ~Moves(F, D, L[3]) BY <1>2
  <2>3. 5 < n => ~Moves(F, D, L[5]) BY <1>2
  <2>4. 7 < n => ~Moves(F, D, L[7]) BY <1>2
  <2>5. /\ L[1] = <<"fd-", 0, 0>> /\ L[3] = <<"data+", 2, 0>>
        /\ L[5] = <<"fd-", 2, 2>> /\ L[7] = <<"fd-", 3, 3>>
    BY RightEndIs
  <2> HIDE DEF L
  <2> QED BY <2>1, <2>2, <2>3, <2>4, <2>5 DEF Moves
<1>4. D[2] = 0 => F[2] = NULL
  <2>1. F[2] # NULL => F[2] \in End /\ D[2] = F[2][2] BY DEF Backed, Descs, Fd
  <2> QED BY <2>1, Ends
<1>5. Has(F, IF n = 1 THEN End ELSE {R(i - 1)}, {}, {R(i - 1)}, {W(i - 1)})
  BY <1>3 DEF Has
<1> QED BY <1>2, <1>3, <1>4, <1>5 DEF Joins

\* The left side begins.
LEMMA LeavesStart ==
  ASSUME NEW i, NEW F \in Descs, NEW D \in Windows, Backed(F, D),
         Has(F, {R(i - 1)}, {}, {R(i)}, {W(i)})
  PROVE  \E n \in 1..9 : Leaves(i, Rest(F, D, LeftEnd), F, D, n)
<1> DEFINE L == LeftEnd
<1>1. L \in Seq(Step) /\ Len(L) = 8 /\ Pairs(L)
  BY LeftEndIs, AllPairs
<1>2. PICK n \in 1..9 :
        Closes(Rest(F, D, L), F, L, n) /\ \A j \in 1..(n - 1) : ~Moves(F, D, L[j])
  BY <1>1, ClosesStart
<1>3. /\ 3 < n => D[3] = 0
      /\ 5 < n => F[3] = NULL
      /\ 7 < n => F[2] = NULL
  <2>2. 3 < n => ~Moves(F, D, L[3]) BY <1>2
  <2>3. 5 < n => ~Moves(F, D, L[5]) BY <1>2
  <2>4. 7 < n => ~Moves(F, D, L[7]) BY <1>2
  <2>5. L[3] = <<"data+", 3, 1>> /\ L[5] = <<"fd-", 3, 3>> /\ L[7] = <<"fd-", 2, 2>>
    BY LeftEndIs
  <2> HIDE DEF L
  <2> QED BY <2>2, <2>3, <2>4, <2>5 DEF Moves
<1>4. D[3] = 0 => F[3] = NULL
  <2>1. F[3] # NULL => F[3] \in End /\ D[3] = F[3][2] BY DEF Backed, Descs, Fd
  <2> QED BY <2>1, Ends
<1>5. F[1] = NULL /\ Has(F, {R(i - 1)}, {W(i)}, {R(i)}, {W(i)})
  BY DEF Has
<1> QED BY <1>2, <1>3, <1>4, <1>5 DEF Leaves

\* Closing everything begins.
LEMMA CloseAllStart ==
  ASSUME NEW F, NEW D
  PROVE  \E n \in 1..9 : Closes(Rest(F, D, close_all), F, close_all, n)
<1>1. close_all \in Seq(Step) /\ Len(close_all) = 8 /\ Pairs(close_all)
  BY CloseAllIs, AllPairs
<1> QED BY <1>1, ClosesStart

\* A redirection starts to close.
LEMMA RedirectStart ==
  ASSUME NEW F, NEW D, NEW d \in {0, 1}
  PROVE  \E n \in 1..3 : Closes(Rest(F, D, close(d)), F, close(d), n)
<1>0. d \in Fd
  BY DEF Fd
<1>1. close(d) \in Seq(Step) /\ Len(close(d)) = 2 /\ Pairs(close(d))
  BY <1>0, CloseIs, AllPairs
<1> QED BY <1>1, ClosesStart

\* A parser that has done its steps has at most the read end of the pipe to its left,
LEMMA ParseEnd ==
  ASSUME NEW i, NEW F, NEW D, NEW G, NEW E, ShFits(i, "parse", <<>>, F, D, G, E)
  PROVE  Has(F, {R(i - 1)}, {}, {}, {})
<1>1. ASSUME NEW k \in 1..9, Joins(i, <<>>, F, D, k) PROVE Has(F, {R(i - 1)}, {}, {}, {})
  <2>1. k = 9
    <3>1. Closes(<<>>, F, RightEnd, k) BY <1>1 DEF Joins
    <3>2. k = Len(RightEnd) + 1 BY <3>1, RightEndIs, ClosesEnd, Zenon
    <3> QED BY <3>2, RightEndIs
  <2> QED BY <1>1, <2>1 DEF Joins, Has
<1> QED BY <1>1 DEF ShFits

\* and one that has left a bar behind has the write end of the next pipe too.
LEMMA LeftIsDone ==
  ASSUME NEW i, NEW F, NEW D, NEW G, NEW E, NEW l \in {"parse", "left"}, ShFits(i, l, <<>>, F, D, G, E)
  PROVE  Has(F, {R(i - 1)}, {W(i)}, {}, {})
<1>1. CASE l = "parse"
  BY <1>1, ParseEnd DEF Has
<1>2. CASE l = "left"
  <2>1. PICK k \in 1..9 : Leaves(i, <<>>, F, D, k) BY <1>2 DEF ShFits
  <2>2. k = 9
    <3>1. Closes(<<>>, F, LeftEnd, k) BY <2>1 DEF Leaves
    <3>2. k = Len(LeftEnd) + 1 BY <3>1, LeftEndIs, ClosesEnd, Zenon
    <3> QED BY <3>2, LeftEndIs
  <2> QED BY <2>1, <2>2 DEF Leaves, Has
<1> QED BY <1>1, <1>2
-----------------------------------------------------------------------------
(* Steps of envs.                                                          *)

Types == todo \in [Proc -> Seq(Step)] /\ fd \in [Proc -> Descs] /\ data \in [Proc -> Windows]

Making(i) == pc[Sh(i)] \in {"fork", "spawn"}

\* Who is being made, and by whom.
LEMMA ChildIs ==
  ASSUME LineInv, NEW i \in Command
  PROVE  /\ pc[Sh(i)] = "fork" => Child(Sh(i)) = Sh(i + 1) /\ i + 1 \in Command /\ pc[Sh(i + 1)] = "off"
         /\ pc[Sh(i)] # "fork" => Child(Sh(i)) = Prog(i)
         /\ pc[Sh(i)] = "spawn" => pc[Prog(i)] = "off"
BY Procs, Neighbours DEF LineInv, LineAt, Child

\* An env that is there is not being made.
LEMMA NotMade ==
  ASSUME LineInv, NEW p \in Proc, pc[p] # "off"
  PROVE  ~Made(p)
BY ChildIs DEF Made

\* Who makes nobody has no child that is being made.
LEMMA ChildNotMade ==
  ASSUME LineInv, NEW i \in Command, ~Making(i)
  PROVE  ~Made(Prog(i)) /\ ~Made(Sh(i + 1))
BY ChildIs, Procs, Neighbours DEF Made, Making

\* The envs of P change, and with an env that makes another that other one.
Frame(P) ==
  /\ P \subseteq Proc /\ Types'
  /\ \A p \in Proc \ P :
       pc'[p] = pc[p] /\ todo'[p] = todo[p] /\ fd'[p] = fd[p] /\ data'[p] = data[p]
  /\ \A i \in Command : Making(i) => (Sh(i) \in P <=> Child(Sh(i)) \in P)
  /\ \A i \in Command : (Sh(i) \in P => ShHas(i)') /\ (Prog(i) \in P => ProgHas(i)')
  /\ \A p \in P : Outside(p)'

\* Only envs that make another depend on it.
LEMMA ShFitsAlone ==
  ASSUME NEW i, NEW l, NEW T, NEW F, NEW D, NEW G, NEW E, NEW G2, NEW E2,
         ShFits(i, l, T, F, D, G, E), l \notin {"fork", "spawn"}
  PROVE  ShFits(i, l, T, F, D, G2, E2)
BY DEF ShFits

\* What the step says of the envs of P is then enough.
LEMMA FrameKeeps ==
  ASSUME LineInv, EndsInv, NEW P, Frame(P)
  PROVE  EndsInv'
<1>1. ASSUME NEW i \in Command, Sh(i) \notin P PROVE ShHas(i)'
  <2> DEFINE p == Sh(i)
             q == Child(p)
  <2>1. p \in Proc \ P
    BY <1>1, Procs
  <2>2. pc'[p] = pc[p] /\ todo'[p] = todo[p] /\ fd'[p] = fd[p] /\ data'[p] = data[p]
    BY <2>1 DEF Frame
  <2>3. q' = q
    BY <2>2 DEF Child
  <2>4. ShFits(i, pc[p], todo[p], fd[p], data[p], fd[q], data[q])
    BY DEF EndsInv, ShHas
  <2>5. ShFits(i, pc'[p], todo'[p], fd'[p], data'[p], fd'[q], data'[q])
    <3>1. CASE Making(i)
      <4>1. q \in Proc \ P BY <1>1, <3>1, Procs, ChildIs DEF Frame, Making
      <4>2. fd'[q] = fd[q] /\ data'[q] = data[q] BY <4>1 DEF Frame
      <4> QED BY <2>2, <2>4, <4>2
    <3>2. CASE ~Making(i)
      <4>1. pc[p] \notin {"fork", "spawn"} BY <3>2 DEF Making
      <4> HIDE DEF p, q
      <4>2. ShFits(i, pc[p], todo[p], fd[p], data[p], fd'[q], data'[q]) BY <2>4, <4>1, ShFitsAlone
      <4> QED BY <2>2, <4>2
    <3> QED BY <3>1, <3>2
  <2> QED BY <2>3, <2>5 DEF ShHas
<1>2. ASSUME NEW i \in Command, Prog(i) \notin P PROVE ProgHas(i)'
  <2>1. Prog(i) \in Proc \ P
    BY <1>2, Procs
  <2> QED BY <2>1 DEF Frame, EndsInv, ProgHas
<1>3. ASSUME NEW p \in Proc, p \notin P PROVE Outside(p)'
  <2>1. pc'[p] = pc[p] /\ todo'[p] = todo[p] /\ fd'[p] = fd[p] /\ data'[p] = data[p]
    BY <1>3 DEF Frame
  <2>2. Made(p) => Made(p)'
    <3> HAVE Made(p)
    <3>1. PICK i \in Command : Making(i) /\ p = Child(Sh(i)) BY DEF Made, Making
    <3>2. Sh(i) \in Proc \ P BY <1>3, <3>1, Procs DEF Frame
    <3>3. pc'[Sh(i)] = pc[Sh(i)] BY <3>2 DEF Frame
    <3>4. Child(Sh(i))' = Child(Sh(i)) BY <3>3 DEF Child
    <3> QED BY <3>1, <3>3, <3>4 DEF Made, Making
  <2>3. Outside(p)
    BY DEF EndsInv
  <2> QED BY <2>1, <2>2, <2>3 DEF Outside
<1>4. Types'
  BY DEF Frame
<1>5. \A i \in Command : ShHas(i)' /\ ProgHas(i)'
  BY <1>1, <1>2 DEF Frame
<1>6. \A p \in Proc : Outside(p)'
  BY <1>3 DEF Frame
<1> QED BY <1>4, <1>5, <1>6 DEF EndsInv, Types, Descs, Windows

\* p is at l afterwards, has the steps T to do, the ends F and the windows D.
Own(p, l, T, F, D) ==
  /\ pc' = [pc EXCEPT ![p] = l] /\ todo' = [todo EXCEPT ![p] = T]
  /\ fd' = [fd EXCEPT ![p] = F] /\ data' = [data EXCEPT ![p] = D]
  /\ T \in Seq(Step) /\ F \in Descs /\ D \in Windows
  /\ Backed(F, D) /\ (l = "off" => T = <<>> /\ F = NoFd)

\* The step of one env, read off.
LEMMA OwnIs ==
  ASSUME LineInv, EndsInv, NEW p \in Proc, NEW l, NEW T, NEW F, NEW D, Own(p, l, T, F, D)
  PROVE  /\ pc'[p] = l /\ todo'[p] = T /\ fd'[p] = F /\ data'[p] = D /\ Types' /\ Outside(p)'
         /\ \A q \in Proc \ {p} :
              pc'[q] = pc[q] /\ todo'[q] = todo[q] /\ fd'[q] = fd[q] /\ data'[q] = data[q]
<1>1. pc'[p] = l /\ todo'[p] = T /\ fd'[p] = F /\ data'[p] = D
  BY DEF Own, LineInv, EndsInv
<1>2. \A q \in Proc \ {p} :
        pc'[q] = pc[q] /\ todo'[q] = todo[q] /\ fd'[q] = fd[q] /\ data'[q] = data[q]
  BY DEF Own, LineInv, EndsInv
<1>3. Types'
  BY DEF Own, EndsInv, Types, Descs, Windows
<1>4. Outside(p)'
  BY <1>1 DEF Outside, Own
<1> QED BY <1>1, <1>2, <1>3, <1>4

\* A step of an env of sh.c that makes no other.
LEMMA ShOwn ==
  ASSUME LineInv, EndsInv, NEW i \in Command, ~Making(i), ~Made(Sh(i)),
         NEW l, NEW T, NEW F, NEW D, Own(Sh(i), l, T, F, D),
         l = "fork" => i < N /\ pc[Sh(i)] = "parse",
         l = "spawn" => pc[Sh(i)] \in {"parse", "left"},
         \A G, E : (l \in {"fork", "spawn"} => G = NoFd) => ShFits(i, l, T, F, D, G, E)
  PROVE  EndsInv'
<1> DEFINE p == Sh(i)
<1>1. p \in Proc
  BY Procs
<1>2. /\ pc'[p] = l /\ todo'[p] = T /\ fd'[p] = F /\ data'[p] = D /\ Types' /\ Outside(p)'
      /\ \A q \in Proc \ {p} :
           pc'[q] = pc[q] /\ todo'[q] = todo[q] /\ fd'[q] = fd[q] /\ data'[q] = data[q]
  BY <1>1, OwnIs
<1> DEFINE c == IF l = "fork" THEN Sh(i + 1) ELSE Prog(i)
<1>3. Child(p)' = c
  BY <1>2, Procs DEF Child
<1>4. l \in {"fork", "spawn"} => fd'[c] = NoFd
  <2> HAVE l \in {"fork", "spawn"}
  <2>1. c \in Proc \ {p} /\ pc[c] = "off"
    BY Procs, Neighbours DEF LineInv, LineAt
  <2>2. ~Made(c)
    BY ChildNotMade
  <2>3. fd[c] = NoFd
    BY <2>1, <2>2 DEF EndsInv, Outside
  <2> QED BY <1>2, <2>1, <2>3
<1>5. ShFits(i, l, T, F, D, fd'[c], data'[c])
  BY <1>4
<1>6. ShHas(i)'
  BY <1>2, <1>3, <1>5 DEF ShHas
<1>7. Frame({p})
  <2>1. \A j \in Command : Making(j) => (Sh(j) \in {p} <=> Child(Sh(j)) \in {p})
    <3> TAKE j \in Command
    <3> HAVE Making(j)
    <3>1. Sh(j) # p BY Procs
    <3>2. Child(Sh(j)) # p BY DEF Made, Making
    <3> QED BY <3>1, <3>2
  <2>2. \A j \in Command : (Sh(j) \in {p} => ShHas(j)') /\ (Prog(j) \in {p} => ProgHas(j)')
    BY <1>6, Procs
  <2> QED BY <1>1, <1>2, <2>1, <2>2 DEF Frame
<1> QED BY <1>7, FrameKeeps

\* A step of a program.
LEMMA ProgOwn ==
  ASSUME LineInv, EndsInv, NEW i \in Command, ~Made(Prog(i)),
         NEW l, NEW T, NEW F, NEW D, Own(Prog(i), l, T, F, D), ProgFits(i, l, T, F)
  PROVE  EndsInv'
<1> DEFINE p == Prog(i)
<1>1. p \in Proc
  BY Procs
<1>2. /\ pc'[p] = l /\ todo'[p] = T /\ fd'[p] = F /\ data'[p] = D /\ Types' /\ Outside(p)'
      /\ \A q \in Proc \ {p} :
           pc'[q] = pc[q] /\ todo'[q] = todo[q] /\ fd'[q] = fd[q] /\ data'[q] = data[q]
  BY <1>1, OwnIs
<1>3. ProgHas(i)'
  BY <1>2 DEF ProgHas
<1>4. Frame({p})
  <2>1. \A j \in Command : Making(j) => (Sh(j) \in {p} <=> Child(Sh(j)) \in {p})
    BY Procs DEF Made, Making
  <2>2. \A j \in Command : (Sh(j) \in {p} => ShHas(j)') /\ (Prog(j) \in {p} => ProgHas(j)')
    BY <1>3, Procs
  <2> QED BY <1>1, <1>2, <2>1, <2>2 DEF Frame
<1> QED BY <1>4, FrameKeeps

\* What is known of an env that is there.
LEMMA ProcIs ==
  ASSUME LineInv, EndsInv, NEW p \in Proc
  PROVE  /\ todo[p] \in Seq(Step) /\ fd[p] \in Descs /\ data[p] \in Windows
         /\ pc[p] # "off" => ~Made(p) /\ Backed(fd[p], data[p])
         /\ todo[p] # <<>> => pc[p] # "off"
<1>1. todo[p] \in Seq(Step) /\ fd[p] \in Descs /\ data[p] \in Windows
  BY DEF EndsInv, Descs, Windows
<1>2. pc[p] # "off" => ~Made(p)
  BY NotMade
<1>3. Outside(p)
  BY DEF EndsInv
<1> QED BY <1>1, <1>2, <1>3 DEF Outside

\* What is left of a list is a list.
LEMMA RestSteps ==
  ASSUME NEW F, NEW D, NEW L \in Seq(Step)
  PROVE  Rest(F, D, L) \in Seq(Step)
BY RestIs, FromIs

\* An env goes on with a new list.
LEMMA GotoIs ==
  ASSUME LineInv, EndsInv, NEW p \in Proc, pc[p] # "off", NEW l, l # "off", NEW ss \in Seq(Step),
         Goto(p, l, ss), UNCHANGED maps
  PROVE  Own(p, l, Rest(fd[p], data[p], ss), fd[p], data[p])
<1>1. fd' = fd /\ data' = data
  BY DEF maps
<1>2. fd' = [fd EXCEPT ![p] = fd[p]] /\ data' = [data EXCEPT ![p] = data[p]]
  BY <1>1 DEF EndsInv
<1>3. todo' = [todo EXCEPT ![p] = Rest(fd[p], data[p], ss)] /\ pc' = [pc EXCEPT ![p] = l]
  BY <1>1 DEF Goto
<1> QED BY <1>2, <1>3, ProcIs, RestSteps DEF Own

\* An env of sh.c closes everything, and waits or exits.
LEMMA ShCloses ==
  ASSUME LineInv, EndsInv, NEW i \in Command, pc[Sh(i)] \notin {"off", "fork", "spawn"},
         NEW l \in {"wait", "exit"}, Goto(Sh(i), l, close_all), UNCHANGED maps
  PROVE  EndsInv'
<1> DEFINE p == Sh(i)
           T == Rest(fd[p], data[p], close_all)
           F == fd[p]
           D == data[p]
<1>0. p \in Proc
  BY Procs
<1>1. Own(p, l, T, F, D)
  BY <1>0, CloseAllIs, GotoIs
<1>2. \E k \in 1..9 : Closes(T, F, close_all, k)
  BY CloseAllStart
<1>3. ~Making(i) /\ ~Made(p)
  BY <1>0, NotMade DEF Making
<1> HIDE DEF T, F, D
<1>4. \A G, E : ShFits(i, l, T, F, D, G, E)
  BY <1>2 DEF ShFits
<1> QED BY <1>1, <1>3, <1>4, ShOwn

\* A redirection takes an end away.
LEMMA redirectEnds ==
  ASSUME LineInv, EndsInv, NEW i \in Command, NEW d \in {0, 1}, redirect(i, d)
  PROVE  EndsInv'
<1> DEFINE p == Sh(i)
           T == Rest(fd[p], data[p], close(d))
           F == fd[p]
           D == data[p]
<1>0. p \in Proc /\ d \in Fd
  BY Procs DEF Fd
<1>1. pc[p] = "parse" /\ todo[p] = <<>> /\ Goto(p, "parse", close(d)) /\ UNCHANGED maps
  BY DEF redirect, Goto
<1>2. Own(p, "parse", T, F, D)
  BY <1>0, <1>1, CloseIs, GotoIs
<1>3. \E k \in 1..3 : Closes(T, F, close(d), k)
  BY RedirectStart
<1>4. Has(F, {R(i - 1)}, {}, {}, {})
  BY <1>1, ParseEnd DEF EndsInv, ShHas
<1>5. ~Making(i) /\ ~Made(p)
  BY <1>0, <1>1, NotMade DEF Making
<1> HIDE DEF T, F, D
<1>6. \A G, E : ShFits(i, "parse", T, F, D, G, E)
  BY <1>3, <1>4 DEF ShFits
<1> QED BY <1>2, <1>5, <1>6, ShOwn

\* spawn starts to hand the pages over, or the env closes them.
LEMMA spawnEnds ==
  ASSUME LineInv, EndsInv, NEW i \in Command, spawn(i)
  PROVE  EndsInv'
<1> DEFINE p == Sh(i)
           T == Rest(fd[p], data[p], share)
           F == fd[p]
           D == data[p]
<1>0. p \in Proc
  BY Procs
<1>1. pc[p] \in {"parse", "left"} /\ UNCHANGED maps
  BY DEF spawn, Parsed
<1>2. CASE Goto(p, "wait", close_all)
  BY <1>1, <1>2, ShCloses
<1>3. CASE Goto(p, "spawn", share)
  <2>1. todo[p] = <<>> /\ Own(p, "spawn", T, F, D)
    BY <1>0, <1>1, <1>3, ShareIs, GotoIs DEF Goto
  <2>2. Has(F, {R(i - 1)}, {W(i)}, {}, {})
    <3>1. PICK l \in {"parse", "left"} : pc[p] = l BY <1>1
    <3>2. PICK G, E : ShFits(i, l, <<>>, F, D, G, E) BY <2>1, <3>1 DEF EndsInv, ShHas
    <3> QED BY <3>2, LeftIsDone
  <2>3. F \in Descs /\ D \in Windows /\ Backed(F, D)
    BY <2>1 DEF Own
  <2>4. ~Making(i) /\ ~Made(p)
    BY <1>0, <1>1, NotMade DEF Making
  <2>5. \A G, E : G = NoFd => \E k \in 1..9 : Shares(T, F, G, E, k)
    BY <2>3, SharesStart
  <2> HIDE DEF T, F, D
  <2>6. \A G, E : G = NoFd => ShFits(i, "spawn", T, F, D, G, E)
    BY <2>2, <2>5 DEF ShFits
  <2> QED BY <1>1, <2>1, <2>4, <2>6, ShOwn
<1> QED BY <1>2, <1>3 DEF spawn

\* pipe gives the env both ends, and fork makes a child or fails.
LEMMA forkEnds ==
  ASSUME LineInv, EndsInv, NEW i \in Command, fork(i)
  PROVE  EndsInv'
<1> DEFINE p == Sh(i)
           F == [fd[p] EXCEPT ![2] = R(i), ![3] = W(i)]
           D == [data[p] EXCEPT ![2] = i, ![3] = i]
<1>0. p \in Proc /\ i \in Pipe /\ 0 \in Fd /\ 1 \in Fd /\ 2 \in Fd /\ 3 \in Fd /\ i \in Command
  BY Procs, ShellAssumption DEF fork, Pipe, Command, Fd
<1>1. pc[p] = "parse" /\ i < N /\ todo[p] = <<>>
  BY DEF fork, Goto
<1>2. fd[p] \in Descs /\ data[p] \in Windows /\ Backed(fd[p], data[p]) /\ ~Made(p) /\ ~Making(i)
  BY <1>0, <1>1, ProcIs DEF Making
<1>3. R(i) \in End /\ W(i) \in End /\ R(i)[2] = i /\ W(i)[2] = i
  BY <1>0, Ends
<1>4. fd' = [fd EXCEPT ![p] = F] /\ data' = [data EXCEPT ![p] = D]
  BY <1>0 DEF fork, EndsInv
<1>5. F \in Descs /\ D \in Windows
  BY <1>0, <1>2, <1>3 DEF Descs, Windows
<1>6. /\ F[0] = fd[p][0] /\ F[1] = fd[p][1] /\ F[2] = R(i) /\ F[3] = W(i)
      /\ D[0] = data[p][0] /\ D[1] = data[p][1] /\ D[2] = i /\ D[3] = i
  BY <1>0, <1>2 DEF Descs, Windows
<1>7. Has(fd[p], {R(i - 1)}, {}, {}, {})
  BY <1>1, ParseEnd DEF EndsInv, ShHas
<1>8. fd'[p] = F /\ data'[p] = D
  BY <1>0, <1>4 DEF EndsInv
<1> HIDE DEF F, D
<1>9. Backed(F, D)
  BY <1>0, <1>2, <1>3, <1>6 DEF Backed, Fd
<1>10. Has(F, {R(i - 1)}, {}, {R(i)}, {W(i)})
  BY <1>6, <1>7 DEF Has
<1>11. CASE Goto(p, "fork", share)
  <2> DEFINE T == Rest(F, D, share)
  <2>1. pc' = [pc EXCEPT ![p] = "fork"] /\ todo' = [todo EXCEPT ![p] = T]
    BY <1>8, <1>11 DEF Goto
  <2>2. Own(p, "fork", T, F, D)
    BY <1>4, <1>5, <1>9, <2>1, ShareIs, RestSteps DEF Own
  <2>3. \A G, E : G = NoFd => \E k \in 1..9 : Shares(T, F, G, E, k)
    BY <1>5, <1>9, SharesStart
  <2> HIDE DEF T
  <2>4. \A G, E : G = NoFd => ShFits(i, "fork", T, F, D, G, E)
    BY <1>10, <2>3 DEF ShFits
  <2> QED BY <1>1, <1>2, <2>2, <2>4, ShOwn
<1>12. CASE Goto(p, "left", LeftEnd)
  <2> DEFINE T == Rest(F, D, LeftEnd)
  <2>1. pc' = [pc EXCEPT ![p] = "left"] /\ todo' = [todo EXCEPT ![p] = T]
    BY <1>8, <1>12 DEF Goto
  <2>2. Own(p, "left", T, F, D)
    BY <1>4, <1>5, <1>9, <2>1, LeftEndIs, RestSteps DEF Own
  <2>3. \E k \in 1..9 : Leaves(i, T, F, D, k)
    BY <1>5, <1>9, <1>10, LeavesStart
  <2> HIDE DEF T
  <2>4. \A G, E : ShFits(i, "left", T, F, D, G, E)
    BY <2>3 DEF ShFits
  <2> QED BY <1>2, <2>2, <2>4, ShOwn
<1> QED BY <1>11, <1>12 DEF fork

\* An env that is not there, or only being made, has nothing to do.
LEMMA OffFits ==
  /\ \A i, T, F, D, G, E : ShFits(i, "off", T, F, D, G, E)
  /\ \A i, T, F : ProgFits(i, "off", T, F)
BY DEF ShFits, ProgFits

\* An env that makes another, and the other one.
LEMMA PairFrame ==
  ASSUME LineInv, NEW i \in Command, Making(i)
  PROVE  /\ Sh(i) \in Proc /\ Child(Sh(i)) \in Proc /\ pc[Child(Sh(i))] = "off" /\ Sh(i) # Child(Sh(i))
         /\ \A j \in Command : Making(j) =>
              (Sh(j) \in {Sh(i), Child(Sh(i))} <=> Child(Sh(j)) \in {Sh(i), Child(Sh(i))})
<1> DEFINE p == Sh(i)
           q == Child(p)
<1>1. p \in Proc /\ q \in Proc /\ pc[q] = "off" /\ pc[p] # "off"
  BY Procs, ChildIs DEF Making
<1>2. ASSUME NEW j \in Command, Making(j)
      PROVE  (Sh(j) \in {p, q} <=> Child(Sh(j)) \in {p, q})
  <2>1. CASE j = i
    BY <2>1
  <2>2. CASE j # i
    <3>1. Sh(j) # p BY <2>2, Procs
    <3>2. Sh(j) # q BY <1>1, <1>2 DEF Making
    <3>3. Child(Sh(j)) # p BY <1>1, <1>2, NotMade DEF Made, Making
    <3>4. Child(Sh(j)) # q
      <4>1. \/ pc[Sh(i)] = "fork" /\ q = Sh(i + 1)
            \/ pc[Sh(i)] = "spawn" /\ q = Prog(i)
        BY ChildIs DEF Making
      <4>2. \/ pc[Sh(j)] = "fork" /\ Child(Sh(j)) = Sh(j + 1)
            \/ pc[Sh(j)] = "spawn" /\ Child(Sh(j)) = Prog(j)
        BY <1>2, ChildIs DEF Making
      <4>3. i + 1 = j + 1 => i = j BY Neighbours
      <4> QED BY <2>2, <4>1, <4>2, <4>3, Procs
    <3> QED BY <3>1, <3>2, <3>3, <3>4
  <2> QED BY <2>1, <2>2
<1> QED BY <1>1, <1>2

\* fork and spawn are done when the child has what its parent has.
LEMMA Handed ==
  ASSUME LineInv, EndsInv, NEW i \in Command, Making(i), todo[Sh(i)] = <<>>
  PROVE  /\ fd[Child(Sh(i))] = fd[Sh(i)]
         /\ Backed(fd[Child(Sh(i))], data[Child(Sh(i))])
         /\ pc[Sh(i)] = "fork" => Has(fd[Sh(i)], {R(i - 1)}, {}, {R(i)}, {W(i)})
         /\ pc[Sh(i)] = "spawn" => Has(fd[Sh(i)], {R(i - 1)}, {W(i)}, {}, {})
<1> DEFINE p == Sh(i)
           q == Child(p)
<1>1. p \in Proc /\ q \in Proc
  BY PairFrame
<1>2. fd[p] \in Descs /\ fd[q] \in Descs
  BY <1>1, ProcIs
<1>3. ShFits(i, pc[p], <<>>, fd[p], data[p], fd[q], data[q])
  BY DEF EndsInv, ShHas
<1>4. \E k \in 1..9 : Shares(<<>>, fd[p], fd[q], data[q], k)
  BY <1>3 DEF ShFits, Making
<1>5. /\ pc[p] = "fork" => Has(fd[p], {R(i - 1)}, {}, {R(i)}, {W(i)})
      /\ pc[p] = "spawn" => Has(fd[p], {R(i - 1)}, {W(i)}, {}, {})
  BY <1>3 DEF ShFits
<1> HIDE DEF p, q
<1>6. fd[q] = fd[p] /\ Backed(fd[q], data[q])
  BY <1>2, <1>4, SharesEnd
<1> QED BY <1>5, <1>6 DEF p, q

\* The child has what its parent has, and each goes on with its side of the bar.
LEMMA fork_doneEnds ==
  ASSUME LineInv, EndsInv, NEW i \in Command, fork_done(i)
  PROVE  EndsInv'
<1> DEFINE p == Sh(i)
           q == Sh(i + 1)
           S == Rest(fd[p], data[p], LeftEnd)
           T == Rest(fd[q], data[q], RightEnd)
<1>1. pc[p] = "fork" /\ todo[p] = <<>> /\ Making(i)
  BY DEF fork_done, Making
<1>2. Child(p) = q /\ i + 1 \in Command /\ i \in Nat
  BY <1>1, ChildIs, Neighbours
<1>3. /\ p \in Proc /\ q \in Proc /\ pc[q] = "off" /\ p # q
      /\ \A j \in Command : Making(j) => (Sh(j) \in {p, q} <=> Child(Sh(j)) \in {p, q})
  BY <1>1, <1>2, PairFrame
<1>4. fd[q] = fd[p] /\ Backed(fd[q], data[q]) /\ Has(fd[p], {R(i - 1)}, {}, {R(i)}, {W(i)})
  BY <1>1, <1>2, Handed
<1>5. /\ pc'[p] = "left" /\ pc'[q] = "parse" /\ todo'[p] = S /\ todo'[q] = T
      /\ fd' = fd /\ data' = data
      /\ \A r \in Proc \ {p, q} : pc'[r] = pc[r] /\ todo'[r] = todo[r]
  BY <1>3 DEF fork_done, maps, LineInv, EndsInv
<1>6. /\ fd[p] \in Descs /\ data[p] \in Windows /\ Backed(fd[p], data[p])
      /\ fd[q] \in Descs /\ data[q] \in Windows
  BY <1>1, <1>3, ProcIs
<1>7. S \in Seq(Step) /\ T \in Seq(Step)
  BY LeftEndIs, RightEndIs, RestSteps
<1>8. Types'
  <2>1. todo' = [todo EXCEPT ![p] = S, ![q] = T]
    BY DEF fork_done
  <2> HIDE DEF S, T, p, q
  <2> QED BY <1>3, <1>5, <1>7, <2>1 DEF EndsInv, Types, Descs, Windows
<1>9. \E k \in 1..9 : Leaves(i, S, fd[p], data[p], k)
  BY <1>4, <1>6, LeavesStart
<1>10. \E k \in 1..9 : Joins(i + 1, T, fd[q], data[q], k)
  <2>1. (i + 1) - 1 = i
    BY <1>2
  <2>2. Has(fd[q], End, {}, {R((i + 1) - 1)}, {W((i + 1) - 1)})
    BY <1>3, <1>4, <1>6, <2>1 DEF Has, Descs, Fd
  <2> QED BY <1>4, <1>6, <2>2, JoinsStart
<1> HIDE DEF S, T
<1>11. ShHas(i)' /\ ShHas(i + 1)'
  <2>1. \A G, E : ShFits(i, "left", S, fd[p], data[p], G, E)
    BY <1>9 DEF ShFits
  <2>2. \A G, E : ShFits(i + 1, "parse", T, fd[q], data[q], G, E)
    BY <1>10 DEF ShFits
  <2> QED BY <1>5, <2>1, <2>2 DEF ShHas
<1>12. Outside(p)' /\ Outside(q)'
  BY <1>4, <1>5, <1>6 DEF Outside
<1>13. Frame({p, q})
  <2>1. \A j \in Command : (Sh(j) \in {p, q} => ShHas(j)') /\ (Prog(j) \in {p, q} => ProgHas(j)')
    BY <1>2, <1>11, Procs
  <2> QED BY <1>3, <1>5, <1>8, <1>12, <2>1 DEF Frame
<1> QED BY <1>13, FrameKeeps

\* So does the program, or it has nothing.
LEMMA spawn_doneEnds ==
  ASSUME LineInv, EndsInv, NEW i \in Command, spawn_done(i)
  PROVE  EndsInv'
<1> DEFINE p == Sh(i)
           q == Prog(i)
           S == Rest(fd[p], data[p], close_all)
<1>1. pc[p] = "spawn" /\ todo[p] = <<>> /\ Making(i)
  BY DEF spawn_done, Making
<1>2. Child(p) = q
  BY <1>1, ChildIs
<1>3. /\ p \in Proc /\ q \in Proc /\ pc[q] = "off" /\ p # q
      /\ \A j \in Command : Making(j) => (Sh(j) \in {p, q} <=> Child(Sh(j)) \in {p, q})
  BY <1>1, <1>2, PairFrame
<1>4. fd[q] = fd[p] /\ Backed(fd[q], data[q]) /\ Has(fd[p], {R(i - 1)}, {W(i)}, {}, {})
  BY <1>1, <1>2, Handed
<1>5. /\ fd[p] \in Descs /\ data[p] \in Windows /\ Backed(fd[p], data[p])
      /\ fd[q] \in Descs /\ data[q] \in Windows
  BY <1>1, <1>3, ProcIs
<1>6. S \in Seq(Step) /\ \E k \in 1..9 : Closes(S, fd[p], close_all, k)
  BY CloseAllIs, RestSteps, CloseAllStart
<1>7. todo' = [todo EXCEPT ![p] = S] /\ todo[q] = <<>>
  BY <1>3 DEF spawn_done, EndsInv, Outside
<1> HIDE DEF S
<1>8. /\ todo'[p] = S /\ todo'[q] = <<>> /\ todo' \in [Proc -> Seq(Step)]
      /\ \A r \in Proc \ {p, q} : todo'[r] = todo[r]
  BY <1>3, <1>6, <1>7 DEF EndsInv
<1>9. ASSUME pc'[p] = "wait", fd'[p] = fd[p], data'[p] = data[p],
             \A r \in Proc \ {p, q} : pc'[r] = pc[r] /\ fd'[r] = fd[r] /\ data'[r] = data[r],
             fd' \in [Proc -> Descs], data' \in [Proc -> Windows],
             ProgFits(i, pc'[q], <<>>, fd'[q]), Backed(fd'[q], data'[q]),
             pc'[q] = "off" => fd'[q] = NoFd
      PROVE  EndsInv'
  <2>1. ShHas(i)'
    <3>1. \A G, E : ShFits(i, "wait", S, fd[p], data[p], G, E)
      BY <1>6 DEF ShFits
    <3> QED BY <1>8, <1>9, <3>1 DEF ShHas
  <2>2. ProgHas(i)'
    BY <1>8, <1>9 DEF ProgHas
  <2>3. Outside(p)' /\ Outside(q)'
    BY <1>5, <1>8, <1>9 DEF Outside
  <2>4. \A j \in Command : (Sh(j) \in {p, q} => ShHas(j)') /\ (Prog(j) \in {p, q} => ProgHas(j)')
    BY <2>1, <2>2, Procs
  <2>5. Frame({p, q})
    BY <1>3, <1>8, <1>9, <2>3, <2>4 DEF Frame, Types
  <2> QED BY <2>5, FrameKeeps
<1>10. CASE pc' = [pc EXCEPT ![p] = "wait", ![q] = "run"] /\ UNCHANGED maps
  <2>1. pc'[p] = "wait" /\ pc'[q] = "run" /\ \A r \in Proc \ {p, q} : pc'[r] = pc[r]
    BY <1>3, <1>10 DEF LineInv
  <2>2. fd' = fd /\ data' = data
    BY <1>10 DEF maps
  <2>3. ProgFits(i, "run", <<>>, fd[q])
    BY <1>4 DEF ProgFits
  <2>4. fd' \in [Proc -> Descs] /\ data' \in [Proc -> Windows]
    BY <2>2 DEF EndsInv, Descs, Windows
  <2> QED BY <1>4, <1>9, <2>1, <2>2, <2>3, <2>4
<1>11. CASE /\ pc' = [pc EXCEPT ![p] = "wait"]
            /\ fd' = [fd EXCEPT ![q] = NoFd] /\ data' = [data EXCEPT ![q] = NoData]
  <2>1. pc'[p] = "wait" /\ pc'[q] = "off" /\ \A r \in Proc \ {p, q} : pc'[r] = pc[r]
    BY <1>3, <1>11 DEF LineInv
  <2>2. NoFd \in Descs /\ NoData \in Windows /\ Backed(NoFd, NoData)
    BY DEF NoFd, NoData, Descs, Windows, Backed
  <2>3. /\ fd' \in [Proc -> Descs] /\ data' \in [Proc -> Windows]
        /\ fd'[q] = NoFd /\ data'[q] = NoData /\ fd'[p] = fd[p] /\ data'[p] = data[p]
        /\ \A r \in Proc \ {p, q} : fd'[r] = fd[r] /\ data'[r] = data[r]
    BY <1>3, <1>11, <2>2 DEF EndsInv, Descs, Windows
  <2>4. ProgFits(i, "off", <<>>, NoFd)
    BY OffFits
  <2> QED BY <1>9, <2>1, <2>2, <2>3, <2>4
<1> QED BY <1>10, <1>11 DEF spawn_done

\* Nothing is left of an env that has exited.
LEMMA exitEnds ==
  ASSUME LineInv, EndsInv, NEW i \in Command, NEW p \in {Sh(i), Prog(i)}, exit(p)
  PROVE  EndsInv'
<1>1. pc[p] = "exit" /\ todo[p] = <<>> /\ p \in Proc
  BY Procs DEF exit, Goto
<1>2. Rest(fd'[p], data'[p], <<>>) = <<>>
  <2>1. {j \in DOMAIN <<>> : Moves(fd'[p], data'[p], <<>>[j])} = {} OBVIOUS
  <2> QED BY <2>1 DEF Rest
<1>3. Own(p, "off", <<>>, NoFd, NoData)
  <2>1. NoFd \in Descs /\ NoData \in Windows /\ Backed(NoFd, NoData)
    BY DEF NoFd, NoData, Descs, Windows, Backed
  <2>2. /\ pc' = [pc EXCEPT ![p] = "off"]
        /\ todo' = [todo EXCEPT ![p] = Rest(fd'[p], data'[p], <<>>)]
        /\ fd' = [fd EXCEPT ![p] = NoFd] /\ data' = [data EXCEPT ![p] = NoData]
    BY DEF exit, Goto
  <2>3. todo' = [todo EXCEPT ![p] = <<>>]
    BY <1>2, <2>2
  <2>4. <<>> \in Seq(Step)
    OBVIOUS
  <2> QED BY <2>1, <2>2, <2>3, <2>4 DEF Own
<1>4. ~Made(p)
  BY <1>1, NotMade
<1>5. CASE p = Sh(i)
  <2>1. ~Making(i)
    BY <1>1, <1>5 DEF Making
  <2> QED BY <1>3, <1>4, <1>5, <2>1, ShOwn, OffFits
<1>6. CASE p = Prog(i)
  BY <1>3, <1>4, <1>6, ProgOwn, OffFits
<1> QED BY <1>5, <1>6

\* A program closes what it has.
LEMMA QuitEnds ==
  ASSUME LineInv, EndsInv, NEW i \in Command, Quit(i)
  PROVE  EndsInv'
<1> DEFINE p == Prog(i)
           T == Rest(fd[p], data[p], close_all)
<1>1. p \in Proc /\ pc[p] = "run" /\ Goto(p, "exit", close_all) /\ UNCHANGED maps
  BY Procs DEF Quit
<1>2. Own(p, "exit", T, fd[p], data[p])
  BY <1>1, CloseAllIs, GotoIs
<1>3. \E k \in 1..9 : Closes(T, fd[p], close_all, k)
  BY CloseAllStart
<1> HIDE DEF T
<1>4. ProgFits(i, "exit", T, fd[p])
  BY <1>3 DEF ProgFits
<1>5. ~Made(p)
  BY <1>1, NotMade
<1> QED BY <1>2, <1>4, <1>5, ProgOwn

\* The first env of a line has no pipe.
LEMMA main_forkEnds ==
  ASSUME LineInv, EndsInv, main_fork
  PROVE  EndsInv'
<1> DEFINE p == Sh(1)
<1>1. 1 \in Command /\ p \in Proc
  BY Neighbours, Procs
<1>2. \A q \in Proc : pc[q] = "off"
  BY DEF main_fork
<1>3. ~Making(1) /\ ~Made(p)
  BY <1>1, <1>2, Procs DEF Making, Made
<1>4. todo[p] = <<>> /\ fd[p] = NoFd /\ Backed(fd[p], data[p])
  BY <1>1, <1>2, <1>3 DEF EndsInv, Outside
<1>5. Own(p, "parse", <<>>, NoFd, data[p])
  <2>1. /\ todo' = [todo EXCEPT ![p] = todo[p]] /\ fd' = [fd EXCEPT ![p] = fd[p]]
        /\ data' = [data EXCEPT ![p] = data[p]]
    BY DEF main_fork, maps, EndsInv
  <2>2. pc' = [pc EXCEPT ![p] = "parse"]
    BY DEF main_fork
  <2>3. todo[p] \in Seq(Step) /\ fd[p] \in Descs /\ data[p] \in Windows
    BY <1>1, ProcIs
  <2> QED BY <1>4, <2>1, <2>2, <2>3 DEF Own
<1>6. \E k \in 1..9 : Joins(1, <<>>, NoFd, data[p], k)
  <2>1. RightEnd \in Seq(Step) /\ Len(RightEnd) = 8 /\ DOMAIN RightEnd = 1..8
    BY RightEndIs
  <2>2. From(RightEnd, 9) = <<>>
    <3> DEFINE k == Len(RightEnd) + 1
    <3>1. k \in 1..(Len(RightEnd) + 1) /\ k = 9 BY <2>1
    <3>2. From(RightEnd, k) = <<>> BY <2>1, <3>1, FromIs, Zenon
    <3> QED BY <3>1, <3>2
  <2>3. \A d \in Fd : NoFd[d] = NULL
    BY DEF NoFd
  <2>4. Closes(<<>>, NoFd, RightEnd, 9)
    BY <2>1, <2>2 DEF Closes, At
  <2> QED BY <2>3, <2>4 DEF Joins, Has, Fd
<1>7. \A G, E : ShFits(1, "parse", <<>>, NoFd, data[p], G, E)
  BY <1>6 DEF ShFits
<1> QED BY <1>1, <1>3, <1>5, <1>7, ShOwn

\* A page step of an env on its own descriptors.
LEMMA pageOwn ==
  ASSUME LineInv, EndsInv, NEW p \in Proc, page(p), NEW s, s = Head(todo[p]), s \in Step,
         s[1] \notin {"givefd", "givedata"}
  PROVE  /\ After(fd[p], data[p], s, fd'[p], data'[p])
         /\ Backed(fd'[p], data'[p]) =>
              Own(p, pc[p], Rest(fd'[p], data'[p], Tail(todo[p])), fd'[p], data'[p])
<1>1. fd[p] \in Descs /\ data[p] \in Windows /\ todo[p] \in Seq(Step) /\ todo[p] # <<>> /\ pc[p] # "off"
  BY ProcIs DEF page
<1>2. s[1] \in {"fd-", "fd+", "data-", "data+"} /\ s[2] \in Fd /\ s[3] \in Fd
  BY DEF Step
<1>3. /\ fd' = CASE s[1] = "fd-" -> [fd EXCEPT ![p][s[2]] = NULL]
                 [] s[1] = "fd+" -> [fd EXCEPT ![p][s[3]] = fd[p][s[2]]]
                 [] OTHER        -> fd
      /\ data' = CASE s[1] = "data-" -> [data EXCEPT ![p][s[2]] = 0]
                   [] s[1] = "data+" -> [data EXCEPT ![p][s[3]] = data[p][s[2]]]
                   [] OTHER          -> data
  BY <1>2 DEF page
<1>4. fd \in [Proc -> Descs] /\ data \in [Proc -> Windows]
  BY DEF EndsInv, Descs, Windows
<1>5. /\ fd' = [fd EXCEPT ![p] = fd'[p]]
      /\ fd'[p] = CASE s[1] = "fd-" -> [fd[p] EXCEPT ![s[2]] = NULL]
                    [] s[1] = "fd+" -> [fd[p] EXCEPT ![s[3]] = fd[p][s[2]]]
                    [] OTHER        -> fd[p]
  BY <1>2, <1>3, <1>4
<1>6. /\ data' = [data EXCEPT ![p] = data'[p]]
      /\ data'[p] = CASE s[1] = "data-" -> [data[p] EXCEPT ![s[2]] = 0]
                      [] s[1] = "data+" -> [data[p] EXCEPT ![s[3]] = data[p][s[2]]]
                      [] OTHER          -> data[p]
  BY <1>2, <1>3, <1>4
<1>7. After(fd[p], data[p], s, fd'[p], data'[p])
  BY <1>5, <1>6 DEF After
<1>8. fd'[p] \in Descs /\ data'[p] \in Windows
  BY <1>1, <1>7, AfterTypes
<1>9. Tail(todo[p]) \in Seq(Step)
  BY <1>1, HeadTailProperties
<1>10. Rest(fd'[p], data'[p], Tail(todo[p])) \in Seq(Step)
  BY <1>9, RestSteps
<1>11. /\ pc' = [pc EXCEPT ![p] = pc[p]]
       /\ todo' = [todo EXCEPT ![p] = Rest(fd'[p], data'[p], Tail(todo[p]))]
  BY DEF page, LineInv
<1> QED BY <1>1, <1>5, <1>6, <1>7, <1>8, <1>10, <1>11 DEF Own

\* The lists other than share are about the env's own pages.
OwnList(L) == \A j \in 1..Len(L) : L[j][1] \notin {"givefd", "givedata"}

\* They are.
LEMMA AllOwn ==
  /\ OwnList(close_all) /\ OwnList(LeftEnd) /\ OwnList(RightEnd)
  /\ \A d \in Fd : OwnList(close(d))
<1>1. \A j \in 1..8 : j = 1 \/ j = 2 \/ j = 3 \/ j = 4 \/ j = 5 \/ j = 6 \/ j = 7 \/ j = 8
  OBVIOUS
<1>2. OwnList(close_all)
  BY <1>1, CloseAllIs DEF OwnList
<1>3. OwnList(LeftEnd)
  BY <1>1, LeftEndIs DEF OwnList
<1>4. OwnList(RightEnd)
  BY <1>1, RightEndIs DEF OwnList
<1>5. ASSUME NEW d \in Fd PROVE OwnList(close(d))
  <2>1. \A j \in 1..2 : j = 1 \/ j = 2
    OBVIOUS
  <2> QED BY <2>1, CloseIs DEF OwnList
<1> QED BY <1>2, <1>3, <1>4, <1>5

\* So a list that closes hands nothing over,
LEMMA ClosesOwn ==
  ASSUME NEW L \in Seq(Step), OwnList(L), NEW T, T # <<>>, NEW F, NEW k, Closes(T, F, L, k)
  PROVE  Head(T)[1] \notin {"givefd", "givedata"}
<1>1. k \in 1..(Len(L) + 1) /\ T = From(L, k)
  BY DEF Closes, At
<1>2. k <= Len(L) /\ Head(T) = L[k]
  BY <1>1, StepDone
<1> QED BY <1>1, <1>2 DEF OwnList

\* close_all among them,
LEMMA CloseAllGives ==
  ASSUME NEW T, T # <<>>, NEW F, NEW k, Closes(T, F, close_all, k)
  PROVE  Head(T)[1] \notin {"givefd", "givedata"}
BY ClosesOwn, AllOwn, CloseAllIs

\* and neither does an env that is neither in fork nor in spawn.
LEMMA NoGives ==
  ASSUME NEW i, NEW l \in {"parse", "left", "wait", "exit"}, NEW T, T # <<>>, NEW F, NEW D,
         NEW G, NEW E, ShFits(i, l, T, F, D, G, E)
  PROVE  Head(T)[1] \notin {"givefd", "givedata"}
<1>1. ASSUME NEW k, Joins(i, T, F, D, k) PROVE Head(T)[1] \notin {"givefd", "givedata"}
  <2>1. Closes(T, F, RightEnd, k) BY <1>1 DEF Joins
  <2> QED BY <2>1, ClosesOwn, AllOwn, RightEndIs
<1>2. ASSUME NEW k, Leaves(i, T, F, D, k) PROVE Head(T)[1] \notin {"givefd", "givedata"}
  <2>1. Closes(T, F, LeftEnd, k) BY <1>2 DEF Leaves
  <2> QED BY <2>1, ClosesOwn, AllOwn, LeftEndIs
<1>3. ASSUME NEW d \in {0, 1}, NEW k, Closes(T, F, close(d), k)
      PROVE  Head(T)[1] \notin {"givefd", "givedata"}
  <2>1. d \in Fd BY DEF Fd
  <2>2. close(d) \in Seq(Step) /\ OwnList(close(d)) BY <2>1, CloseIs, AllOwn
  <2> QED BY <1>3, <2>2, ClosesOwn
<1>4. ASSUME NEW k, Closes(T, F, close_all, k) PROVE Head(T)[1] \notin {"givefd", "givedata"}
  BY <1>4, CloseAllGives
<1> QED BY <1>1, <1>2, <1>3, <1>4 DEF ShFits

\* A page step of an env of sh.c that makes no other,
LEMMA pageSh ==
  ASSUME LineInv, EndsInv, NEW i \in Command, ~Making(i), page(Sh(i))
  PROVE  EndsInv'
<1> DEFINE p == Sh(i)
           T == todo[p]
           F == fd[p]
           D == data[p]
           F2 == fd'[p]
           D2 == data'[p]
           l == pc[p]
           Result == /\ Backed(F2, D2) /\ Head(T)[1] \notin {"givefd", "givedata"}
                     /\ \A G, E : ShFits(i, l, Rest(F2, D2, Tail(T)), F2, D2, G, E)
<1>1. p \in Proc /\ T # <<>> /\ T \in Seq(Step)
  BY Procs, ProcIs DEF page
<1>2. /\ F \in Descs /\ D \in Windows /\ l # "off" /\ ~Made(p) /\ Backed(F, D)
      /\ Head(T) \in Step
  BY <1>1, ProcIs, HeadTailProperties
<1>3. PICK G, E : ShFits(i, l, T, F, D, G, E)
  BY DEF EndsInv, ShHas
<1>4. Head(T)[1] \notin {"givefd", "givedata"} => After(F, D, Head(T), F2, D2)
  BY <1>1, <1>2, pageOwn
<1>5. l \in {"parse", "left", "wait", "exit"}
  BY <1>1, <1>2 DEF Making, LineInv, LineAt
<1>6. Head(T)[1] \notin {"givefd", "givedata"}
  BY <1>1, <1>2, <1>3, <1>5, NoGives
<1>7. After(F, D, Head(T), F2, D2)
  BY <1>4, <1>6
<1> HIDE DEF F2, D2, T, F, D
<1>15. OwnStep(T, F, D, F2, D2)
  BY <1>1, <1>2, <1>7 DEF OwnStep
<1>8. ASSUME l \in {"wait", "exit"} PROVE Result
  <2>1. PICK k \in 1..9 : Closes(T, F, close_all, k) BY <1>3, <1>8 DEF ShFits
  <2>2. Backed(F2, D2) /\ \E n \in 1..9 : Closes(Rest(F2, D2, Tail(T)), F2, close_all, n)
    BY <1>1, <1>2, <1>7, <2>1, CloseAllStep
  <2> QED BY <1>6, <1>8, <2>2 DEF ShFits
<1>9. ASSUME l = "left" PROVE Result
  <2>1. PICK k \in 1..9 : Leaves(i, T, F, D, k) BY <1>3, <1>9 DEF ShFits
  <2>2. Backed(F2, D2) /\ \E n \in 1..9 : Leaves(i, Rest(F2, D2, Tail(T)), F2, D2, n)
    BY <1>15, <2>1, LeavesStep
  <2> QED BY <1>6, <1>9, <2>2 DEF ShFits
<1>10. ASSUME l = "parse", NEW k \in 1..9, Joins(i, T, F, D, k) PROVE Result
  <2>1. Backed(F2, D2) /\ \E n \in 1..9 : Joins(i, Rest(F2, D2, Tail(T)), F2, D2, n)
    BY <1>15, <1>10, JoinsStep
  <2> QED BY <1>6, <1>10, <2>1 DEF ShFits
<1>11. ASSUME l = "parse", Has(F, {R(i - 1)}, {}, {}, {}), NEW d \in {0, 1}, NEW k \in 1..3,
              Closes(T, F, close(d), k)
       PROVE  Result
  <2>1. /\ Backed(F2, D2) /\ Has(F2, {R(i - 1)}, {}, {}, {})
        /\ \E n \in 1..3 : Closes(Rest(F2, D2, Tail(T)), F2, close(d), n)
    BY <1>1, <1>2, <1>7, <1>11, RedirectStep
  <2> QED BY <1>6, <1>11, <2>1 DEF ShFits
<1>12. Result
  <2>1. ASSUME l = "parse" PROVE Result
    BY <1>3, <1>10, <1>11, <2>1 DEF ShFits
  <2> QED BY <1>5, <1>8, <1>9, <2>1
<1>13. Own(p, l, Rest(F2, D2, Tail(T)), F2, D2)
  BY <1>1, <1>2, <1>12, pageOwn DEF F2, D2, T, F, D
<1>14. l \notin {"fork", "spawn"}
  BY <1>5
<1> QED BY <1>2, <1>12, <1>13, <1>14, ShOwn

\* of one that does,
LEMMA pageMakes ==
  ASSUME LineInv, EndsInv, NEW i \in Command, Making(i), page(Sh(i))
  PROVE  EndsInv'
<1> DEFINE p == Sh(i)
<1>0. PICK q : q = Child(p)
  OBVIOUS
<1> DEFINE T == todo[p]
           s == Head(T)
           T2 == Rest(fd[p], data[p], Tail(T))
<1>1. /\ p \in Proc /\ q \in Proc /\ pc[q] = "off" /\ p # q
      /\ \A j \in Command : Making(j) => (Sh(j) \in {p, q} <=> Child(Sh(j)) \in {p, q})
  BY <1>0, PairFrame
<1>2. T # <<>> /\ T \in Seq(Step) /\ pc[p] # "off" /\ Tail(T) \in Seq(Step)
  BY <1>1, ProcIs, HeadTailProperties DEF page
<1>3. /\ fd[p] \in Descs /\ data[p] \in Windows /\ Backed(fd[p], data[p])
      /\ fd[q] \in Descs /\ data[q] \in Windows
  BY <1>1, <1>2, ProcIs
<1>4. ShFits(i, pc[p], T, fd[p], data[p], fd[q], data[q])
  BY <1>0 DEF EndsInv, ShHas
<1>5. PICK k \in 1..9 : Shares(T, fd[p], fd[q], data[q], k)
  BY <1>4 DEF ShFits, Making
<1>6. /\ s \in Step /\ s[1] \in {"givefd", "givedata"}
      /\ \A G2, E2 : Gives(fd[p], data[p], s, fd[q], data[q], G2, E2) =>
           /\ G2 \in Descs /\ E2 \in Windows
           /\ \E n \in 1..9 : Shares(T2, fd[p], G2, E2, n)
  BY <1>2, <1>3, <1>5, SharesStep
<1>7. s[2] \in Fd /\ s[3] \in Fd
  BY <1>6 DEF Step
<1>8. /\ fd' = IF s[1] = "givefd" THEN [fd EXCEPT ![q][s[3]] = fd[p][s[2]]] ELSE fd
      /\ data' = IF s[1] = "givedata" THEN [data EXCEPT ![q][s[3]] = data[p][s[2]]] ELSE data
  BY <1>0, <1>6 DEF page
<1>9. fd \in [Proc -> Descs] /\ data \in [Proc -> Windows]
  BY DEF EndsInv, Descs, Windows
<1>10. /\ \A r \in Proc \ {q} : fd'[r] = fd[r] /\ data'[r] = data[r]
       /\ fd' = [fd EXCEPT ![q] = fd'[q]] /\ data' = [data EXCEPT ![q] = data'[q]]
       /\ fd'[q] = IF s[1] = "givefd" THEN [fd[q] EXCEPT ![s[3]] = fd[p][s[2]]] ELSE fd[q]
       /\ data'[q] = IF s[1] = "givedata" THEN [data[q] EXCEPT ![s[3]] = data[p][s[2]]] ELSE data[q]
  <2> HIDE DEF p, s
  <2> QED BY <1>1, <1>6, <1>8, <1>9
<1>11. Gives(fd[p], data[p], s, fd[q], data[q], fd'[q], data'[q])
  <2> HIDE DEF p, s
  <2> QED BY <1>6, <1>10 DEF Gives
<1>12. /\ fd'[q] \in Descs /\ data'[q] \in Windows
       /\ \E n \in 1..9 : Shares(T2, fd[p], fd'[q], data'[q], n)
  BY <1>6, <1>11
<1>13. fd'[p] = fd[p] /\ data'[p] = data[p] /\ pc' = pc
  BY <1>1, <1>10 DEF page
<1>14. T2 \in Seq(Step) /\ todo' = [todo EXCEPT ![p] = T2]
  BY <1>2, <1>13, RestSteps DEF page
<1> HIDE DEF T2, s
<1>15. Types'
  <2> HIDE DEF p
  <2> QED BY <1>1, <1>9, <1>10, <1>12, <1>14 DEF Types, EndsInv
<1>16. todo'[p] = T2 /\ \A r \in Proc \ {p} : todo'[r] = todo[r]
  BY <1>1, <1>14 DEF EndsInv
<1>17. Child(p)' = q
  BY <1>0, <1>13 DEF Child
<1>18. ShHas(i)'
  <2>1. ShFits(i, pc[p], T2, fd[p], data[p], fd'[q], data'[q])
    BY <1>4, <1>12 DEF ShFits, Making
  <2> QED BY <1>13, <1>16, <1>17, <2>1 DEF ShHas
<1>19. \A j \in Command : (Sh(j) \in {p, q} => ShHas(j)') /\ (Prog(j) \in {p, q} => ProgHas(j)')
  <2> TAKE j \in Command
  <2>1. Sh(j) = q => ShHas(j)'
    BY <1>1, <1>13, OffFits DEF ShHas
  <2>2. Prog(j) = q => ProgHas(j)'
    BY <1>1, <1>13, OffFits DEF ProgHas
  <2>3. Sh(j) = p => ShHas(j)'
    BY <1>18, Procs
  <2> QED BY <2>1, <2>2, <2>3, Procs
<1>20. Outside(p)' /\ Outside(q)'
  <2>1. Outside(p)'
    BY <1>2, <1>3, <1>13 DEF Outside
  <2>2. Made(q)'
    BY <1>13, <1>17 DEF Made, Making
  <2>3. todo'[q] = <<>>
    BY <1>1, <1>16 DEF EndsInv, Outside
  <2> QED BY <2>1, <2>2, <2>3 DEF Outside
<1>21. Frame({p, q})
  BY <1>1, <1>10, <1>13, <1>15, <1>16, <1>19, <1>20 DEF Frame
<1> QED BY <1>21, FrameKeeps

\* and of a program.
LEMMA pageProg ==
  ASSUME LineInv, EndsInv, NEW i \in Command, page(Prog(i))
  PROVE  EndsInv'
<1> DEFINE p == Prog(i)
           T == todo[p]
           F == fd[p]
           D == data[p]
           F2 == fd'[p]
           D2 == data'[p]
<1>1. p \in Proc /\ T # <<>> /\ T \in Seq(Step)
  BY Procs, ProcIs DEF page
<1>2. /\ F \in Descs /\ D \in Windows /\ pc[p] # "off" /\ ~Made(p) /\ Backed(F, D)
      /\ Head(T) \in Step
  BY <1>1, ProcIs, HeadTailProperties
<1>3. ProgFits(i, pc[p], T, F)
  BY DEF EndsInv, ProgHas
<1>4. pc[p] = "exit"
  BY <1>1, <1>2, <1>3 DEF ProgFits, LineInv, LineAt
<1>5. PICK k \in 1..9 : Closes(T, F, close_all, k)
  BY <1>3, <1>4 DEF ProgFits
<1>6. Head(T)[1] \notin {"givefd", "givedata"}
  BY <1>1, <1>5, CloseAllGives
<1>7. After(F, D, Head(T), F2, D2)
  BY <1>1, <1>2, <1>6, pageOwn
<1>8. Backed(F2, D2) /\ \E n \in 1..9 : Closes(Rest(F2, D2, Tail(T)), F2, close_all, n)
  BY <1>1, <1>2, <1>5, <1>7, CloseAllStep
<1>9. Own(p, pc[p], Rest(F2, D2, Tail(T)), F2, D2)
  BY <1>1, <1>2, <1>6, <1>8, pageOwn
<1> HIDE DEF F2, D2, T
<1>10. ProgFits(i, pc[p], Rest(F2, D2, Tail(T)), F2)
  BY <1>4, <1>8 DEF ProgFits
<1> QED BY <1>2, <1>9, <1>10, ProgOwn

\* Nothing is mapped, so nothing can be wrong yet.
LEMMA EndsInit == Init => EndsInv
<1> SUFFICES ASSUME Init PROVE EndsInv
  OBVIOUS
<1>1. /\ \A p \in Proc : pc[p] = "off" /\ todo[p] = <<>> /\ fd[p] = NoFd /\ data[p] = NoData
      /\ NoFd \in Descs /\ NoData \in Windows /\ Backed(NoFd, NoData)
  BY DEF Init, NoFd, NoData, Descs, Windows, Backed
<1>2. Types
  BY <1>1 DEF Init, Types
<1>3. ASSUME NEW i \in Command PROVE ShHas(i) /\ ProgHas(i)
  BY <1>1, OffFits, Procs DEF ShHas, ProgHas
<1>4. ASSUME NEW p \in Proc PROVE Outside(p)
  BY <1>1 DEF Outside
<1> QED BY <1>2, <1>3, <1>4 DEF EndsInv, Types, Descs, Windows

\* A step that maps nothing and moves no env.
LEMMA EndsStays ==
  ASSUME LineInv, EndsInv, UNCHANGED <<pc, todo, maps>>
  PROVE  EndsInv'
<1>1. Types'
  BY DEF EndsInv, Types, Descs, Windows, maps
<1>2. Frame({})
  BY <1>1 DEF Frame, maps
<1> QED BY <1>2, FrameKeeps

\* Every step keeps the ends where they belong.
LEMMA EndsNext == LineInv /\ EndsInv /\ [Next]_shVars => EndsInv'
<1> SUFFICES ASSUME LineInv, EndsInv, [Next]_shVars PROVE EndsInv'
  OBVIOUS
<1>1. CASE UNCHANGED shVars
  BY <1>1, EndsStays DEF shVars
<1>2. CASE main_fork
  BY <1>2, main_forkEnds
<1>3. CASE main_wait
  BY <1>3, EndsStays DEF main_wait
<1>4. ASSUME NEW i \in Command, ShStep(i) PROVE EndsInv'
  <2>1. CASE page(Sh(i))
    BY <2>1, pageSh, pageMakes
  <2>2. ASSUME NEW d \in {0, 1}, redirect(i, d) PROVE EndsInv'
    BY <2>2, redirectEnds
  <2>3. CASE parse_error(i) \/ no_words(i) \/ wait(i)
    <3>1. /\ pc[Sh(i)] \notin {"off", "fork", "spawn"}
          /\ Goto(Sh(i), "exit", close_all) /\ UNCHANGED maps
      BY <2>3 DEF parse_error, no_words, wait, Parsed
    <3> QED BY <3>1, ShCloses
  <2>4. CASE fork(i)
    BY <2>4, forkEnds
  <2>5. CASE fork_done(i)
    BY <2>5, fork_doneEnds
  <2>6. CASE spawn(i)
    BY <2>6, spawnEnds
  <2>7. CASE spawn_done(i)
    BY <2>7, spawn_doneEnds
  <2>8. CASE exit(Sh(i))
    BY <2>8, exitEnds
  <2> QED BY <1>4, <2>1, <2>2, <2>3, <2>4, <2>5, <2>6, <2>7, <2>8 DEF ShStep
<1>5. ASSUME NEW i \in Command, ProgStep(i) \/ abort(i) PROVE EndsInv'
  <2>1. CASE page(Prog(i))
    BY <2>1, pageProg
  <2>2. CASE write(i) \/ read(i)
    BY <2>2, EndsStays DEF write, read
  <2>3. CASE Quit(i)
    BY <2>3, QuitEnds
  <2>4. CASE exit(Prog(i))
    BY <2>4, exitEnds
  <2> QED BY <1>5, <2>1, <2>2, <2>3, <2>4 DEF ProgStep, finish, abort
<1> QED BY <1>1, <1>2, <1>3, <1>4, <1>5 DEF Next
-----------------------------------------------------------------------------
(* The verdict of _pipe_is_closed.                                         *)

\* There are finitely many descriptors, so that references can be counted.
LEMMA FiniteFds == IsFiniteSet(Proc \X Fd)
<1>1. IsFiniteSet({"sh"}) /\ IsFiniteSet({"prog"}) /\ IsFiniteSet({"sh"} \cup {"prog"})
  BY FS_Singleton, FS_Union
<1>2. IsFiniteSet(Command) /\ IsFiniteSet(Fd)
  <2>1. N \in Int /\ 0 \in Int /\ 1 \in Int /\ 3 \in Int BY ShellAssumption
  <2>2. IsFiniteSet(1..N) /\ IsFiniteSet(0..3) BY <2>1, FS_Interval, Zenon
  <2> QED BY <2>2 DEF Command, Fd
<1>3. IsFiniteSet(({"sh"} \cup {"prog"}) \X Command)
  BY <1>1, <1>2, FS_Product
<1>4. Proc = ({"sh"} \cup {"prog"}) \X Command
  BY DEF Proc, Sh, Prog
<1> QED BY <1>2, <1>3, <1>4, FS_Product

\* An env that is being made has an end only where its parent has it.
LEMMA FromParent ==
  ASSUME LineInv, EndsInv, NEW p \in Proc, NEW d \in Fd, fd[p][d] # NULL, Made(p)
  PROVE  \E m \in Command :
           /\ fd[Sh(m)][d] = fd[p][d] /\ data[Sh(m)][d] = fd[p][d][2]
           /\ \/ /\ pc[Sh(m)] = "fork"
                 /\ fd[p][d] \in {R(m - 1), R(m), W(m)}
              \/ /\ pc[Sh(m)] = "spawn"
                 /\ fd[p][d] \in {R(m - 1), W(m)}
<1>1. PICK m \in Command : Making(m) /\ p = Child(Sh(m))
  BY DEF Made, Making
<1>2. /\ Sh(m) \in Proc /\ pc[Sh(m)] \in {"fork", "spawn"}
      /\ ShFits(m, pc[Sh(m)], todo[Sh(m)], fd[Sh(m)], data[Sh(m)], fd[p], data[p])
  BY <1>1, Procs DEF EndsInv, ShHas, Making
<1>3. Backed(fd[Sh(m)], data[Sh(m)])
  BY <1>2, ProcIs
<1>4. \E k \in 1..9 : Shares(todo[Sh(m)], fd[Sh(m)], fd[p], data[p], k)
  BY <1>2 DEF ShFits
<1>5. fd[p][d] = fd[Sh(m)][d]
  BY <1>4 DEF Shares
<1>6. d = 0 \/ d = 1 \/ d = 2 \/ d = 3
  BY DEF Fd
<1>7. CASE pc[Sh(m)] = "fork"
  <2>1. Has(fd[Sh(m)], {R(m - 1)}, {}, {R(m)}, {W(m)}) BY <1>2, <1>7 DEF ShFits
  <2>2. fd[p][d] \in {R(m - 1), R(m), W(m)} BY <1>5, <1>6, <2>1 DEF Has
  <2> QED BY <1>3, <1>5, <1>7, <2>2 DEF Backed
<1>8. CASE pc[Sh(m)] = "spawn"
  <2>1. Has(fd[Sh(m)], {R(m - 1)}, {W(m)}, {}, {}) BY <1>2, <1>8 DEF ShFits
  <2>2. fd[p][d] \in {R(m - 1), W(m)} BY <1>5, <1>6, <2>1 DEF Has
  <2> QED BY <1>3, <1>5, <1>8, <2>2 DEF Backed
<1> QED BY <1>2, <1>7, <1>8

\* The end that a running program asks for is nowhere without the page of its pipe: the
\* envs that could be handing it over have left the line or wait.
LEMMA AllBacked ==
  ASSUME LineInv, EndsInv, NEW i \in Command, pc[Prog(i)] = "run", NEW e \in {R(i - 1), W(i)}, e # NULL,
         NEW p \in Proc, NEW d \in Fd, fd[p][d] = e
  PROVE  data[p][d] = e[2]
<1>1. CASE ~Made(p)
  BY <1>1 DEF EndsInv, Outside, Backed
<1>2. CASE Made(p)
  <2>1. PICK m \in Command :
           \/ pc[Sh(m)] = "fork" /\ e \in {R(m - 1), R(m), W(m)}
           \/ pc[Sh(m)] = "spawn" /\ e \in {R(m - 1), W(m)}
    BY <1>2, FromParent
  <2>2. pc[Sh(i)] = "wait" /\ i \in Nat /\ m \in Nat
    BY Neighbours DEF LineInv, LineAt
  <2>3. m # i
    BY <2>1, <2>2
  <2>4. e = R(i - 1) /\ pc[Sh(m)] = "fork" /\ m = i - 1
    <3>1. e = R(i - 1) => m - 1 = i - 1 \/ m = i - 1
      BY <2>1, Ends
    <3>2. e = W(i) => m = i
      BY <2>1, Ends
    <3>3. e = R(i - 1) /\ pc[Sh(m)] = "spawn" => m - 1 = i - 1
      BY <2>1, Ends
    <3> QED BY <2>1, <2>2, <2>3, <3>1, <3>2, <3>3
  <2>5. pc[Sh(i)] = "off"
    BY <2>2, <2>4 DEF LineInv, LineAt
  <2> QED BY <2>2, <2>5
<1> QED BY <1>1, <1>2

\* Where there is an end of a pipe, there is one with the page of the pipe.
LEMMA SomeBacked ==
  ASSUME LineInv, EndsInv, NEW p \in Proc, NEW d \in Fd, fd[p][d] # NULL
  PROVE  \E q \in Proc : fd[q][d] = fd[p][d] /\ data[q][d] = fd[p][d][2]
<1>1. CASE ~Made(p)
  BY <1>1 DEF EndsInv, Outside, Backed
<1>2. CASE Made(p)
  BY <1>2, FromParent, Procs
<1> QED BY <1>1, <1>2

\* When the counts are equal no env has the other end: it would count for the pipe alone.
LEMMA OtherGone ==
  ASSUME LineInv, EndsInv, NEW i \in Command, pc[Prog(i)] = "run", NEW e \in {R(i - 1), W(i)}, e # NULL,
         NEW o \in End, o # e, o[2] = e[2], FdRefs(e) = PipeRefs(e[2])
  PROVE  FdRefs(o) = 0
<1> DEFINE S == {x \in Proc \X Fd : fd[x[1]][x[2]] = e}
           T == {x \in Proc \X Fd : data[x[1]][x[2]] = e[2]}
           O == {x \in Proc \X Fd : fd[x[1]][x[2]] = o}
<1>1. S \in SUBSET T
  BY AllBacked
<1>2. IsFiniteSet(T)
  BY FiniteFds, FS_Subset
<1>3. Cardinality(S) = Cardinality(T)
  BY DEF FdRefs, PipeRefs
<1>4. S = T
  <2> HIDE DEF S, T
  <2> QED BY <1>1, <1>2, <1>3, FS_Subset
<1>5. ASSUME NEW x \in O PROVE FALSE
  <2>1. x[1] \in Proc /\ x[2] \in Fd /\ fd[x[1]][x[2]] = o /\ o # NULL
    BY Ends
  <2>2. PICK q \in Proc : fd[q][x[2]] = o /\ data[q][x[2]] = o[2]
    BY <2>1, SomeBacked
  <2>3. <<q, x[2]>> \in T /\ <<q, x[2]>> \notin S
    BY <2>1, <2>2
  <2> QED BY <1>4, <2>3
<1>6. O = {}
  BY <1>5
<1> QED BY <1>6, FS_EmptySet DEF FdRefs

\* So the verdict is right.
LEMMA VerdictIs == LineInv /\ EndsInv => VerdictRight
<1> SUFFICES ASSUME LineInv, EndsInv, NEW i \in Command, NEW d \in {0, 1},
                    NEW e, e = fd[Prog(i)][d], pc[Prog(i)] = "run", e # NULL, Closed(Prog(i), d)
             PROVE  FdRefs(IF e[1] = "r" THEN W(e[2]) ELSE R(e[2])) = 0
  BY DEF VerdictRight
<1>1. Prog(i) \in Proc /\ d \in Fd
  BY Procs DEF Fd
<1>2. Has(fd[Prog(i)], {R(i - 1)}, {W(i)}, {}, {})
  BY DEF EndsInv, ProgHas, ProgFits
<1>3. e \in {R(i - 1), W(i)} /\ e \in End
  BY <1>1, <1>2 DEF Has, EndsInv
<1>4. data[Prog(i)][d] = e[2]
  BY <1>1, <1>3, AllBacked
<1>5. FdRefs(e) = PipeRefs(e[2])
  BY <1>4 DEF Closed
<1> DEFINE o == IF e[1] = "r" THEN W(e[2]) ELSE R(e[2])
<1>6. o \in End /\ o # e /\ o[2] = e[2]
  BY <1>3, Ends
<1> HIDE DEF o
<1>7. FdRefs(o) = 0
  BY <1>3, <1>5, <1>6, OtherGone
<1> QED BY <1>7 DEF o
-----------------------------------------------------------------------------
(* The theorems.                                                           *)

\* Every env of a line is where LineInv says and has the ends that EndsInv says, however
\* long the line is and however the page steps of its envs interleave.
THEOREM ShellInvariant == ShellSpec => []ShellInv
<1>1. Init => ShellInv
  BY LineInit, EndsInit DEF ShellInv
<1>2. ShellInv /\ [Next]_shVars => ShellInv'
  BY LineNext, EndsNext DEF ShellInv
<1> QED BY <1>1, <1>2, PTL DEF ShellSpec

\* A program of a line that finds the counts of _pipe_is_closed equal has lost the other
\* end of its pipe.
THEOREM VerdictTrue == ShellSpec => []VerdictRight
<1>1. ShellInv => VerdictRight
  BY VerdictIs DEF ShellInv
<1> QED BY <1>1, ShellInvariant, PTL

\* The shell prompts only when runcmd has waited for every env of the line, unless a
\* command had no words.
THEOREM LineWaitedFor == ShellSpec => []WaitsForAll
<1>1. ShellInv => WaitsForAll
  BY LineWaits DEF ShellInv
<1> QED BY <1>1, ShellInvariant, PTL
================================================================================
