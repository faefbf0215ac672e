------------------------------- MODULE TailQueue -------------------------------
(***************************************************************************)
(* The TAILQ macros of include/queue.h, at the level of their pointers.    *)
(* A queue is a record of the head's two fields and of the two link fields *)
(* of every element.  A pointer to an element is the element or NULL; the  *)
(* address of a "next" field (tqh_last, tqe_prev) is HEAD for the head's   *)
(* tqh_first, the element that owns the field otherwise, or NULL for link  *)
(* fields that were never written (the envs array starts zeroed).          *)
(***************************************************************************)
EXTENDS Naturals, Sequences, FiniteSets

CONSTANTS
  Elem,   (* the elements that can be queued            *)
  NULL,   (* the null pointer                           *)
  HEAD    (* the address of the head's tqh_first field  *)

ASSUME QueueAssumption == NULL \notin Elem /\ HEAD \notin Elem /\ NULL # HEAD

TailQ == [first : Elem \cup {NULL},
          last  : Elem \cup {HEAD},
          next  : [Elem -> Elem \cup {NULL}],
          prev  : [Elem -> Elem \cup {HEAD, NULL}]]

\* Zeroed link fields, and a head that TAILQ_INIT has set up.
TAILQ_INIT == [first |-> NULL, last |-> HEAD,
               next |-> [e \in Elem |-> NULL], prev |-> [e \in Elem |-> NULL]]

TAILQ_FIRST(q) == q.first

TAILQ_INSERT_HEAD(q, e) ==
  [first |-> e,
   last  |-> IF q.first = NULL THEN e ELSE q.last,
   next  |-> [q.next EXCEPT ![e] = q.first],
   prev  |-> IF q.first = NULL THEN [q.prev EXCEPT ![e] = HEAD]
             ELSE [q.prev EXCEPT ![q.first] = e, ![e] = HEAD]]

\* The store through tqh_last comes after e's own next is cleared: an e that is
\* already the last element would be linked to itself.
TAILQ_INSERT_TAIL(q, e) ==
  [first |-> IF q.last = HEAD THEN e ELSE q.first,
   last  |-> e,
   next  |-> IF q.last = HEAD THEN [q.next EXCEPT ![e] = NULL]
             ELSE [q.next EXCEPT ![e] = NULL, ![q.last] = e],
   prev  |-> [q.prev EXCEPT ![e] = q.last]]

\* e's own links are left as they are.
TAILQ_REMOVE(q, e) ==
  LET n == q.next[e]
      p == q.prev[e]
  IN  [first |-> IF p = HEAD THEN n ELSE q.first,
       last  |-> IF n = NULL THEN p ELSE q.last,
       next  |-> IF p = HEAD THEN q.next ELSE [q.next EXCEPT ![p] = n],
       prev  |-> IF n = NULL THEN q.prev ELSE [q.prev EXCEPT ![n] = p]]

\* TAILQ_REMOVE writes through tqe_prev: removing an element whose link fields
\* were never written is a store to address 0.
RemoveFaults(q, e) == q.prev[e] = NULL

-----------------------------------------------------------------------------
(* What the pointers stand for.                                            *)

\* The sequence s lists the queue from head to tail: the forward links, the
\* backward links and both head fields spell exactly s, and nothing is listed
\* twice.
Represents(q, s) ==
  /\ \A i, j \in DOMAIN s : s[i] = s[j] => i = j
  /\ q.first = IF Len(s) = 0 THEN NULL ELSE s[1]
  /\ q.last = IF Len(s) = 0 THEN HEAD ELSE s[Len(s)]
  /\ \A i \in DOMAIN s :
       /\ q.next[s[i]] = IF i = Len(s) THEN NULL ELSE s[i + 1]
       /\ q.prev[s[i]] = IF i = 1 THEN HEAD ELSE s[i - 1]

\* The ways to list the members of a finite set, each exactly once.
Orders(S) ==
  {s \in [1..Cardinality(S) -> S] :
     /\ \A i, j \in DOMAIN s : s[i] = s[j] => i = j
     /\ \A e \in S : \E i \in DOMAIN s : s[i] = e}

\* The queue is intact and its members are exactly the elements of S.
Holds(q, S) == \E s \in Orders(S) : Represents(q, s)

\* s without its k-th element.
Without(s, k) == [i \in 1..(Len(s) - 1) |-> IF i < k THEN s[i] ELSE s[i + 1]]
================================================================================
