--------------------------- MODULE FileServer_proofs ---------------------------
(***************************************************************************)
(* Whatever any number of clients open, close, dup, share and drop, the    *)
(* server and the clients stay in step, a descriptor stays the entry of    *)
(* its file, and its window shows that file.                               *)
(***************************************************************************)
EXTENDS FileServer, FiniteSetTheorems, WellFoundedInduction, TLAPS

-----------------------------------------------------------------------------
(* Numbers.                                                                *)

\* Least gives the least.
LEMMA LeastIs ==
  ASSUME NEW S \in SUBSET Nat, S # {}
  PROVE  Least(S) \in S /\ \A y \in S : Least(S) <= y
<1>1. PICK x \in S : \A y \in S : ~(<<y, x>> \in OpToRel(<, Nat))
  BY NatLessThanWellFounded, WFMin
<1>2. \A y \in S : ~(y < x)
  <2> TAKE y \in S
  <2>1. x \in Nat /\ y \in Nat OBVIOUS
  <2> QED BY <1>1, <2>1 DEF OpToRel
<1>3. \A y \in S : x <= y
  <2> TAKE y \in S
  <2>1. x \in Nat /\ y \in Nat OBVIOUS
  <2> QED BY <1>2, <2>1
<1> QED BY <1>3 DEF Least

\* Adding a multiple of m does not change the remainder.
LEMMA ModStep ==
  ASSUME NEW m \in Nat, m > 0, NEW a \in Nat, NEW q \in Int, NEW b \in Nat, b = a + q * m
  PROVE  b % m = a % m
<1> DEFINE x == a \div m
           y == b \div m
           r == a % m
           t == b % m
<1>1. /\ a = m * x + r /\ r \in 0..(m - 1) /\ x \in Int
      /\ b = m * y + t /\ t \in 0..(m - 1) /\ y \in Int
  OBVIOUS
<1> HIDE DEF x, y, r, t
<1>2. t - r = m * (x + q - y) BY <1>1
<1>3. PICK z \in Int : z = x + q - y BY <1>1
<1>4. t - r = m * z BY <1>2, <1>3
<1>5. ~(z >= 1)
  <2> SUFFICES ASSUME z >= 1 PROVE FALSE OBVIOUS
  <2>1. m * z >= m BY <1>3
  <2> QED BY <1>1, <1>4, <2>1
<1>6. ~(z <= -1)
  <2> SUFFICES ASSUME z <= -1 PROVE FALSE OBVIOUS
  <2>1. m * z <= -m BY <1>3
  <2> QED BY <1>1, <1>4, <2>1
<1>7. z = 0 BY <1>3, <1>5, <1>6
<1>8. t - r = 0 BY <1>4, <1>7
<1>9. t = r BY <1>1, <1>8
<1> QED BY <1>9 DEF t, r

\* The next fileid of an entry belongs to the same entry.
LEMMA NextId ==
  ASSUME NEW id \in 0..(IDMOD - 1)
  PROVE  /\ (id + MAXOPEN) % IDMOD \in 0..(IDMOD - 1)
         /\ ((id + MAXOPEN) % IDMOD) % MAXOPEN = id % MAXOPEN
<1>1. /\ IDMOD \in Nat /\ MAXOPEN \in Nat /\ MAXOPEN > 0 /\ IDMOD > MAXOPEN /\ IDMOD % MAXOPEN = 0
  BY FileServerAssumption
<1>2. PICK q \in Int : IDMOD = MAXOPEN * q
  <2> DEFINE z == IDMOD \div MAXOPEN
             t == IDMOD % MAXOPEN
  <2>1. IDMOD = MAXOPEN * z + t /\ z \in Int /\ t = 0 BY <1>1
  <2> HIDE DEF z, t
  <2>2. MAXOPEN * z \in Int BY <1>1, <2>1
  <2>3. IDMOD = MAXOPEN * z BY <1>1, <2>1, <2>2
  <2> QED BY <2>1, <2>3
<1>3. (id + MAXOPEN) % IDMOD = IF id + MAXOPEN < IDMOD THEN id + MAXOPEN ELSE id + MAXOPEN - IDMOD
  BY <1>1
<1>4. CASE id + MAXOPEN < IDMOD
  <2> DEFINE b == id + MAXOPEN
             one == 1
  <2>1. /\ id \in Nat /\ b \in Nat /\ b = id + one * MAXOPEN /\ b \in 0..(IDMOD - 1)
        /\ one \in Int
    BY <1>1, <1>4
  <2> HIDE DEF b, one
  <2>2. b % MAXOPEN = id % MAXOPEN BY <1>1, <2>1, ModStep
  <2> QED BY <1>3, <1>4, <2>1, <2>2 DEF b
<1>5. CASE ~(id + MAXOPEN < IDMOD)
  <2> DEFINE b == id + MAXOPEN - IDMOD
  <2>1. id \in Nat /\ b \in Nat /\ 1 - q \in Int BY <1>1, <1>2, <1>5
  <2>2. b = id + (1 - q) * MAXOPEN
    <3>1. (1 - q) * MAXOPEN = MAXOPEN - MAXOPEN * q BY <1>1, <1>2
    <3> QED BY <1>1, <1>2, <3>1
  <2>3. b \in 0..(IDMOD - 1) BY <1>1, <1>5
  <2> HIDE DEF b
  <2>4. b % MAXOPEN = id % MAXOPEN BY <1>1, <2>1, <2>2, ModStep
  <2> QED BY <1>3, <1>5, <2>3, <2>4 DEF b
<1> QED BY <1>4, <1>5

\* Two different elements make two.
LEMMA AtLeastTwo ==
  ASSUME NEW S, IsFiniteSet(S), NEW x \in S, NEW y \in S, x # y
  PROVE  Cardinality(S) \in Nat /\ Cardinality(S) >= 2
<1>1. IsFiniteSet({x}) /\ Cardinality({x}) = 1 BY FS_Singleton
<1>2. Cardinality({x} \cup {y}) = Cardinality({x}) + 1 BY <1>1, FS_AddElement
<1>3. {x} \cup {y} \in SUBSET S OBVIOUS
<1>4. Cardinality({x} \cup {y}) <= Cardinality(S) BY <1>3, FS_Subset
<1>5. Cardinality(S) \in Nat BY FS_CardinalityType
<1> QED BY <1>1, <1>2, <1>4, <1>5

\* What the reference count of an entry tells.
LEMMA PageRef ==
  ASSUME ServerTypeOK, RightFile, NEW s \in Slot
  PROVE  /\ (\E c \in Client, d \in Fd : fd[c][d] = s) => pageref(s) > 1
         /\ \A b, c \in Client, d, g \in Fd :
              fd[b][d] = s /\ fd[c][g] = s /\ (b # c \/ d # g) => pageref(s) > 2
<1> DEFINE M == {m \in Client \X Fd : fd[m[1]][m[2]] = s}
<1>1. IsFiniteSet(M) /\ Cardinality(M) \in Nat
  <2>1. IsFiniteSet(Client) BY FileServerAssumption
  <2>2. IsFiniteSet(Fd)
    <3>1. 0 \in Int /\ MAXFD - 1 \in Int BY FileServerAssumption
    <3> QED BY <3>1, FS_Interval DEF Fd
  <2>3. IsFiniteSet(Client \X Fd) BY <2>1, <2>2, FS_Product
  <2>4. M \in SUBSET (Client \X Fd) OBVIOUS
  <2>5. IsFiniteSet(M) BY <2>3, <2>4, FS_Subset
  <2> QED BY <2>5, FS_CardinalityType
<1>2. ASSUME NEW c \in Client, NEW d \in Fd, fd[c][d] = s
      PROVE  s \in filled /\ <<c, d>> \in M
  <2>1. s # NULL BY FileServerAssumption
  <2> QED BY <1>2, <2>1 DEF RightFile, Filled
<1>3. s \in filled => pageref(s) = Cardinality(M) + 1 BY DEF pageref, Refs
<1> HIDE DEF M
<1>4. ASSUME NEW c \in Client, NEW d \in Fd, fd[c][d] = s PROVE pageref(s) > 1
  <2>1. s \in filled /\ <<c, d>> \in M BY <1>2, <1>4
  <2>2. Cardinality(M) # 0 BY <1>1, <2>1, FS_EmptySet
  <2> QED BY <1>1, <1>3, <2>1, <2>2
<1>5. ASSUME NEW b \in Client, NEW c \in Client, NEW d \in Fd, NEW g \in Fd,
             fd[b][d] = s, fd[c][g] = s, b # c \/ d # g
      PROVE  pageref(s) > 2
  <2>1. s \in filled /\ <<b, d>> \in M /\ <<c, g>> \in M BY <1>2, <1>5
  <2>2. <<b, d>> # <<c, g>> BY <1>5
  <2>3. Cardinality(M) >= 2 BY <1>1, <2>1, <2>2, AtLeastTwo
  <2> QED BY <1>1, <1>3, <2>1, <2>3
<1> QED BY <1>4, <1>5

-----------------------------------------------------------------------------
(* A client's own step: it goes to the call k, the descriptors F and the   *)
(* windows W.                                                              *)

FileInv == ServerInv /\ WindowInv

Spaces(F, W) ==
  /\ F \in [Fd -> Slot \cup {NULL}]
  /\ W \in [Fd -> [Page -> FilePage \cup {Anon, NULL}]]

\* What becomes of client c is in order.
Fits(c, k, F, W, A) ==
  /\ k \in CallState /\ k.r # "inval" /\ Spaces(F, W)
  /\ \A d \in Fd : F[d] # NULL => \E b \in Client, g \in Fd : fd[b][g] = F[d]
  /\ CallRight(k, F)
  /\ \A d \in Fd : ~On(k, d) => Whole(F, W, d, A)
  /\ WindowGrows(k, F, W, A, FALSE)

ClientStep(c, k, F, W) ==
  /\ UNCHANGED <<table, disk, srv>> /\ calls' \in 0..MaxCalls
  /\ apart \subseteq apart' /\ apart' \subseteq Slot
  /\ call[c].at \notin {"sent", "recv"} /\ k.at \in {"user", "send"}
  /\ call' = [call EXCEPT ![c] = k]
  /\ fd' = [fd EXCEPT ![c] = F] /\ win' = [win EXCEPT ![c] = W]
  /\ Fits(c, k, F, W, apart')

\* A step of one client that leaves its call and its space fitting keeps the invariant,
LEMMA ClientKeeps ==
  ASSUME FileInv, NEW c \in Client, NEW k, NEW F, NEW W, ClientStep(c, k, F, W)
  PROVE  FileInv'
<1> USE DEF ClientStep, Fits, Spaces
<1>1. /\ ServerTypeOK /\ RightFile /\ InStep /\ IdsRight /\ AnswerRight /\ EachWhole
      /\ \A b \in Client : CallRight(call[b], fd[b])
      /\ \A b \in Client : WindowGrows(call[b], fd[b], win[b], apart, Done(b))
  BY DEF FileInv, ServerInv, WindowInv
<1>2. UNCHANGED <<opentab, filled, ff, f_size, gone, srv>> BY DEF table, disk
<1>3. /\ call' \in [Client -> CallState] /\ fd' \in [Client -> [Fd -> Slot \cup {NULL}]]
      /\ win' \in [Client -> [Fd -> [Page -> FilePage \cup {Anon, NULL}]]]
  BY <1>1 DEF ServerTypeOK
<1>4. /\ call'[c] = k /\ fd'[c] = F /\ win'[c] = W
      /\ \A b \in Client : b # c => call'[b] = call[b] /\ fd'[b] = fd[b] /\ win'[b] = win[b]
  BY <1>1 DEF ServerTypeOK
<1>5. /\ k \in CallState /\ k.r # "inval" /\ CallRight(k, F) /\ WindowGrows(k, F, W, apart', FALSE)
      /\ \A d \in Fd : F[d] # NULL => \E b \in Client, g \in Fd : fd[b][g] = F[d]
      /\ \A d \in Fd : ~On(k, d) => Whole(F, W, d, apart')
      /\ apart \subseteq apart' /\ apart' \subseteq Slot /\ k.at \in {"user", "send"}
      /\ call[c].at \notin {"sent", "recv"} /\ calls' \in 0..MaxCalls
  OBVIOUS
<1> HIDE DEF ClientStep, Fits, Spaces
<1>6. srv.at # "recv" => srv.whom \in Client /\ srv.whom # c
  BY <1>1, <1>5 DEF InStep, AnswerRight, ServerTypeOK
<1>7. \A b \in Client, d \in Fd : fd'[b][d] # NULL => \E e \in Client, g \in Fd : fd[e][g] = fd'[b][d]
  BY <1>4, <1>5
<1>8. ServerTypeOK' BY <1>1, <1>2, <1>3, <1>5 DEF ServerTypeOK
<1>9. \A s : Filled(s)' <=> Filled(s) BY <1>2 DEF Filled
<1>10. RightFile'
  <2>1. \A b \in Client, d \in Fd : fd'[b][d] # NULL => Filled(fd'[b][d]) BY <1>1, <1>7 DEF RightFile
  <2>2. \A b \in Client : call'[b].r # "inval" BY <1>1, <1>4, <1>5 DEF RightFile
  <2> QED BY <1>2, <2>1, <2>2 DEF RightFile, Filled
<1>11. InStep' BY <1>1, <1>2, <1>4, <1>5, <1>6 DEF InStep
<1>12. IdsRight' BY <1>1, <1>2 DEF IdsRight
<1>13. AnswerRight'
  <2>1. srv.at = "reply" => fd'[srv.whom] = fd[srv.whom] BY <1>4, <1>6
  <2>2. srv.at = "reply" /\ srv.out[1].fd # NULL =>
          \A b \in Client, d \in Fd : fd'[b][d] # srv.out[1].fd
    BY <1>1, <1>7 DEF AnswerRight
  <2>3. srv.at = "reply" => FdOf(srv.whom)' = FdOf(srv.whom)
    <3>1. srv.at = "reply" => call'[srv.whom] = call[srv.whom] BY <1>4, <1>6
    <3> QED BY <1>2, <2>1, <3>1 DEF FdOf
  <2> QED BY <1>1, <1>2, <1>5, <2>2, <2>3 DEF AnswerRight, Filled
<1>14. \A b \in Client : CallRight(call[b], fd[b])'
  <2> TAKE b \in Client
  <2>1. CallRight(call'[b], fd'[b]) BY <1>1, <1>4, <1>5
  <2> QED BY <1>2, <2>1 DEF CallRight
<1>15. EachWhole'
  <2> SUFFICES ASSUME NEW b \in Client, NEW d \in Fd, ~On(call'[b], d)
               PROVE  Whole(fd[b], win[b], d, apart)'
    BY DEF EachWhole, On
  <2>1. Whole(fd'[b], win'[b], d, apart')
    <3>1. CASE b = c BY <1>4, <1>5, <3>1
    <3>2. CASE b # c
      <4>1. Whole(fd[b], win[b], d, apart) BY <1>1, <1>4, <3>2 DEF EachWhole
      <4> QED BY <1>4, <1>5, <3>2, <4>1 DEF Whole
    <3> QED BY <3>1, <3>2
  <2> QED BY <1>2, <2>1 DEF Whole
<1>16. \A b \in Client : WindowGrows(call[b], fd[b], win[b], apart, Done(b))'
  <2> TAKE b \in Client
  <2>1. CASE b = c
    <3>1. ~Done(b)' BY <1>2, <1>4, <1>5, <1>6, <2>1 DEF Done
    <3>2. WindowGrows(call'[b], fd'[b], win'[b], apart', FALSE) BY <1>4, <1>5, <2>1
    <3> QED BY <1>2, <3>1, <3>2 DEF WindowGrows
  <2>2. CASE b # c
    <3>1. Done(b)' <=> Done(b) BY <1>2, <1>4, <2>2 DEF Done
    <3>2. WindowGrows(call'[b], fd'[b], win'[b], apart, Done(b)) BY <1>1, <1>4, <2>2
    <3>3. call'[b] = call[b] /\ fd'[b] = fd[b] /\ win'[b] = win[b] BY <1>4, <2>2
    <3> QED BY <1>2, <1>5, <3>1, <3>2 DEF WindowGrows
  <2> QED BY <2>1, <2>2
<1> QED BY <1>8, <1>10, <1>11, <1>12, <1>13, <1>14, <1>15, <1>16 DEF FileInv, ServerInv, WindowInv

\* A client's step that leaves its descriptors and windows.
Stays(c, k) ==
  /\ UNCHANGED <<table, disk, srv, spaces>> /\ calls' \in 0..MaxCalls
  /\ apart \subseteq apart' /\ apart' \subseteq Slot
  /\ call[c].at \notin {"sent", "recv"} /\ k.at \in {"user", "send"}
  /\ call' = [call EXCEPT ![c] = k]
  /\ k \in CallState /\ k.r # "inval" /\ CallRight(k, fd[c])
  /\ \A d \in Fd : ~On(k, d) => Whole(fd[c], win[c], d, apart')
  /\ WindowGrows(k, fd[c], win[c], apart', FALSE)

\* and so does one that leaves its space alone.
LEMMA StaysKeeps ==
  ASSUME FileInv, NEW c \in Client, NEW k, Stays(c, k)
  PROVE  FileInv'
<1>1. fd \in [Client -> [Fd -> Slot \cup {NULL}]] /\ win \in [Client -> [Fd -> [Page -> FilePage \cup {Anon, NULL}]]]
  BY DEF FileInv, ServerInv, ServerTypeOK
<1>2. fd' = [fd EXCEPT ![c] = fd[c]] /\ win' = [win EXCEPT ![c] = win[c]]
  BY <1>1 DEF Stays, spaces
<1>3. Fits(c, k, fd[c], win[c], apart') BY <1>1 DEF Stays, Fits, Spaces
<1>4. ClientStep(c, k, fd[c], win[c]) BY <1>2, <1>3 DEF Stays, ClientStep
<1> QED BY <1>4, ClientKeeps

\* A call between two requests.
Between ==
  [op : {"idle", "dead", "open", "load", "dirty", "close", "resize", "grow", "undo", "remove",
         "sync", "dup", "exit"},
   at : {"user", "send", "sent", "recv", "got"}, req : Request, r : {"ok", "err", "inval"},
   fd : Fd \cup {-1}, i : 0..NPAGE, size : 0..NPAGE, old : 0..NPAGE \cup Fd,
   then : {"return", "dup", "exit"}]

\* The call k with a request made.
Asking(k, req) == [k EXCEPT !.at = "send", !.r = "ok", !.req = req]

\* It is the call before, but for where it is and what it asks.
LEMMA AskingIs ==
  ASSUME NEW k \in Between, NEW req \in Request, k.op \notin {"dup", "exit"}, k.fd \in Fd
  PROVE  LET a == Asking(k, req) IN
         /\ a \in CallState
         /\ a.op = k.op /\ a.at = "send" /\ a.req = req /\ a.r = "ok" /\ a.fd = k.fd
         /\ a.i = k.i /\ a.size = k.size /\ a.old = k.old /\ a.then = k.then
BY DEF Asking, Between, CallState

\* The empty request is one,
LEMMA NoReqIs == NoReq \in Request
BY FileServerAssumption DEF NoReq, Request

\* The requests with a fileid and with a path.
About(type, fileid, arg) == [NoReq EXCEPT !.type = type, !.fileid = fileid, !.arg = arg]

\* and so are the ones with a fileid
LEMMA RequestIs ==
  ASSUME NEW type \in {"map", "set_size", "close", "dirty", "sync"}, NEW fileid \in 0..(IDMOD - 1),
         NEW arg \in 0..NPAGE
  PROVE  LET q == About(type, fileid, arg) IN
         q \in Request /\ q.type = type /\ q.fileid = fileid /\ q.arg = arg
BY NoReqIs DEF About, Request

\* and those with a path.
LEMMA PathRequestIs ==
  ASSUME NEW type \in {"open", "remove"}, NEW path \in Path
  PROVE  LET q == [NoReq EXCEPT !.type = type, !.path = path] IN q \in Request /\ q.type = type
BY NoReqIs DEF Request

\* A client between calls, and one that is not there.
LEMMA IdleIs ==
  /\ Idle \in CallState /\ Dead \in CallState /\ Idle \in Between
  /\ Idle.op = "idle" /\ Idle.at = "user" /\ Idle.r = "ok" /\ Idle.then = "return" /\ Idle.fd = 0
  /\ Dead.op = "dead" /\ Dead.at = "user" /\ Dead.r = "ok" /\ Dead.then = "return"
<1>1. 0 \in Fd /\ 0 \in 0..NPAGE BY FileServerAssumption DEF Fd
<1> QED BY <1>1, NoReqIs DEF Idle, Dead, CallState, Between

\* A client that is in no call has whole windows.
LEMMA ReadyIs ==
  ASSUME FileInv, NEW c \in Client, Ready(c)
  PROVE  /\ call[c].at \notin {"sent", "recv"}
         /\ \A d \in Fd : Whole(fd[c], win[c], d, apart)
         /\ apart \subseteq Slot
<1>1. call[c].at = "user" BY DEF FileInv, ServerInv, CallRight, Ready
<1> QED BY <1>1 DEF FileInv, WindowInv, EachWhole, ServerInv, ServerTypeOK, Ready, On

\* What FileInv says of the descriptors of a client.
LEMMA DescriptorIs ==
  ASSUME FileInv, NEW c \in Client, NEW d \in Fd, fd[c][d] # NULL
  PROVE  /\ fd[c][d] \in Slot /\ Filled(fd[c][d]) /\ ff[fd[c][d]].f_fileid \in 0..(IDMOD - 1)
         /\ ff[fd[c][d]].f_size \in 0..NPAGE /\ ff[fd[c][d]].f_file \in Node
BY DEF FileInv, ServerInv, ServerTypeOK, RightFile, Filled

-----------------------------------------------------------------------------
(* The client's actions.                                                   *)

\* remove and sync make their request.
LEMMA removeKeeps ==
  ASSUME FileInv, NEW c \in Client, NEW path \in Path, remove(c, path), calls' \in 0..MaxCalls
  PROVE  FileInv'
<1> DEFINE k == [Idle EXCEPT !.op = "remove"]
           req == [NoReq EXCEPT !.type = "remove", !.path = path]
           a == Asking(k, req)
<1>1. k \in Between /\ k.op = "remove" /\ k.fd = 0 /\ k.then = "return" BY IdleIs DEF Between
<1>2. req \in Request /\ req.type = "remove" BY PathRequestIs
<1>3. 0 \in Fd BY FileServerAssumption DEF Fd
<1>4. call' = [call EXCEPT ![c] = a] /\ UNCHANGED <<table, disk, srv, spaces, apart>> /\ Ready(c)
  BY DEF remove, AskPath, AskFor, Asking
<1> HIDE DEF k, req
<1>5. /\ a \in CallState /\ a.op = "remove" /\ a.at = "send" /\ a.req = req /\ a.r = "ok"
      /\ a.then = "return"
  BY <1>1, <1>2, <1>3, AskingIs
<1> HIDE DEF a
<1>6. CallRight(a, fd[c]) BY <1>2, <1>5 DEF CallRight, FileOp
<1>7. WindowGrows(a, fd[c], win[c], apart', FALSE) BY <1>5 DEF WindowGrows
<1>8. Stays(c, a) BY <1>4, <1>5, <1>6, <1>7, ReadyIs DEF Stays
<1> QED BY <1>8, StaysKeeps

\* sync asks the server.
LEMMA syncKeeps ==
  ASSUME FileInv, NEW c \in Client, sync(c), calls' \in 0..MaxCalls
  PROVE  FileInv'
<1> DEFINE k == [Idle EXCEPT !.op = "sync"]
           req == About("sync", 0, 0)
           a == Asking(k, req)
<1>1. k \in Between /\ k.op = "sync" /\ k.fd = 0 /\ k.then = "return" BY IdleIs DEF Between
<1>2. req \in Request /\ req.type = "sync"
  <2>1. 0 \in 0..(IDMOD - 1) /\ 0 \in 0..NPAGE BY FileServerAssumption
  <2> QED BY <2>1, RequestIs
<1>3. 0 \in Fd BY FileServerAssumption DEF Fd
<1>4. call' = [call EXCEPT ![c] = a] /\ UNCHANGED <<table, disk, srv, spaces, apart>> /\ Ready(c)
  BY DEF sync, Ask, AskFor, Asking, About
<1> HIDE DEF k, req
<1>5. /\ a \in CallState /\ a.op = "sync" /\ a.at = "send" /\ a.req = req /\ a.r = "ok"
      /\ a.then = "return"
  BY <1>1, <1>2, <1>3, AskingIs
<1> HIDE DEF a
<1>6. CallRight(a, fd[c]) BY <1>2, <1>5 DEF CallRight, FileOp
<1>7. WindowGrows(a, fd[c], win[c], apart', FALSE) BY <1>5 DEF WindowGrows
<1>8. Stays(c, a) BY <1>4, <1>5, <1>6, <1>7, ReadyIs DEF Stays
<1> QED BY <1>8, StaysKeeps

\* open asks for a descriptor that is not in use.
LEMMA openKeeps ==
  ASSUME FileInv, NEW c \in Client, NEW path \in Path, open(c, path), calls' \in 0..MaxCalls
  PROVE  FileInv'
<1> DEFINE x == Least(fd_alloc(c))
           k == [Idle EXCEPT !.op = "open", !.fd = x]
           req == [NoReq EXCEPT !.type = "open", !.path = path]
           a == Asking(k, req)
<1>1. x \in Fd /\ fd[c][x] = NULL
  <2>1. fd_alloc(c) \in SUBSET Nat /\ fd_alloc(c) # {} BY FileServerAssumption DEF fd_alloc, Fd, open
  <2>2. x \in fd_alloc(c) BY <2>1, LeastIs
  <2> QED BY <2>2 DEF fd_alloc
<1>2. call' = [call EXCEPT ![c] = a] /\ UNCHANGED <<table, disk, srv, spaces, apart>> /\ Ready(c)
  BY DEF open, AskPath, AskFor, Asking
<1> HIDE DEF x
<1>3. k \in Between /\ k.op = "open" /\ k.fd = x /\ k.then = "return" BY <1>1, IdleIs DEF Between
<1>4. req \in Request /\ req.type = "open" BY PathRequestIs
<1> HIDE DEF k, req
<1>5. /\ a \in CallState /\ a.op = "open" /\ a.at = "send" /\ a.req = req /\ a.r = "ok"
      /\ a.then = "return" /\ a.fd = x
  BY <1>1, <1>3, <1>4, AskingIs
<1> HIDE DEF a
<1>6. CallRight(a, fd[c]) BY <1>1, <1>4, <1>5 DEF CallRight, FileOp
<1>7. WindowGrows(a, fd[c], win[c], apart', FALSE) BY <1>1, <1>5 DEF WindowGrows
<1>8. Stays(c, a) BY <1>2, <1>5, <1>6, <1>7, ReadyIs DEF Stays
<1> QED BY <1>8, StaysKeeps

\* The call k of c begins to close the descriptor that it is about, which F gives.
LEMMA AskCloseFits ==
  ASSUME FileInv, NEW c \in Client, NEW k \in Between, k.fd \in Fd, NEW F, NEW W, NEW A, Spaces(F, W),
         F[k.fd] # NULL, k.then = "dup" => k.old \in Fd, k.r # "inval",
         \A d \in Fd : F[d] # NULL => \E b \in Client, g \in Fd : fd[b][g] = F[d],
         \A d \in Fd : k.fd # d => Whole(F, W, d, A),
         AskClose(c, k, F[k.fd])
  PROVE  \E a : a.at = "send" /\ call' = [call EXCEPT ![c] = a] /\ Fits(c, a, F, W, A)
<1> DEFINE s == F[k.fd]
           z == CloseRequest(k, s)
           req == About(z.op, ff[s].f_fileid, 0)
           a == Asking(z, req)
<1>1. s \in Slot /\ ff[s].f_fileid \in 0..(IDMOD - 1) /\ ff[s].f_size \in 0..NPAGE
  BY DescriptorIs
<1>2. call' = [call EXCEPT ![c] = a] BY DEF AskClose, Ask, AskFor, Asking, About
<1>3. 0 \in 0..NPAGE BY FileServerAssumption
<1>4. /\ z \in Between /\ z.op \in {"dirty", "close"} /\ z.fd = k.fd /\ z.old = k.old
      /\ z.then = k.then
  BY <1>1, <1>3 DEF CloseRequest, Between
<1> HIDE DEF z
<1>5. req \in Request /\ req.type = z.op /\ req.fileid = ff[s].f_fileid
  BY <1>1, <1>3, <1>4, RequestIs
<1> HIDE DEF req
<1>6. /\ a \in CallState /\ a.op = z.op /\ a.at = "send" /\ a.req = req /\ a.r = "ok"
      /\ a.fd = k.fd /\ a.then = k.then /\ a.old = k.old
  BY <1>4, <1>5, AskingIs
<1> HIDE DEF a
<1>7. CallRight(a, F) BY <1>4, <1>5, <1>6 DEF CallRight, FileOp
<1>8. WindowGrows(a, F, W, A, FALSE) BY <1>4, <1>6 DEF WindowGrows
<1>9. Fits(c, a, F, W, A) BY <1>4, <1>6, <1>7, <1>8 DEF Fits, On
<1> QED BY <1>2, <1>6, <1>9

\* close.
LEMMA closeKeeps ==
  ASSUME FileInv, NEW c \in Client, NEW d \in Fd, close(c, d), calls' \in 0..MaxCalls
  PROVE  FileInv'
<1> DEFINE k == [Idle EXCEPT !.fd = d]
<1>1. k \in Between /\ k.fd = d /\ k.then = "return" /\ k.r = "ok" BY IdleIs DEF Between
<1>2. /\ Ready(c) /\ fd[c][d] # NULL /\ AskClose(c, k, fd[c][d])
      /\ UNCHANGED <<table, disk, srv, spaces, apart>>
  BY DEF close
<1> HIDE DEF k
<1>3. Spaces(fd[c], win[c]) BY DEF Spaces, FileInv, ServerInv, ServerTypeOK
<1>4. \A g \in Fd : Whole(fd[c], win[c], g, apart') BY <1>2, ReadyIs
<1>5. PICK a : a.at = "send" /\ call' = [call EXCEPT ![c] = a] /\ Fits(c, a, fd[c], win[c], apart')
  BY <1>1, <1>2, <1>3, <1>4, AskCloseFits
<1>6. Stays(c, a) BY <1>2, <1>5, ReadyIs DEF Stays, Fits
<1> QED BY <1>6, StaysKeeps

\* Nothing is asked of a client that returns from its calls or is dead.
LEMMA AtRest ==
  ASSUME NEW k \in {Idle, Dead}, NEW F, NEW W, NEW A
  PROVE  /\ k \in CallState /\ k.r # "inval" /\ k.at = "user" /\ CallRight(k, F)
         /\ WindowGrows(k, F, W, A, FALSE)
<1>1. /\ k \in CallState /\ k.r = "ok" /\ k.at = "user" /\ k.op \in {"idle", "dead"}
      /\ k.then = "return"
  BY IdleIs
<1> HIDE DEF Idle, Dead
<1>2. CallRight(k, F) BY <1>1 DEF CallRight, FileOp
<1>3. WindowGrows(k, F, W, A, FALSE) BY <1>1 DEF WindowGrows
<1> QED BY <1>1, <1>2, <1>3

\* What follows a close: return, the rest of dup, or the next close of close_all.
Closes(c, k, F, W) ==
  /\ k \in Between /\ k.r # "inval" /\ Spaces(F, W)
  /\ k.then = "dup" => k.old \in Fd /\ k.fd \in Fd /\ F[k.fd] = NULL
  /\ call[c].at \notin {"sent", "recv"}
  /\ \A d \in Fd : F[d] # NULL => \E b \in Client, g \in Fd : fd[b][g] = F[d]
  /\ \A d \in Fd : Whole(F, W, d, apart)
  /\ UNCHANGED <<table, disk, srv, apart>> /\ calls' \in 0..MaxCalls

Moves(c, a, G, V) ==
  /\ a.at \in {"user", "send"} /\ Fits(c, a, G, V, apart)
  /\ call' = [call EXCEPT ![c] = a]
  /\ fd' = [fd EXCEPT ![c] = G] /\ win' = [win EXCEPT ![c] = V]

\* close_all goes on with the next descriptor, dup maps the copy, close returns.
LEMMA AfterKeeps ==
  ASSUME FileInv, NEW c \in Client, NEW k, NEW F, NEW W, Closes(c, k, F, W), After(c, k, F, W)
  PROVE  FileInv'
<1>1. /\ k \in Between /\ k.r # "inval" /\ Spaces(F, W)
      /\ k.then = "dup" => k.old \in Fd /\ k.fd \in Fd /\ F[k.fd] = NULL
      /\ \A d \in Fd : F[d] # NULL => \E b \in Client, g \in Fd : fd[b][g] = F[d]
      /\ \A d \in Fd : Whole(F, W, d, apart)
  BY DEF Closes
<1>2. ASSUME NEW a, NEW G, NEW V, Moves(c, a, G, V) PROVE FileInv'
  <2>1. apart' = apart /\ apart \subseteq Slot BY DEF Closes, FileInv, ServerInv, ServerTypeOK
  <2>2. ClientStep(c, a, G, V) BY <1>2, <2>1 DEF ClientStep, Closes, Moves
  <2> QED BY <2>2, ClientKeeps
<1>3. Idle.at = "user" /\ Dead.at = "user" BY IdleIs
<1>4. CASE /\ Return(c) /\ fd' = [fd EXCEPT ![c] = F] /\ win' = [win EXCEPT ![c] = W]
  <2>1. Fits(c, Idle, F, W, apart) BY <1>1, AtRest DEF Fits
  <2>2. Moves(c, Idle, F, W) BY <1>3, <1>4, <2>1 DEF Return, Moves
  <2> QED BY <1>2, <2>2
<1>5. CASE /\ k.then = "dup" /\ F[k.old] # NULL
           /\ Return(c)
           /\ fd' = [fd EXCEPT ![c] = [F EXCEPT ![k.fd] = F[k.old]]]
           /\ win' = [win EXCEPT ![c] = [W EXCEPT ![k.fd] =
                       [p \in Page |-> IF W[k.old][p] # NULL THEN W[k.old][p] ELSE W[k.fd][p]]]]
  <2> DEFINE G == [F EXCEPT ![k.fd] = F[k.old]]
             row == [p \in Page |-> IF W[k.old][p] # NULL THEN W[k.old][p] ELSE W[k.fd][p]]
             V == [W EXCEPT ![k.fd] = row]
             s == F[k.old]
             f == ff[s].f_file
  <2>1. k.old \in Fd /\ k.fd \in Fd BY <1>1, <1>5
  <2>2. row \in [Page -> FilePage \cup {Anon, NULL}] BY <1>1, <2>1 DEF Spaces
  <2>3. f \in Node /\ \A p \in Page : <<f, p>> # NULL
    <3>1. f \in Node BY <1>1, <1>5, <2>1, DescriptorIs
    <3> QED BY <3>1, FileServerAssumption
  <2>4. \A p \in Page : row[p] = IF W[k.old][p] # NULL THEN W[k.old][p] ELSE W[k.fd][p] OBVIOUS
  <2> HIDE DEF row
  <2>5. /\ G \in [Fd -> Slot \cup {NULL}] /\ V \in [Fd -> [Page -> FilePage \cup {Anon, NULL}]]
        /\ G[k.fd] = s /\ V[k.fd] = row /\ \A d \in Fd : d # k.fd => G[d] = F[d] /\ V[d] = W[d]
    BY <1>1, <2>1, <2>2 DEF Spaces
  <2>6. call' = [call EXCEPT ![c] = Idle] /\ fd' = [fd EXCEPT ![c] = G] /\ win' = [win EXCEPT ![c] = V]
    BY <1>5 DEF Return, row
  <2> HIDE DEF G, V
  <2>7. ASSUME NEW d \in Fd PROVE Whole(G, V, d, apart)
    <3>1. CASE d # k.fd
      <4>1. Whole(F, W, d, apart) BY <1>1
      <4> QED BY <2>5, <3>1, <4>1 DEF Whole
    <3>2. CASE d = k.fd
      <4>1. Whole(F, W, k.old, apart) BY <1>1, <2>1
      <4>2. s \notin apart => /\ ff[s].f_size = f_size[f]
                              /\ \A p \in Page : p < ff[s].f_size => W[k.old][p] = <<f, p>>
        BY <1>5, <4>1 DEF Whole
      <4>3. s \notin apart => \A p \in Page : p < ff[s].f_size => row[p] = <<f, p>>
        BY <2>3, <2>4, <4>2
      <4> QED BY <2>5, <3>2, <4>2, <4>3 DEF Whole
    <3> QED BY <3>1, <3>2
  <2>8. \A d \in Fd : G[d] # NULL => \E b \in Client, g \in Fd : fd[b][g] = G[d]
    BY <1>1, <1>5, <2>1, <2>5
  <2>9. Fits(c, Idle, G, V, apart) BY <2>5, <2>7, <2>8, AtRest DEF Fits, Spaces
  <2>10. Moves(c, Idle, G, V) BY <1>3, <2>6, <2>9 DEF Moves
  <2> QED BY <1>2, <2>10
<1>6. CASE /\ k.then = "dup" /\ Return(c)
           /\ fd' = [fd EXCEPT ![c] = F] /\ win' = [win EXCEPT ![c] = [W EXCEPT ![k.fd] = Blank]]
  <2> DEFINE V == [W EXCEPT ![k.fd] = Blank]
  <2>1. k.fd \in Fd /\ F[k.fd] = NULL BY <1>1, <1>6
  <2>2. V \in [Fd -> [Page -> FilePage \cup {Anon, NULL}]] /\ \A d \in Fd : d # k.fd => V[d] = W[d]
    BY <1>1, <2>1 DEF Spaces, Blank
  <2>3. call' = [call EXCEPT ![c] = Idle] /\ win' = [win EXCEPT ![c] = V] BY <1>6 DEF Return
  <2> HIDE DEF V
  <2>4. ASSUME NEW d \in Fd PROVE Whole(F, V, d, apart)
    <3>1. Whole(F, W, d, apart) BY <1>1
    <3> QED BY <2>1, <2>2, <3>1 DEF Whole
  <2>5. Fits(c, Idle, F, V, apart) BY <1>1, <2>2, <2>4, AtRest DEF Fits, Spaces
  <2>6. Moves(c, Idle, F, V) BY <1>3, <1>6, <2>3, <2>5 DEF Moves
  <2> QED BY <1>2, <2>6
<1>7. ASSUME NEW x \in Fd, F[x] # NULL, AskClose(c, [k EXCEPT !.fd = x], F[x]),
             fd' = [fd EXCEPT ![c] = F], win' = [win EXCEPT ![c] = W], k.then = "exit"
      PROVE  FileInv'
  <2> DEFINE z == [k EXCEPT !.fd = x]
  <2>1. z \in Between /\ z.fd = x /\ z.then = "exit" /\ z.r # "inval" BY <1>1, <1>7 DEF Between
  <2>2. AskClose(c, z, F[z.fd]) /\ F[z.fd] # NULL BY <1>7, <2>1
  <2> HIDE DEF z
  <2>3. \E a : a.at = "send" /\ call' = [call EXCEPT ![c] = a] /\ Fits(c, a, F, W, apart)
    BY <1>1, <2>1, <2>2, AskCloseFits
  <2>4. \E a : Moves(c, a, F, W) BY <1>7, <2>3 DEF Moves
  <2> QED BY <1>2, <2>4
<1>8. CASE /\ call' = [call EXCEPT ![c] = Dead]
           /\ fd' = [fd EXCEPT ![c] = Closed] /\ win' = [win EXCEPT ![c] = Empty]
  <2>1. Spaces(Closed, Empty) /\ \A d \in Fd : Closed[d] = NULL
    BY DEF Spaces, Closed, Empty, Blank
  <2>2. Fits(c, Dead, Closed, Empty, apart) BY <2>1, AtRest DEF Fits, Whole
  <2>3. Moves(c, Dead, Closed, Empty) BY <1>3, <1>8, <2>2 DEF Moves
  <2> QED BY <1>2, <2>3
<1>9. CASE /\ k.then = "exit"
           /\ LET next == {d \in Fd : d > k.fd /\ F[d] # NULL} IN
              IF next # {}
              THEN /\ AskClose(c, [k EXCEPT !.fd = Least(next)], F[Least(next)])
                   /\ fd' = [fd EXCEPT ![c] = F] /\ win' = [win EXCEPT ![c] = W]
              ELSE /\ call' = [call EXCEPT ![c] = Dead]
                   /\ fd' = [fd EXCEPT ![c] = Closed] /\ win' = [win EXCEPT ![c] = Empty]
  <2> DEFINE next == {d \in Fd : d > k.fd /\ F[d] # NULL}
             x == Least(next)
  <2>1. CASE next # {}
    <3>1. next \in SUBSET Nat BY FileServerAssumption DEF Fd
    <3>2. x \in next BY <2>1, <3>1, LeastIs
    <3>3. x \in Fd /\ F[x] # NULL BY <3>2
    <3>4. /\ AskClose(c, [k EXCEPT !.fd = x], F[x]) /\ fd' = [fd EXCEPT ![c] = F]
          /\ win' = [win EXCEPT ![c] = W] /\ k.then = "exit"
      BY <1>9, <2>1
    <3> HIDE DEF x
    <3> QED BY <1>7, <3>3, <3>4
  <2>2. CASE next = {} BY <1>8, <1>9, <2>2
  <2> QED BY <2>1, <2>2
<1> QED BY <1>4, <1>5, <1>6, <1>9 DEF After

\* A client that is in no call, as the beginning of dup or exit.
LEMMA ReadyCloses ==
  ASSUME FileInv, NEW c \in Client, Ready(c), NEW k \in Between, k.r # "inval",
         k.then = "dup" => k.old \in Fd /\ k.fd \in Fd /\ fd[c][k.fd] = NULL,
         UNCHANGED <<table, disk, srv, apart>>, calls' \in 0..MaxCalls
  PROVE  Closes(c, k, fd[c], win[c])
<1>1. Spaces(fd[c], win[c]) BY DEF Spaces, FileInv, ServerInv, ServerTypeOK
<1> QED BY <1>1, ReadyIs DEF Closes

\* dup closes the new descriptor first.
LEMMA dupKeeps ==
  ASSUME FileInv, NEW c \in Client, NEW old \in Fd, NEW new \in Fd, dup(c, old, new),
         calls' \in 0..MaxCalls
  PROVE  FileInv'
<1> DEFINE k == [Idle EXCEPT !.op = "dup", !.fd = new, !.old = old, !.then = "dup"]
<1>1. k \in Between /\ k.fd = new /\ k.old = old /\ k.then = "dup" /\ k.r = "ok"
  BY IdleIs DEF Between
<1>2. /\ Ready(c) /\ UNCHANGED <<table, disk, srv, apart>>
      /\ fd[c][new] # NULL => AskClose(c, k, fd[c][new]) /\ UNCHANGED spaces
      /\ fd[c][new] = NULL => After(c, k, fd[c], win[c])
  BY DEF dup
<1> HIDE DEF k
<1>3. CASE fd[c][new] # NULL
  <2>1. Spaces(fd[c], win[c]) BY DEF Spaces, FileInv, ServerInv, ServerTypeOK
  <2>2. \A g \in Fd : Whole(fd[c], win[c], g, apart') BY <1>2, ReadyIs
  <2>3. PICK a : a.at = "send" /\ call' = [call EXCEPT ![c] = a] /\ Fits(c, a, fd[c], win[c], apart')
    BY <1>1, <1>2, <1>3, <2>1, <2>2, AskCloseFits
  <2>4. Stays(c, a) BY <1>2, <1>3, <2>3, ReadyIs DEF Stays, Fits
  <2> QED BY <2>4, StaysKeeps
<1>4. CASE fd[c][new] = NULL
  <2>1. Closes(c, k, fd[c], win[c]) BY <1>1, <1>2, <1>4, ReadyCloses
  <2> QED BY <1>2, <1>4, <2>1, AfterKeeps
<1> QED BY <1>3, <1>4

\* exit closes them all.
LEMMA exitKeeps ==
  ASSUME FileInv, NEW c \in Client, exit(c), calls' \in 0..MaxCalls
  PROVE  FileInv'
<1> DEFINE k == [Idle EXCEPT !.op = "exit", !.fd = -1, !.then = "exit"]
<1>1. k \in Between /\ k.then = "exit" /\ k.r = "ok" BY IdleIs DEF Between
<1>2. Ready(c) /\ UNCHANGED <<table, disk, srv, apart>> /\ After(c, k, fd[c], win[c]) BY DEF exit
<1> HIDE DEF k
<1>3. Closes(c, k, fd[c], win[c]) BY <1>1, <1>2, ReadyCloses
<1> QED BY <1>2, <1>3, AfterKeeps

\* A client that has its answer.
LEMMA GotIs ==
  ASSUME FileInv, NEW c \in Client, call[c].at = "got"
  PROVE  /\ call[c] \in CallState /\ call[c] \in Between /\ call[c].r # "inval"
         /\ CallRight(call[c], fd[c])
         /\ WindowGrows(call[c], fd[c], win[c], apart, TRUE)
         /\ \A d \in Fd : ~On(call[c], d) => Whole(fd[c], win[c], d, apart)
         /\ Spaces(fd[c], win[c]) /\ apart \subseteq Slot
<1>1. /\ call[c] \in CallState /\ call[c].r # "inval" /\ CallRight(call[c], fd[c])
      /\ Spaces(fd[c], win[c]) /\ apart \subseteq Slot
      /\ \A d \in Fd : ~On(call[c], d) => Whole(fd[c], win[c], d, apart)
      /\ WindowGrows(call[c], fd[c], win[c], apart, Done(c))
  BY DEF FileInv, ServerInv, ServerTypeOK, RightFile, WindowInv, EachWhole, Spaces
<1>2. Done(c) BY DEF Done
<1>3. call[c] \in Between BY <1>1 DEF CallState, Between
<1>4. WindowGrows(call[c], fd[c], win[c], apart, TRUE) BY <1>1, <1>2 DEF WindowGrows
<1> QED BY <1>1, <1>3, <1>4

\* remove and sync return.
LEMMA returnKeeps ==
  ASSUME FileInv, NEW c \in Client, return(c), calls' \in 0..MaxCalls
  PROVE  FileInv'
<1>1. /\ call[c].at = "got" /\ call[c].op \in {"remove", "sync"} /\ call' = [call EXCEPT ![c] = Idle]
      /\ UNCHANGED <<table, disk, srv, spaces, apart>>
  BY DEF return, Return, Got
<1>2. \A d \in Fd : Whole(fd[c], win[c], d, apart') BY <1>1, GotIs DEF On
<1>3. Stays(c, Idle) BY <1>1, <1>2, GotIs, AtRest DEF Stays
<1> QED BY <1>3, StaysKeeps

\* file_close goes on: the next dirty page, the close, then the unmapping.
LEMMA close_nextKeeps ==
  ASSUME FileInv, NEW c \in Client, close_next(c), calls' \in 0..MaxCalls
  PROVE  FileInv'
<1> DEFINE k == call[c]
           s == fd[c][k.fd]
<1>1. k.at = "got" /\ k.op \in {"dirty", "close"} /\ UNCHANGED <<table, disk, srv, apart>>
  BY DEF close_next, Got
<1>2. /\ k \in CallState /\ k \in Between /\ k.r # "inval" /\ CallRight(k, fd[c])
      /\ Spaces(fd[c], win[c]) /\ apart \subseteq Slot
      /\ \A d \in Fd : d # k.fd => Whole(fd[c], win[c], d, apart)
  BY <1>1, GotIs DEF On
<1>3. k.fd \in Fd /\ s # NULL /\ (k.then = "dup" => k.old \in Fd)
  BY <1>1, <1>2 DEF CallState, CallRight, FileOp
<1>4. s \in Slot /\ ff[s].f_fileid \in 0..(IDMOD - 1) BY <1>3, DescriptorIs
<1>5. FileId(c) = ff[s].f_fileid BY DEF FileId, FdOf
<1>6. ASSUME NEW z \in Between, z.op \in {"dirty", "close"}, z.fd = k.fd, z.then = k.then, z.old = k.old,
             NEW i \in 0..NPAGE, call' = [call EXCEPT ![c] = Asking(z, About(z.op, FileId(c), i))],
             UNCHANGED spaces
      PROVE  FileInv'
  <2> DEFINE req == About(z.op, FileId(c), i)
             a == Asking(z, req)
  <2>1. req \in Request /\ req.type = z.op /\ req.fileid = ff[s].f_fileid
    BY <1>4, <1>5, <1>6, RequestIs
  <2>2. call' = [call EXCEPT ![c] = a] BY <1>6
  <2> HIDE DEF req
  <2>3. /\ a \in CallState /\ a.op = z.op /\ a.at = "send" /\ a.req = req /\ a.r = "ok"
        /\ a.fd = k.fd /\ a.then = k.then /\ a.old = k.old
    BY <1>3, <1>6, <2>1, AskingIs
  <2> HIDE DEF a
  <2>4. CallRight(a, fd[c]) BY <1>3, <1>6, <2>1, <2>3 DEF CallRight, FileOp
  <2>5. WindowGrows(a, fd[c], win[c], apart', FALSE) BY <1>6, <2>3 DEF WindowGrows
  <2>6. Stays(c, a) BY <1>1, <1>2, <1>6, <2>2, <2>3, <2>4, <2>5 DEF Stays, On
  <2> QED BY <2>6, StaysKeeps
<1>7. CASE /\ Got(c, "dirty") /\ k.i + 1 < k.size
           /\ Ask(c, [k EXCEPT !.i = @ + 1], "dirty", FileId(c), k.i + 1)
           /\ UNCHANGED spaces
  <2> DEFINE z == [k EXCEPT !.i = @ + 1]
             i == k.i + 1
  <2>1. k.i \in 0..NPAGE /\ k.size \in 0..NPAGE /\ NPAGE \in Nat
    BY <1>2, FileServerAssumption DEF CallState
  <2>2. i \in 0..NPAGE BY <1>7, <2>1
  <2>3. /\ z \in Between /\ z.op = "dirty" /\ z.fd = k.fd /\ z.then = k.then /\ z.old = k.old
    BY <1>2, <1>7, <2>2 DEF Between, Got
  <2>4. call' = [call EXCEPT ![c] = Asking(z, About("dirty", FileId(c), i))]
    BY <1>7 DEF Ask, AskFor, Asking, About
  <2> HIDE DEF z, i
  <2> QED BY <1>6, <1>7, <2>2, <2>3, <2>4
<1>8. CASE /\ Got(c, "dirty") /\ k.i + 1 >= k.size
           /\ Ask(c, [k EXCEPT !.op = "close"], "close", FileId(c), 0)
           /\ UNCHANGED spaces
  <2> DEFINE z == [k EXCEPT !.op = "close"]
  <2>1. 0 \in 0..NPAGE BY FileServerAssumption
  <2>2. /\ z \in Between /\ z.op = "close" /\ z.fd = k.fd /\ z.then = k.then /\ z.old = k.old
    BY <1>2 DEF Between
  <2>3. call' = [call EXCEPT ![c] = Asking(z, About("close", FileId(c), 0))]
    BY <1>8 DEF Ask, AskFor, Asking, About
  <2> HIDE DEF z
  <2> QED BY <1>6, <1>8, <2>1, <2>2, <2>3
<1>9. CASE Got(c, "close")
  <2> DEFINE row == [p \in Page |-> IF p < k.size THEN NULL ELSE win[c][k.fd][p]]
             W == IF k.r # "ok" THEN win[c] ELSE [win[c] EXCEPT ![k.fd] = row]
             F == [fd[c] EXCEPT ![k.fd] = NULL]
  <2>1. After(c, k, F, W)
    <3>1. After(c, k, F, IF k.r # "ok" THEN win[c] ELSE [win[c] EXCEPT ![k.fd] =
                           [p \in Page |-> IF p < k.size THEN NULL ELSE @[p]]])
      BY <1>9 DEF close_next, Got
    <3>2. [win[c] EXCEPT ![k.fd] = [p \in Page |-> IF p < k.size THEN NULL ELSE @[p]]]
            = [win[c] EXCEPT ![k.fd] = row]
      BY <1>2, <1>3 DEF Spaces
    <3> QED BY <3>1, <3>2
  <2>2. row \in [Page -> FilePage \cup {Anon, NULL}] BY <1>2, <1>3 DEF Spaces
  <2> HIDE DEF row
  <2>3. /\ W \in [Fd -> [Page -> FilePage \cup {Anon, NULL}]] /\ F \in [Fd -> Slot \cup {NULL}]
        /\ F[k.fd] = NULL /\ \A d \in Fd : d # k.fd => F[d] = fd[c][d] /\ W[d] = win[c][d]
    BY <1>2, <1>3, <2>2 DEF Spaces
  <2> HIDE DEF F, W
  <2>4. ASSUME NEW d \in Fd PROVE Whole(F, W, d, apart)
    <3>1. CASE d = k.fd BY <2>3, <3>1 DEF Whole
    <3>2. CASE d # k.fd
      <4>1. Whole(fd[c], win[c], d, apart) BY <1>2, <3>2
      <4> QED BY <2>3, <3>2, <4>1 DEF Whole
    <3> QED BY <3>1, <3>2
  <2>5. \A d \in Fd : F[d] # NULL => \E b \in Client, g \in Fd : fd[b][g] = F[d]
    BY <2>3
  <2>6. Closes(c, k, F, W) BY <1>1, <1>2, <1>3, <2>3, <2>4, <2>5 DEF Closes, Spaces
  <2> QED BY <2>1, <2>6, AfterKeeps
<1> QED BY <1>7, <1>8, <1>9 DEF close_next

\* A client is destroyed where it runs.
LEMMA destroyKeeps ==
  ASSUME FileInv, NEW c \in Client, destroy(c), calls' \in 0..MaxCalls
  PROVE  FileInv'
<1>1. Spaces(Closed, Empty) /\ \A d \in Fd : Closed[d] = NULL
  BY DEF Spaces, Closed, Empty, Blank
<1>2. Fits(c, Dead, Closed, Empty, apart') BY <1>1, AtRest DEF Fits, Whole
<1>3. Ready(c) /\ UNCHANGED <<table, disk, srv, apart>> BY DEF destroy
<1>4. Dead.at = "user" BY IdleIs
<1>5. ClientStep(c, Dead, Closed, Empty)
  BY <1>2, <1>3, <1>4, ReadyIs DEF destroy, ClientStep
<1> QED BY <1>5, ClientKeeps

\* A child gets the descriptors and the windows of its parent.
LEMMA forkKeeps ==
  ASSUME FileInv, NEW c \in Client, NEW child \in Client, fork(c, child), calls' \in 0..MaxCalls
  PROVE  FileInv'
<1>1. Ready(c) /\ UNCHANGED <<table, disk, srv, apart>> /\ call[child].op = "dead" BY DEF fork
<1>2. Spaces(fd[c], win[c]) BY DEF Spaces, FileInv, ServerInv, ServerTypeOK
<1>3. Fits(child, Idle, fd[c], win[c], apart') BY <1>1, <1>2, ReadyIs, AtRest DEF Fits
<1>4. Idle.at = "user" BY IdleIs
<1>5. call[child].at = "user" BY <1>1 DEF FileInv, ServerInv, CallRight
<1>6. ClientStep(child, Idle, fd[c], win[c])
  BY <1>1, <1>3, <1>4, <1>5, ReadyIs DEF fork, ClientStep
<1> QED BY <1>6, ClientKeeps

\* Where a descriptor's window is whole there is no hole for a page fault to fill.
LEMMA file_readKeeps ==
  ASSUME FileInv, NEW c \in Client, NEW d \in Fd, NEW p \in Page, file_read(c, d, p),
         calls' \in 0..MaxCalls
  PROVE  FileInv'
<1> DEFINE W == [win[c] EXCEPT ![d] = [win[c][d] EXCEPT ![p] = Anon]]
           s == fd[c][d]
<1>1. /\ Ready(c) /\ s # NULL /\ p < ff[s].f_size /\ win[c][d][p] = NULL
      /\ UNCHANGED <<table, disk, srv, fd, call, apart>>
  BY DEF file_read
<1>2. Spaces(fd[c], win[c]) /\ win \in [Client -> [Fd -> [Page -> FilePage \cup {Anon, NULL}]]]
      /\ fd \in [Client -> [Fd -> Slot \cup {NULL}]] /\ call \in [Client -> CallState]
      /\ call[c].r # "inval" /\ CallRight(call[c], fd[c])
  BY DEF Spaces, FileInv, ServerInv, ServerTypeOK, RightFile
<1>3. W \in [Fd -> [Page -> FilePage \cup {Anon, NULL}]] /\ \A g \in Fd : g # d => W[g] = win[c][g]
  BY <1>2 DEF Spaces
<1>4. win' = [win EXCEPT ![c] = W] BY <1>2 DEF file_read
<1> HIDE DEF W
<1>5. fd' = [fd EXCEPT ![c] = fd[c]] /\ call' = [call EXCEPT ![c] = call[c]] BY <1>1, <1>2
<1>6. s \in apart
  <2>1. Whole(fd[c], win[c], d, apart) BY <1>1, ReadyIs
  <2>2. <<ff[s].f_file, p>> # NULL BY <1>1, DescriptorIs, FileServerAssumption
  <2> QED BY <1>1, <2>1, <2>2 DEF Whole
<1>7. ASSUME NEW g \in Fd PROVE Whole(fd[c], W, g, apart)
  <2>1. CASE g = d BY <1>6, <2>1 DEF Whole
  <2>2. CASE g # d
    <3>1. Whole(fd[c], win[c], g, apart) BY <1>1, ReadyIs
    <3> QED BY <1>3, <2>2, <3>1 DEF Whole
  <2> QED BY <2>1, <2>2
<1>8. call[c].op = "idle" /\ call[c].at = "user" BY <1>1, <1>2 DEF Ready, CallRight
<1>9. WindowGrows(call[c], fd[c], W, apart, FALSE) BY <1>8 DEF WindowGrows
<1>10. Fits(c, call[c], fd[c], W, apart') BY <1>1, <1>2, <1>3, <1>7, <1>9 DEF Fits, Spaces
<1>11. ClientStep(c, call[c], fd[c], W)
  BY <1>1, <1>4, <1>5, <1>8, <1>10, ReadyIs DEF ClientStep
<1> QED BY <1>11, ClientKeeps

\* open maps the pages of the file one by one; when that fails the window stays as it is.
LEMMA open_nextKeeps ==
  ASSUME FileInv, NEW c \in Client, open_next(c), calls' \in 0..MaxCalls
  PROVE  FileInv'
<1> DEFINE k == call[c]
           s == fd[c][k.fd]
           f == ff[s].f_file
           size == IF k.op = "open" THEN ff[s].f_size ELSE k.size
           i    == IF k.op = "open" THEN 0 ELSE k.i + 1
<1>1. /\ k.at = "got" /\ k.op \in {"open", "load"} /\ UNCHANGED <<table, disk, srv, spaces>>
  BY DEF open_next, Got
<1>2. /\ k \in CallState /\ k \in Between /\ k.r # "inval" /\ CallRight(k, fd[c])
      /\ WindowGrows(k, fd[c], win[c], apart, TRUE) /\ apart \subseteq Slot
      /\ \A d \in Fd : d # k.fd => Whole(fd[c], win[c], d, apart)
  BY <1>1, GotIs DEF On
<1>3. /\ k.fd \in Fd /\ k.i \in 0..NPAGE /\ k.size \in 0..NPAGE /\ (k.then = "dup" => k.old \in Fd)
      /\ NPAGE \in Nat /\ s \in Slot \cup {NULL}
  BY <1>2, FileServerAssumption DEF CallState, CallRight, FileInv, ServerInv, ServerTypeOK
<1>4. ASSUME call' = [call EXCEPT ![c] = Idle], apart \subseteq apart', apart' \subseteq Slot,
             Whole(fd[c], win[c], k.fd, apart')
      PROVE  FileInv'
  <2>1. \A d \in Fd : Whole(fd[c], win[c], d, apart')
    <3> TAKE d \in Fd
    <3>1. CASE d = k.fd BY <1>4, <3>1
    <3>2. CASE d # k.fd
      <4>1. Whole(fd[c], win[c], d, apart) BY <1>2, <3>2
      <4> QED BY <1>4, <4>1 DEF Whole
    <3> QED BY <3>1, <3>2
  <2>2. Stays(c, Idle) BY <1>1, <1>4, <2>1, AtRest DEF Stays
  <2> QED BY <2>2, StaysKeeps
<1>5. CASE k.r # "ok"
  <2>1. call' = [call EXCEPT ![c] = Idle] BY <1>5 DEF open_next, Return
  <2>2. CASE k.op = "open"
    <3>1. s = NULL BY <1>2, <1>5, <2>2 DEF CallRight
    <3>2. apart' = apart BY <1>5, <2>2 DEF open_next
    <3>3. Whole(fd[c], win[c], k.fd, apart') BY <3>1 DEF Whole
    <3> QED BY <1>2, <1>4, <2>1, <3>2, <3>3
  <2>3. CASE k.op = "load"
    <3>1. s # NULL BY <1>2, <2>3 DEF CallRight, FileOp
    <3>2. apart' = apart \cup {s} BY <1>5, <2>3 DEF open_next, Spoil, FdOf
    <3>3. Whole(fd[c], win[c], k.fd, apart') BY <3>2 DEF Whole
    <3> QED BY <1>2, <1>3, <1>4, <2>1, <3>1, <3>2, <3>3
  <2> QED BY <1>1, <2>2, <2>3
<1>6. CASE k.r = "ok"
  <2>1. s # NULL BY <1>1, <1>2, <1>6 DEF CallRight, FileOp
  <2>2. s \in Slot /\ ff[s].f_fileid \in 0..(IDMOD - 1) /\ ff[s].f_size \in 0..NPAGE
    BY <1>3, <2>1, DescriptorIs
  <2>3. size \in 0..NPAGE /\ i \in Nat BY <1>3, <2>2
  <2>4. /\ apart' = apart
        /\ i < size => Ask(c, [k EXCEPT !.op = "load", !.i = i, !.size = size], "map", FileId(c), i)
        /\ ~(i < size) => Return(c)
    BY <1>6 DEF open_next, More, FdOf
  <2>5. s \notin apart => /\ ff[s].f_size = size /\ f_size[f] = size
                          /\ \A p \in Page : p < i => win[c][k.fd][p] = <<f, p>>
    <3>1. CASE k.op = "open"
      <4>1. s \notin apart => ff[s].f_size = f_size[f] BY <1>2, <2>1, <3>1 DEF WindowGrows
      <4>2. \A p \in Page : ~(p < 0) BY <1>3 DEF Page
      <4> QED BY <3>1, <4>1, <4>2
    <3>2. CASE k.op = "load"
      <4>1. s \notin apart => /\ ff[s].f_size = k.size /\ f_size[f] = k.size
                              /\ \A p \in Page : p < k.i \/ p = k.i => win[c][k.fd][p] = <<f, p>>
        BY <1>1, <1>2, <1>6, <2>1, <3>2 DEF WindowGrows
      <4>2. \A p \in Page : p < k.i + 1 => p < k.i \/ p = k.i BY <1>3 DEF Page
      <4> QED BY <3>2, <4>1, <4>2
    <3> QED BY <1>1, <3>1, <3>2
  <2> HIDE DEF size, i
  <2>6. CASE ~(i < size)
    <3>1. \A p \in Page : p < size => p < i BY <1>3, <2>3, <2>6 DEF Page
    <3>2. Whole(fd[c], win[c], k.fd, apart') BY <2>1, <2>4, <2>5, <3>1 DEF Whole
    <3> QED BY <1>2, <1>4, <2>4, <2>6, <3>2 DEF Return
  <2>7. CASE i < size
    <3> DEFINE z == [k EXCEPT !.op = "load", !.i = i, !.size = size]
               req == About("map", FileId(c), i)
               a == Asking(z, req)
    <3>1. i \in 0..NPAGE BY <1>3, <2>3, <2>7
    <3>2. /\ z \in Between /\ z.op = "load" /\ z.i = i /\ z.size = size /\ z.fd = k.fd
          /\ z.then = k.then /\ z.old = k.old
      BY <1>2, <2>3, <3>1 DEF Between
    <3>3. call' = [call EXCEPT ![c] = a] BY <2>4, <2>7 DEF Ask, AskFor, Asking, About
    <3>4. FileId(c) = ff[s].f_fileid BY DEF FileId, FdOf
    <3>5. req \in Request /\ req.type = "map" /\ req.fileid = ff[s].f_fileid /\ req.arg = i
      BY <2>2, <3>1, <3>4, RequestIs
    <3> HIDE DEF z, req
    <3>6. /\ a \in CallState /\ a.op = "load" /\ a.at = "send" /\ a.req = req /\ a.r = "ok"
          /\ a.fd = k.fd /\ a.i = i /\ a.size = size /\ a.then = k.then /\ a.old = k.old
      BY <1>3, <3>2, <3>5, AskingIs
    <3> HIDE DEF a
    <3>7. CallRight(a, fd[c]) BY <1>3, <2>1, <2>7, <3>5, <3>6 DEF CallRight, FileOp
    <3>8. WindowGrows(a, fd[c], win[c], apart', FALSE) BY <2>4, <2>5, <3>6 DEF WindowGrows
    <3>9. Stays(c, a) BY <1>1, <1>2, <2>4, <3>3, <3>6, <3>7, <3>8 DEF Stays, On
    <3> QED BY <3>9, StaysKeeps
  <2> QED BY <2>6, <2>7
<1> QED BY <1>5, <1>6

\* ftruncate, once the server has the new size.
LEMMA ftruncate_nextKeeps ==
  ASSUME FileInv, NEW c \in Client, ftruncate_next(c), calls' \in 0..MaxCalls
  PROVE  FileInv'
<1> DEFINE k == call[c]
           s == fd[c][k.fd]
           f == ff[s].f_file
           i == IF k.op = "resize" THEN k.old ELSE k.i + 1
<1>1. /\ k.at = "got" /\ k.op \in {"resize", "grow", "undo"} /\ UNCHANGED <<table, disk, srv, fd>>
  BY DEF ftruncate_next, Got
<1>2. /\ k \in CallState /\ k \in Between /\ k.r # "inval" /\ CallRight(k, fd[c])
      /\ WindowGrows(k, fd[c], win[c], apart, TRUE) /\ apart \subseteq Slot /\ Spaces(fd[c], win[c])
      /\ \A d \in Fd : d # k.fd => Whole(fd[c], win[c], d, apart)
  BY <1>1, GotIs DEF On
<1>3. /\ k.fd \in Fd /\ k.i \in 0..NPAGE /\ k.size \in 0..NPAGE /\ (k.then = "dup" => k.old \in Fd)
      /\ NPAGE \in Nat /\ s # NULL /\ k.old \in 0..NPAGE
  BY <1>1, <1>2, FileServerAssumption DEF CallState, CallRight, FileOp
<1>4. s \in Slot /\ ff[s].f_fileid \in 0..(IDMOD - 1) /\ ff[s].f_size \in 0..NPAGE
  BY <1>3, DescriptorIs
<1>5. FileId(c) = ff[s].f_fileid BY DEF FileId, FdOf
<1>6. CASE (Got(c, "undo") \/ Got(c, "resize") \/ Got(c, "grow")) /\ Return(c) /\ Spoil(c) /\ UNCHANGED win
  <2>1. apart' = apart \cup {s} BY <1>6 DEF Spoil, FdOf
  <2>2. \A d \in Fd : Whole(fd[c], win[c], d, apart')
    <3> TAKE d \in Fd
    <3>1. CASE d = k.fd BY <2>1, <3>1 DEF Whole
    <3>2. CASE d # k.fd
      <4>1. Whole(fd[c], win[c], d, apart) BY <1>2, <3>2
      <4> QED BY <2>1, <4>1 DEF Whole
    <3> QED BY <3>1, <3>2
  <2>3. Stays(c, Idle)
    BY <1>1, <1>2, <1>4, <1>6, <2>1, <2>2, AtRest DEF Stays, spaces, Return
  <2> QED BY <2>3, StaysKeeps
<1>7. CASE /\ Got(c, "grow") /\ k.r # "ok"
           /\ Ask(c, [k EXCEPT !.op = "undo"], "set_size", FileId(c), k.old)
           /\ Spoil(c) /\ UNCHANGED win
  <2> DEFINE z == [k EXCEPT !.op = "undo"]
             req == About("set_size", FileId(c), k.old)
             a == Asking(z, req)
  <2>1. z \in Between /\ z.op = "undo" /\ z.fd = k.fd /\ z.then = k.then /\ z.old = k.old
    BY <1>2 DEF Between
  <2>2. call' = [call EXCEPT ![c] = a] BY <1>7 DEF Ask, AskFor, Asking, About
  <2>3. req \in Request /\ req.type = "set_size" /\ req.fileid = ff[s].f_fileid
    BY <1>3, <1>4, <1>5, RequestIs
  <2>4. apart' = apart \cup {s} BY <1>7 DEF Spoil, FdOf
  <2> HIDE DEF z, req
  <2>5. /\ a \in CallState /\ a.op = "undo" /\ a.at = "send" /\ a.req = req /\ a.r = "ok"
        /\ a.fd = k.fd /\ a.then = k.then /\ a.old = k.old
    BY <1>3, <2>1, <2>3, AskingIs
  <2> HIDE DEF a
  <2>6. CallRight(a, fd[c]) BY <1>3, <2>3, <2>5 DEF CallRight, FileOp
  <2>7. WindowGrows(a, fd[c], win[c], apart', FALSE) BY <2>4, <2>5 DEF WindowGrows
  <2>8. \A d \in Fd : d # k.fd => Whole(fd[c], win[c], d, apart')
    <3> TAKE d \in Fd
    <3>1. d # k.fd => Whole(fd[c], win[c], d, apart) BY <1>2
    <3> QED BY <2>4, <3>1 DEF Whole
  <2>9. Stays(c, a)
    BY <1>1, <1>2, <1>4, <1>7, <2>2, <2>4, <2>5, <2>6, <2>7, <2>8 DEF Stays, spaces, On
  <2> QED BY <2>9, StaysKeeps
<1>8. CASE Got(c, "resize") \/ Got(c, "grow")
  <2>1. k.op \in {"resize", "grow"} BY <1>8 DEF Got
  <2>2. i \in Nat BY <1>3
  <2>3. s \notin apart /\ k.r = "ok" =>
          /\ ff[s].f_size = k.size /\ f_size[f] = k.size
          /\ \A p \in Page : p < i => win[c][k.fd][p] = <<f, p>>
    <3>1. CASE k.op = "resize" BY <1>2, <1>3, <3>1 DEF WindowGrows
    <3>2. CASE k.op = "grow"
      <4>1. s \notin apart /\ k.r = "ok" =>
              /\ ff[s].f_size = k.size /\ f_size[f] = k.size
              /\ \A p \in Page : p < k.i \/ p = k.i => win[c][k.fd][p] = <<f, p>>
        BY <1>1, <1>2, <1>3, <3>2 DEF WindowGrows
      <4>2. \A p \in Page : p < k.i + 1 => p < k.i \/ p = k.i BY <1>3 DEF Page
      <4> QED BY <3>2, <4>1, <4>2
    <3> QED BY <2>1, <3>1, <3>2
  <2>4. CASE /\ k.r = "ok" /\ i < k.size
             /\ Ask(c, [k EXCEPT !.op = "grow", !.i = i], "map", FileId(c), i)
             /\ UNCHANGED <<win, apart>>
    <3> HIDE DEF i
    <3> DEFINE z == [k EXCEPT !.op = "grow", !.i = i]
               req == About("map", FileId(c), i)
               a == Asking(z, req)
    <3>1. i \in 0..NPAGE BY <1>3, <2>2, <2>4
    <3>2. /\ z \in Between /\ z.op = "grow" /\ z.i = i /\ z.size = k.size /\ z.fd = k.fd
          /\ z.then = k.then /\ z.old = k.old
      BY <1>2, <3>1 DEF Between
    <3>3. call' = [call EXCEPT ![c] = a] BY <2>4 DEF Ask, AskFor, Asking, About
    <3>4. req \in Request /\ req.type = "map" /\ req.fileid = ff[s].f_fileid /\ req.arg = i
      BY <1>4, <1>5, <3>1, RequestIs
    <3> HIDE DEF z, req
    <3>5. /\ a \in CallState /\ a.op = "grow" /\ a.at = "send" /\ a.req = req /\ a.r = "ok"
          /\ a.fd = k.fd /\ a.i = i /\ a.size = k.size /\ a.then = k.then /\ a.old = k.old
      BY <1>3, <3>2, <3>4, AskingIs
    <3> HIDE DEF a
    <3>6. CallRight(a, fd[c]) BY <1>3, <2>4, <3>4, <3>5 DEF CallRight, FileOp
    <3>7. WindowGrows(a, fd[c], win[c], apart', FALSE) BY <2>3, <2>4, <3>5 DEF WindowGrows
    <3>8. Stays(c, a) BY <1>1, <1>2, <2>4, <3>3, <3>5, <3>6, <3>7 DEF Stays, spaces, On
    <3> QED BY <3>8, StaysKeeps
  <2>5. CASE /\ k.r = "ok" /\ i >= k.size /\ Return(c) /\ UNCHANGED apart
             /\ win' = [win EXCEPT ![c][k.fd] = [p \in Page |->
                          IF p >= k.size /\ p < k.old THEN NULL ELSE @[p]]]
    <3> DEFINE row == [p \in Page |-> IF p >= k.size /\ p < k.old THEN NULL ELSE win[c][k.fd][p]]
               W == [win[c] EXCEPT ![k.fd] = row]
    <3>0. win \in [Client -> [Fd -> [Page -> FilePage \cup {Anon, NULL}]]]
          /\ fd \in [Client -> [Fd -> Slot \cup {NULL}]]
      BY DEF FileInv, ServerInv, ServerTypeOK
    <3>1. row \in [Page -> FilePage \cup {Anon, NULL}] BY <1>2, <1>3 DEF Spaces
    <3>2. win' = [win EXCEPT ![c] = W] BY <1>3, <2>5, <3>0
    <3>3. s \notin apart => \A p \in Page : p < k.size => row[p] = <<f, p>>
      <4>1. \A p \in Page : p < k.size => p < i /\ ~(p >= k.size) BY <1>3, <2>2, <2>5 DEF Page
      <4> QED BY <2>3, <2>5, <4>1
    <3> HIDE DEF row
    <3>4. /\ W \in [Fd -> [Page -> FilePage \cup {Anon, NULL}]] /\ W[k.fd] = row
          /\ \A d \in Fd : d # k.fd => W[d] = win[c][d]
      BY <1>2, <1>3, <3>1 DEF Spaces
    <3> HIDE DEF W, i
    <3>5. ASSUME NEW d \in Fd PROVE Whole(fd[c], W, d, apart)
      <4>1. CASE d = k.fd BY <2>3, <2>5, <3>3, <3>4, <4>1 DEF Whole
      <4>2. CASE d # k.fd
        <5>1. Whole(fd[c], win[c], d, apart) BY <1>2, <4>2
        <5> QED BY <3>4, <4>2, <5>1 DEF Whole
      <4> QED BY <4>1, <4>2
    <3>6. Fits(c, Idle, fd[c], W, apart') BY <1>2, <2>5, <3>4, <3>5, AtRest DEF Fits, Spaces
    <3>7. fd' = [fd EXCEPT ![c] = fd[c]] /\ Idle.at = "user" BY <1>1, <3>0, IdleIs
    <3>8. ClientStep(c, Idle, fd[c], W)
      BY <1>1, <1>2, <2>5, <3>2, <3>6, <3>7 DEF ClientStep, Return
    <3> QED BY <3>8, ClientKeeps
  <2>6. CASE k.r # "ok" BY <1>6, <1>7, <2>6 DEF ftruncate_next, Got
  <2> QED BY <1>8, <2>4, <2>5, <2>6 DEF ftruncate_next, Got
<1>9. CASE Got(c, "undo") BY <1>6, <1>9 DEF ftruncate_next, Got
<1> QED BY <1>1, <1>8, <1>9 DEF Got

\* fsipc hands the request over, and then listens.
LEMMA fsipcKeeps ==
  ASSUME FileInv, NEW c \in Client,
         fsipc_send(c) \/ (fsipc_recv(c) /\ UNCHANGED calls)
  PROVE  FileInv'
<1> DEFINE k == call[c]
           z == call'[c]
<1>1. /\ ServerTypeOK /\ RightFile /\ InStep /\ IdsRight /\ AnswerRight /\ EachWhole
      /\ \A b \in Client : CallRight(call[b], fd[b])
      /\ \A b \in Client : WindowGrows(call[b], fd[b], win[b], apart, Done(b))
      /\ call \in [Client -> CallState] /\ k \in CallState
  BY DEF FileInv, ServerInv, WindowInv, ServerTypeOK
<1>2. UNCHANGED <<opentab, filled, ff, f_size, gone, fd, win, apart, calls>>
  BY DEF fsipc_send, fsipc_recv, table, disk, spaces
<1>3. \/ /\ k.at = "send" /\ srv.at = "recv" /\ call' = [call EXCEPT ![c].at = "sent"]
         /\ srv' = [Wait EXCEPT !.at = "serve", !.whom = c, !.req = call[c].req]
      \/ k.at = "sent" /\ call' = [call EXCEPT ![c].at = "recv"] /\ srv' = srv
  BY DEF fsipc_send, fsipc_recv
<1>4. /\ call' \in [Client -> CallState] /\ z \in CallState /\ z.at \in {"sent", "recv"}
      /\ z.op = k.op /\ z.req = k.req /\ z.r = k.r /\ z.fd = k.fd /\ z.i = k.i /\ z.size = k.size
      /\ z.old = k.old /\ z.then = k.then /\ k.at \in {"send", "sent"}
      /\ \A b \in Client : b # c => call'[b] = call[b]
  <2>1. PICK y \in {"sent", "recv"} : call' = [call EXCEPT ![c] = [k EXCEPT !.at = y]]
    BY <1>1, <1>3
  <2>2. z = [k EXCEPT !.at = y] /\ \A b \in Client : b # c => call'[b] = call[b] BY <1>1, <2>1
  <2>3. /\ z \in CallState /\ z.at = y /\ z.op = k.op /\ z.req = k.req /\ z.r = k.r /\ z.fd = k.fd
        /\ z.i = k.i /\ z.size = k.size /\ z.old = k.old /\ z.then = k.then
    BY <1>1, <2>2 DEF CallState
  <2>4. call' \in [Client -> CallState]
    <3>1. [k EXCEPT !.at = y] \in CallState BY <2>2, <2>3
    <3> QED BY <1>1, <2>1, <3>1
  <2> QED BY <1>3, <2>2, <2>3, <2>4
<1>5. \/ srv' = srv /\ k.at = "sent"
      \/ srv.at = "recv" /\ srv'.at = "serve" /\ srv'.whom = c /\ srv'.req = k.req /\ k.at = "send"
  BY <1>3 DEF Wait
<1>6. srv' \in [at : {"recv", "serve", "reply", "lost"}, whom : Client \cup {NULL}, req : Request,
                out : Seq(Message)]
  <2>1. CASE srv' = srv BY <1>1, <2>1 DEF ServerTypeOK
  <2>2. CASE srv' = [Wait EXCEPT !.at = "serve", !.whom = c, !.req = call[c].req]
    <3>1. srv' = [at |-> "serve", whom |-> c, req |-> k.req, out |-> <<>>] BY <2>2 DEF Wait
    <3>2. k.req \in Request /\ <<>> \in Seq(Message) BY <1>1 DEF CallState
    <3> QED BY <3>1, <3>2
  <2> QED BY <1>3, <2>1, <2>2
<1> HIDE DEF z
<1>7. ServerTypeOK' BY <1>1, <1>2, <1>4, <1>6 DEF ServerTypeOK
<1>8. RightFile' BY <1>1, <1>2, <1>4 DEF RightFile, Filled, z
<1>9. InStep'
  <2>1. CASE srv' = srv /\ k.at = "sent" BY <1>1, <1>4, <2>1 DEF InStep, z
  <2>2. CASE srv.at = "recv" /\ srv'.at = "serve" /\ srv'.whom = c /\ srv'.req = k.req
    BY <1>1, <1>4, <2>2 DEF InStep, z
  <2> QED BY <1>5, <2>1, <2>2
<1>10. IdsRight' BY <1>1, <1>2 DEF IdsRight
<1>11. AnswerRight'
  <2>1. CASE srv' = srv
    <3>1. \A b \in Client : fd'[b][call'[b].fd] = fd[b][call[b].fd] BY <1>2, <1>4 DEF z
    <3>2. srv.at # "recv" => srv.whom \in Client BY <1>1 DEF AnswerRight, ServerTypeOK
    <3>3. srv.at = "reply" => FdOf(srv.whom)' = FdOf(srv.whom) BY <2>1, <3>1, <3>2 DEF FdOf
    <3> QED BY <1>1, <1>2, <2>1, <3>3 DEF AnswerRight, Filled
  <2>2. CASE srv'.at = "serve" /\ srv'.whom = c BY <2>2, FileServerAssumption DEF AnswerRight
  <2> QED BY <1>5, <2>1, <2>2
<1>12. \A b \in Client : CallRight(call[b], fd[b])'
  <2> TAKE b \in Client
  <2>1. CallRight(call[b], fd[b]) BY <1>1
  <2>2. CASE b # c BY <1>2, <1>4, <2>1, <2>2 DEF CallRight
  <2>3. CASE b = c BY <1>2, <1>4, <2>1, <2>3 DEF CallRight, z
  <2> QED BY <2>2, <2>3
<1>13. EachWhole'
  <2> SUFFICES ASSUME NEW b \in Client, NEW d \in Fd, ~On(call'[b], d)
               PROVE  Whole(fd[b], win[b], d, apart)'
    BY DEF EachWhole, On
  <2>1. ~On(call[b], d) BY <1>4 DEF On, z
  <2>2. Whole(fd[b], win[b], d, apart) BY <1>1, <2>1 DEF EachWhole
  <2> QED BY <1>2, <2>2 DEF Whole
<1>14. \A b \in Client : WindowGrows(call[b], fd[b], win[b], apart, Done(b))'
  <2> TAKE b \in Client
  <2>1. Done(b)' <=> Done(b) BY <1>3, <1>4, <1>5 DEF Done, z
  <2>2. WindowGrows(call[b], fd[b], win[b], apart, Done(b)) BY <1>1
  <2>3. CASE b # c BY <1>2, <1>4, <2>1, <2>2, <2>3 DEF WindowGrows
  <2>4. CASE b = c BY <1>2, <1>4, <2>1, <2>2, <2>4 DEF WindowGrows, z
  <2> QED BY <2>3, <2>4
<1> QED BY <1>7, <1>8, <1>9, <1>10, <1>11, <1>12, <1>13, <1>14 DEF FileInv, ServerInv, WindowInv

\* The client that is served made the request, and its type is that of its call.
LEMMA ServedIs ==
  ASSUME FileInv, srv.at # "recv"
  PROVE  LET k == call[srv.whom] IN
         /\ srv.whom \in Client /\ k \in CallState /\ k.at \in {"sent", "recv"} /\ k.req = srv.req
         /\ CallRight(k, fd[srv.whom])
         /\ srv.req.type = "map" => k.op \in {"load", "grow"} /\ srv.req.arg = k.i /\ k.i < k.size
         /\ srv.req.type = "set_size" => k.op \in {"resize", "undo"}
         /\ srv.req.type \in {"open", "dirty", "close", "remove", "sync"} => k.op = srv.req.type
         /\ k.op \in {"load", "grow"} => srv.req.type = "map"
         /\ k.op \in {"resize", "undo"} => srv.req.type = "set_size"
         /\ k.op = "resize" => srv.req.arg = k.size
         /\ k.op \in {"open", "dirty", "close", "remove", "sync"} => srv.req.type = k.op
         /\ srv.req.type \in {"map", "set_size", "close", "dirty"} =>
              /\ k.op \in FileOp /\ FdOf(srv.whom) \in Slot
              /\ srv.req.fileid = ff[FdOf(srv.whom)].f_fileid
<1> DEFINE c == srv.whom
           k == call[c]
<1>1. c \in Client BY DEF FileInv, ServerInv, AnswerRight, ServerTypeOK
<1>2. /\ k \in CallState /\ k.at \in {"sent", "recv"} /\ k.req = srv.req /\ CallRight(k, fd[c])
      /\ fd[c] \in [Fd -> Slot \cup {NULL}]
  BY <1>1 DEF FileInv, ServerInv, ServerTypeOK, InStep
<1>3. /\ k.fd \in Fd /\ FdOf(c) = fd[c][k.fd]
      /\ k.op \in {"idle", "dead", "open", "load", "dirty", "close", "resize", "grow", "undo",
                   "remove", "sync"}
  BY <1>2 DEF FdOf, CallState
<1> HIDE DEF k, c
<1>4. k.op \notin {"idle", "dead"} BY <1>2 DEF CallRight
<1>5. /\ k.op \in {"load", "grow"} => srv.req.type = "map" /\ srv.req.arg = k.i /\ k.i < k.size
      /\ k.op \in {"resize", "undo"} => srv.req.type = "set_size"
      /\ k.op = "resize" => srv.req.arg = k.size
      /\ k.op \in {"dirty", "close", "open", "remove", "sync"} => srv.req.type = k.op
      /\ k.op \in FileOp => fd[c][k.fd] # NULL /\ srv.req.fileid = ff[fd[c][k.fd]].f_fileid
  BY <1>2 DEF CallRight
<1>6. k.op \in FileOp => FdOf(c) \in Slot /\ srv.req.fileid = ff[FdOf(c)].f_fileid
  BY <1>2, <1>3, <1>5
<1>7. srv.req.type \in {"map", "set_size", "close", "dirty"} => k.op \in FileOp
  BY <1>3, <1>4, <1>5 DEF FileOp
<1> QED BY <1>1, <1>2, <1>3, <1>4, <1>5, <1>6, <1>7 DEF k, c

\* ftruncate changes the size in a page that others may have.
LEMMA ftruncateKeeps ==
  ASSUME FileInv, NEW c \in Client, NEW d \in Fd, NEW size \in 0..NPAGE, ftruncate(c, d, size),
         calls' \in 0..MaxCalls
  PROVE  FileInv'
<1> DEFINE s == fd[c][d]
           y == [Idle EXCEPT !.op = "resize", !.fd = d, !.size = size, !.old = ff[s].f_size]
           req == About("set_size", ff[s].f_fileid, size)
           a == Asking(y, req)
<1>1. /\ ServerTypeOK /\ RightFile /\ InStep /\ IdsRight /\ AnswerRight /\ EachWhole
      /\ \A b \in Client : CallRight(call[b], fd[b])
      /\ \A b \in Client : WindowGrows(call[b], fd[b], win[b], apart, Done(b))
      /\ call \in [Client -> CallState] /\ ff \in [Slot -> [f_fileid : 0..(IDMOD - 1), f_size : 0..NPAGE, f_file : Node \cup {NULL}]]
      /\ \A b \in Client, e \in Fd : fd[b][e] \in Slot \cup {NULL}
  BY DEF FileInv, ServerInv, WindowInv, ServerTypeOK
<1>2. /\ Ready(c) /\ s # NULL /\ ff' = [ff EXCEPT ![s].f_size = size]
      /\ apart' = IF pageref(s) > 2 THEN apart \cup {s} ELSE apart
      /\ UNCHANGED <<opentab, filled, f_size, gone, srv, fd, win>>
      /\ call' = [call EXCEPT ![c] = a]
  BY DEF ftruncate, Ask, AskFor, Asking, About, disk, spaces
<1>3. /\ s \in Slot /\ ff[s].f_fileid \in 0..(IDMOD - 1) /\ ff[s].f_size \in 0..NPAGE
  BY <1>2, DescriptorIs
<1>4. /\ a \in CallState /\ a.op = "resize" /\ a.at = "send" /\ a.req = req /\ a.r = "ok" /\ a.fd = d
      /\ a.size = size /\ a.old = ff[s].f_size /\ a.then = "return"
      /\ req.type = "set_size" /\ req.fileid = ff[s].f_fileid /\ req.arg = size
  <2>1. /\ y \in Between /\ y.op = "resize" /\ y.fd = d /\ y.size = size /\ y.old = ff[s].f_size
        /\ y.then = "return"
    BY <1>3, IdleIs DEF Between
  <2>2. req \in Request /\ req.type = "set_size" /\ req.fileid = ff[s].f_fileid /\ req.arg = size
    BY <1>3, RequestIs
  <2> HIDE DEF y, req
  <2> QED BY <2>1, <2>2, AskingIs
<1> HIDE DEF a, y, req
<1>5. /\ call'[c] = a /\ call' \in [Client -> CallState]
      /\ \A b \in Client : b # c => call'[b] = call[b]
  BY <1>1, <1>2, <1>4
<1>6. /\ ff' \in [Slot -> [f_fileid : 0..(IDMOD - 1), f_size : 0..NPAGE, f_file : Node \cup {NULL}]]
      /\ \A t \in Slot : ff'[t].f_fileid = ff[t].f_fileid /\ ff'[t].f_file = ff[t].f_file
      /\ \A t \in Slot : t # s => ff'[t].f_size = ff[t].f_size
      /\ ff'[s].f_size = size
  BY <1>1, <1>2, <1>3
<1>7. /\ call[c].at \notin {"sent", "recv"} /\ Whole(fd[c], win[c], d, apart)
      /\ \A e \in Fd : Whole(fd[c], win[c], e, apart)
  BY <1>2, ReadyIs
<1>8. apart \subseteq apart' /\ apart' \subseteq Slot BY <1>1, <1>2, <1>3 DEF ServerTypeOK
<1>9. \A b \in Client, e \in Fd : fd[b][e] = s /\ (b # c \/ e # d) => s \in apart'
  BY <1>1, <1>2, <1>3, PageRef
<1>10. srv.at # "recv" => srv.whom \in Client /\ srv.whom # c
  BY <1>1, <1>7 DEF InStep, AnswerRight, ServerTypeOK
<1> HIDE DEF s
<1>11. \A t \in Slot : Filled(t)' <=> Filled(t) BY <1>2, <1>6 DEF Filled
<1>12. ServerTypeOK' BY <1>1, <1>2, <1>5, <1>6, <1>8 DEF ServerTypeOK
<1>13. RightFile'
  <2>1. ASSUME NEW b \in Client, NEW e \in Fd PROVE (fd[b][e] # NULL => Filled(fd[b][e]))'
    <3>1. fd[b][e] # NULL => fd[b][e] \in Slot /\ Filled(fd[b][e]) BY <1>1 DEF RightFile
    <3> QED BY <1>2, <1>6, <3>1 DEF Filled
  <2>2. \A b \in Client : call'[b].r # "inval" BY <1>1, <1>4, <1>5 DEF RightFile
  <2> QED BY <2>1, <2>2 DEF RightFile
<1>14. InStep' BY <1>1, <1>2, <1>4, <1>5, <1>7, <1>10 DEF InStep
<1>15. IdsRight' BY <1>1, <1>2 DEF IdsRight
<1>16. AnswerRight'
  <2> DEFINE m == srv.out[1]
  <2> SUFFICES ASSUME srv.at = "reply" PROVE AnswerRight'
    BY <1>1, <1>2 DEF AnswerRight
  <2>1. srv.whom \in Client /\ call'[srv.whom] = call[srv.whom] BY <1>5, <1>10
  <2>2. FdOf(srv.whom)' = FdOf(srv.whom) BY <1>2, <2>1 DEF FdOf
  <2>3. m.page # NULL => ff'[FdOf(srv.whom)].f_file = ff[FdOf(srv.whom)].f_file
    <3>1. m.page # NULL => FdOf(srv.whom) \in Slot BY <1>1, ServedIs DEF AnswerRight
    <3> QED BY <1>6, <3>1
  <2>4. m.fd # NULL => m.fd # s
    BY <1>1 DEF AnswerRight, s
  <2>5. m.fd # NULL => m.fd \in Slot
    <3>1. srv.out \in Seq(Message) /\ Len(srv.out) = 1 BY <1>1 DEF AnswerRight, ServerTypeOK
    <3>2. m \in Message BY <3>1
    <3> QED BY <3>2 DEF Message
  <2>6. m.fd # NULL => Filled(m.fd)' /\ ff'[m.fd].f_file = ff[m.fd].f_file
                       /\ ff'[m.fd].f_size = ff[m.fd].f_size
    <3>1. m.fd # NULL => Filled(m.fd) BY <1>1 DEF AnswerRight
    <3> QED BY <1>2, <1>6, <2>4, <2>5, <3>1 DEF Filled
  <2> HIDE DEF m
  <2> QED BY <1>1, <1>2, <1>8, <2>2, <2>3, <2>6 DEF AnswerRight, Filled, m
<1>17. \A b \in Client : CallRight(call[b], fd[b])'
  <2> TAKE b \in Client
  <2>1. CASE b = c
    <3>1. fd'[b][call'[b].fd] = s BY <1>2, <1>4, <1>5, <2>1 DEF s
    <3>2. /\ call'[b].op = "resize" /\ call'[b].at = "send" /\ call'[b].req = req
          /\ call'[b].size = size /\ call'[b].then = "return" /\ call'[b].old \in 0..NPAGE
      BY <1>3, <1>4, <1>5, <2>1
    <3> QED BY <1>2, <1>3, <1>4, <1>6, <3>1, <3>2 DEF CallRight
  <2>2. CASE b # c
    <3>1. CallRight(call[b], fd[b]) /\ call'[b] = call[b] /\ fd'[b] = fd[b] BY <1>1, <1>2, <1>5, <2>2
    <3>2. call[b].op \in FileOp => fd[b][call[b].fd] \in Slot
      <4>1. call[b].fd \in Fd BY <1>1 DEF CallState
      <4> QED BY <1>1, <3>1, <4>1 DEF CallRight
    <3>3. call[b].op \in FileOp => ff'[fd[b][call[b].fd]].f_fileid = ff[fd[b][call[b].fd]].f_fileid
      BY <1>6, <3>2
    <3> QED BY <3>1, <3>3 DEF CallRight
  <2> QED BY <2>1, <2>2
<1>18. EachWhole'
  <2> SUFFICES ASSUME NEW b \in Client, NEW e \in Fd, ~On(call'[b], e)
               PROVE  Whole(fd[b], win[b], e, apart)'
    BY DEF EachWhole, On
  <2>1. b = c => e # d BY <1>4, <1>5 DEF On
  <2>2. Whole(fd[b], win[b], e, apart)
    <3>1. CASE b = c BY <1>7, <3>1
    <3>2. CASE b # c BY <1>1, <1>5, <3>2 DEF EachWhole
    <3> QED BY <3>1, <3>2
  <2>3. fd[b][e] = s => s \in apart' BY <1>9, <2>1
  <2>4. fd[b][e] \in Slot \cup {NULL} BY <1>1
  <2> QED BY <1>2, <1>6, <1>8, <2>2, <2>3, <2>4 DEF Whole
<1>19. \A b \in Client : WindowGrows(call[b], fd[b], win[b], apart, Done(b))'
  <2> TAKE b \in Client
  <2>1. CASE b = c
    <3>1. ~Done(b)' BY <1>2, <1>4, <1>5, <1>10, <2>1 DEF Done
    <3>2. fd'[b][call'[b].fd] = s BY <1>2, <1>4, <1>5, <2>1 DEF s
    <3>3. /\ call'[b].op = "resize" /\ call'[b].fd = d /\ call'[b].size = size
          /\ call'[b].old = ff[s].f_size
      BY <1>4, <1>5, <2>1
    <3>4. s \notin apart => \A p \in Page : p < ff[s].f_size => win[c][d][p] = <<ff[s].f_file, p>>
      BY <1>2, <1>7 DEF Whole, s
    <3> QED BY <1>2, <1>3, <1>6, <1>8, <2>1, <3>1, <3>2, <3>3, <3>4 DEF WindowGrows
  <2>2. CASE b # c
    <3>1. Done(b)' <=> Done(b) BY <1>2, <1>5, <2>2 DEF Done
    <3>2. WindowGrows(call[b], fd[b], win[b], apart, Done(b)) BY <1>1
    <3>3. call'[b] = call[b] /\ fd'[b] = fd[b] /\ win'[b] = win[b] BY <1>2, <1>5, <2>2
    <3>4. call[b].fd \in Fd BY <1>1 DEF CallState
    <3>5. fd[b][call[b].fd] \in Slot \cup {NULL} BY <1>1, <3>4
    <3>6. fd[b][call[b].fd] = s => s \in apart' BY <1>9, <2>2, <3>4
    <3> DEFINE t == fd[b][call[b].fd]
    <3>7. CASE t = NULL \/ t \in apart'
      <4>1. fd'[b][call'[b].fd] = t BY <3>3
      <4> QED BY <3>7, <4>1 DEF WindowGrows
    <3>8. CASE t # NULL /\ t \notin apart'
      <4>1. t \in Slot /\ t # s /\ t \notin apart BY <1>8, <3>5, <3>6, <3>8
      <4>2. ff'[t].f_size = ff[t].f_size /\ ff'[t].f_file = ff[t].f_file /\ f_size' = f_size
        BY <1>2, <1>6, <4>1
      <4>3. fd'[b][call'[b].fd] = t BY <3>3
      <4> QED BY <3>1, <3>2, <3>3, <3>8, <4>1, <4>2, <4>3 DEF WindowGrows
    <3> QED BY <3>7, <3>8
  <2> QED BY <2>1, <2>2
<1> QED BY <1>12, <1>13, <1>14, <1>15, <1>16, <1>17, <1>18, <1>19 DEF FileInv, ServerInv, WindowInv

\* The answer brings an entry only to an open, and a page only to the call that asked for it.
LEMMA AnswerIs ==
  ASSUME FileInv, srv.at = "reply"
  PROVE  LET m == Head(srv.out)
             c == srv.whom
             k == call[c]
         IN
         /\ Len(srv.out) = 1 /\ m \in Message /\ m.r # "inval"
         /\ m.fd # NULL => /\ k.op = "open" /\ m.r = "ok" /\ m.fd \in Slot /\ Filled(m.fd)
                           /\ m.fd \notin apart => ff[m.fd].f_size = f_size[ff[m.fd].f_file]
         /\ k.op = "open" /\ m.r = "ok" => m.fd # NULL
         /\ m.page # NULL => /\ k.op \in {"load", "grow"} /\ k.i \in Page
                             /\ m.page = <<ff[FdOf(c)].f_file, k.i>> /\ m.page \in FilePage
         /\ k.op \in {"load", "grow"} /\ m.r = "ok" => m.page # NULL
<1> DEFINE m == Head(srv.out)
           c == srv.whom
           k == call[c]
<1>1. srv.out \in Seq(Message) /\ Len(srv.out) = 1 BY DEF FileInv, ServerInv, ServerTypeOK, AnswerRight
<1>2. m = srv.out[1] /\ m \in Message BY <1>1
<1>3. m.r # "inval"
      /\ (m.fd # NULL => /\ srv.req.type = "open" /\ m.r = "ok" /\ Filled(m.fd)
                         /\ m.fd \notin apart => ff[m.fd].f_size = f_size[ff[m.fd].f_file])
      /\ (srv.req.type = "open" /\ m.r = "ok" => m.fd # NULL)
      /\ (m.page # NULL => srv.req.type = "map" /\ m.page = <<ff[FdOf(c)].f_file, srv.req.arg>>)
      /\ (srv.req.type = "map" /\ m.r = "ok" => m.page # NULL)
  <2> HIDE DEF m
  <2> QED BY <1>2 DEF FileInv, ServerInv, AnswerRight
<1>4. m.fd \in Slot \cup {NULL} /\ m.page \in FilePage \cup {NULL} BY <1>2 DEF Message
<1>5. /\ k \in CallState
      /\ srv.req.type = "map" => k.op \in {"load", "grow"} /\ srv.req.arg = k.i /\ k.i < k.size
      /\ srv.req.type = "open" => k.op = "open"
      /\ k.op \in {"load", "grow"} => srv.req.type = "map"
      /\ k.op = "open" => srv.req.type = "open"
  BY ServedIs
<1>6. k.i \in 0..NPAGE /\ k.size \in 0..NPAGE BY <1>5 DEF CallState
<1>7. k.i < k.size => k.i \in Page BY <1>6, FileServerAssumption DEF Page
<1> HIDE DEF m, k, c
<1> QED BY <1>1, <1>2, <1>3, <1>4, <1>5, <1>7 DEF m, k, c

\* The answer goes to the client that waits for it.
LEMMA replyKeeps ==
  ASSUME FileInv, reply
  PROVE  FileInv'
<1> DEFINE c == srv.whom
           k == call[c]
           m == Head(srv.out)
           z == call'[c]
           f == ff[FdOf(c)].f_file
<1>1. /\ ServerTypeOK /\ RightFile /\ InStep /\ IdsRight /\ AnswerRight /\ EachWhole
      /\ \A b \in Client : CallRight(call[b], fd[b])
      /\ \A b \in Client : WindowGrows(call[b], fd[b], win[b], apart, Done(b))
      /\ call \in [Client -> CallState]
      /\ fd \in [Client -> [Fd -> Slot \cup {NULL}]]
      /\ win \in [Client -> [Fd -> [Page -> FilePage \cup {Anon, NULL}]]]
  BY DEF FileInv, ServerInv, WindowInv, ServerTypeOK
<1>2. /\ srv.at = "reply" /\ k.at = "recv"
      /\ call' = [call EXCEPT ![c].at = "got", ![c].r = m.r]
      /\ fd'  = IF m.fd # NULL THEN [fd EXCEPT ![c][k.fd] = m.fd] ELSE fd
      /\ win' = IF m.page # NULL THEN [win EXCEPT ![c][k.fd][k.i] = m.page] ELSE win
      /\ srv' = IF Len(srv.out) > 1 THEN [srv EXCEPT !.out = Tail(@)] ELSE Wait
      /\ UNCHANGED <<opentab, filled, ff, f_size, gone, calls, apart>>
  BY DEF reply, table, disk
<1>3. /\ Len(srv.out) = 1 /\ m \in Message /\ m.r # "inval"
      /\ m.fd # NULL => /\ k.op = "open" /\ m.r = "ok" /\ m.fd \in Slot /\ Filled(m.fd)
                        /\ m.fd \notin apart => ff[m.fd].f_size = f_size[ff[m.fd].f_file]
      /\ k.op = "open" /\ m.r = "ok" => m.fd # NULL
      /\ m.page # NULL => /\ k.op \in {"load", "grow"} /\ k.i \in Page
                          /\ m.page = <<f, k.i>> /\ m.page \in FilePage
      /\ k.op \in {"load", "grow"} /\ m.r = "ok" => m.page # NULL
  BY <1>2, AnswerIs
<1>4. c \in Client BY <1>2, ServedIs
<1>5. k \in CallState /\ k.fd \in Fd /\ m.r \in {"ok", "err", "inval"} BY <1>1, <1>3, <1>4 DEF CallState, Message
<1>6. srv' = Wait BY <1>2, <1>3
<1> HIDE DEF c, m
<1>7. /\ call' \in [Client -> CallState] /\ z \in CallState /\ z.at = "got" /\ z.r = m.r
      /\ z.op = k.op /\ z.req = k.req /\ z.fd = k.fd /\ z.i = k.i /\ z.size = k.size
      /\ z.old = k.old /\ z.then = k.then
      /\ \A b \in Client : b # c => call'[b] = call[b]
  <2>1. call' = [call EXCEPT ![c] = [k EXCEPT !.at = "got", !.r = m.r]] BY <1>1, <1>2, <1>4
  <2>2. z = [k EXCEPT !.at = "got", !.r = m.r] /\ \A b \in Client : b # c => call'[b] = call[b]
    BY <1>1, <1>4, <2>1
  <2>3. /\ z \in CallState /\ z.at = "got" /\ z.r = m.r
        /\ z.op = k.op /\ z.req = k.req /\ z.fd = k.fd /\ z.i = k.i /\ z.size = k.size
        /\ z.old = k.old /\ z.then = k.then
    BY <1>5, <2>2 DEF CallState
  <2>4. call' \in [Client -> CallState] BY <1>1, <1>4, <2>1, <2>2, <2>3
  <2> QED BY <2>2, <2>3, <2>4
<1> HIDE DEF z
<1>8. /\ fd' \in [Client -> [Fd -> Slot \cup {NULL}]]
      /\ \A b \in Client : b # c => fd'[b] = fd[b]
      /\ \A d \in Fd : d # k.fd \/ m.fd = NULL => fd'[c][d] = fd[c][d]
      /\ m.fd # NULL => fd'[c][k.fd] = m.fd
  BY <1>1, <1>2, <1>3, <1>4, <1>5
<1>9. /\ win' \in [Client -> [Fd -> [Page -> FilePage \cup {Anon, NULL}]]]
      /\ \A b \in Client : b # c => win'[b] = win[b]
      /\ \A d \in Fd : d # k.fd \/ m.page = NULL => win'[c][d] = win[c][d]
      /\ m.page # NULL => /\ win'[c][k.fd][k.i] = m.page
                          /\ \A p \in Page : p # k.i => win'[c][k.fd][p] = win[c][k.fd][p]
  <2>1. CASE m.page = NULL BY <1>1, <1>2, <2>1
  <2>2. CASE m.page # NULL
    <3> DEFINE row == [win[c][k.fd] EXCEPT ![k.i] = m.page]
               W == [win[c] EXCEPT ![k.fd] = row]
    <3>1. win' = [win EXCEPT ![c] = W] BY <1>1, <1>2, <1>4, <2>2
    <3>2. row \in [Page -> FilePage \cup {Anon, NULL}] /\ row[k.i] = m.page
          /\ \A p \in Page : p # k.i => row[p] = win[c][k.fd][p]
      BY <1>1, <1>3, <1>4, <1>5, <2>2
    <3> HIDE DEF row
    <3>3. W \in [Fd -> [Page -> FilePage \cup {Anon, NULL}]] /\ W[k.fd] = row
          /\ \A d \in Fd : d # k.fd => W[d] = win[c][d]
      BY <1>1, <1>4, <1>5, <3>2
    <3> HIDE DEF W
    <3>4. win' \in [Client -> [Fd -> [Page -> FilePage \cup {Anon, NULL}]]] /\ win'[c] = W
          /\ \A b \in Client : b # c => win'[b] = win[b]
      BY <1>1, <1>4, <3>1, <3>3
    <3> QED BY <2>2, <3>2, <3>3, <3>4
  <2> QED BY <2>1, <2>2
<1>10. ServerTypeOK'
  <2>1. Wait \in [at : {"recv", "serve", "reply", "lost"}, whom : Client \cup {NULL}, req : Request,
                  out : Seq(Message)]
    <3>1. <<>> \in Seq(Message) OBVIOUS
    <3> QED BY <3>1, NoReqIs DEF Wait
  <2> QED BY <1>1, <1>2, <1>6, <1>7, <1>8, <1>9, <2>1 DEF ServerTypeOK
<1>11. RightFile'
  <2>1. ASSUME NEW b \in Client, NEW d \in Fd PROVE (fd[b][d] # NULL => Filled(fd[b][d]))'
    <3>1. fd'[b][d] # NULL => Filled(fd'[b][d])
      <4>1. fd'[b][d] = fd[b][d] \/ (m.fd # NULL /\ fd'[b][d] = m.fd) BY <1>8
      <4> QED BY <1>1, <1>3, <4>1 DEF RightFile
    <3> QED BY <1>2, <3>1 DEF Filled
  <2>2. \A b \in Client : call'[b].r # "inval" BY <1>1, <1>3, <1>7 DEF RightFile, z
  <2> QED BY <2>1, <2>2 DEF RightFile
<1>12. InStep'
  <2>1. srv'.at = "recv" BY <1>6 DEF Wait
  <2>2. \A b \in Client : call'[b].at \notin {"sent", "recv"}
    BY <1>1, <1>7 DEF InStep, z, c
  <2> QED BY <2>1, <2>2 DEF InStep
<1>13. IdsRight' BY <1>1, <1>2 DEF IdsRight
<1>14. AnswerRight' BY <1>6 DEF AnswerRight, Wait
<1>15. /\ k.op \notin {"idle", "dead"} /\ CallRight(k, fd[c])
       /\ WindowGrows(k, fd[c], win[c], apart, Done(c)) /\ Done(c)
  <2>1. CallRight(k, fd[c]) /\ WindowGrows(k, fd[c], win[c], apart, Done(c)) BY <1>1, <1>4
  <2>2. Done(c) BY <1>2 DEF Done, c
  <2> QED BY <1>2, <2>1, <2>2 DEF CallRight
<1> HIDE DEF k
<1>16. \A b \in Client : CallRight(call[b], fd[b])'
  <2> TAKE b \in Client
  <2>1. CASE b # c
    <3>1. CallRight(call[b], fd[b]) /\ call'[b] = call[b] /\ fd'[b] = fd[b] BY <1>1, <1>7, <1>8, <2>1
    <3> QED BY <1>2, <3>1 DEF CallRight
  <2>2. CASE b = c
    <3>1. CallRight(z, fd'[c])
      <4>1. m.fd = NULL => fd'[c][z.fd] = fd[c][k.fd] BY <1>5, <1>7, <1>8
      <4>2. m.fd # NULL => fd'[c][z.fd] # NULL BY <1>3, <1>7, <1>8
      <4>3. k.op = "open" => fd[c][k.fd] = NULL BY <1>2, <1>15 DEF CallRight, k
      <4>4. k.op \in FileOp => fd'[c][z.fd] # NULL BY <1>15, <4>1, <4>2 DEF CallRight
      <4>5. k.op = "open" => (fd'[c][z.fd] # NULL <=> m.r = "ok") BY <1>3, <4>1, <4>2, <4>3
      <4> QED BY <1>2, <1>7, <1>15, <4>4, <4>5 DEF CallRight
    <3> QED BY <1>2, <2>2, <3>1 DEF CallRight, z
  <2> QED BY <2>1, <2>2
<1>17. EachWhole'
  <2> SUFFICES ASSUME NEW b \in Client, NEW d \in Fd, ~On(call'[b], d)
               PROVE  Whole(fd[b], win[b], d, apart)'
    BY DEF EachWhole, On
  <2>1. ~On(call[b], d)
    <3>1. CASE b # c BY <1>7, <3>1
    <3>2. CASE b = c BY <1>7, <3>2 DEF On, z, k
    <3> QED BY <3>1, <3>2
  <2>2. Whole(fd[b], win[b], d, apart) BY <1>1, <2>1 DEF EachWhole
  <2>3. fd'[b][d] = fd[b][d] /\ win'[b][d] = win[b][d]
    <3>1. CASE b # c BY <1>8, <1>9, <3>1
    <3>2. CASE b = c
      <4>1. ~On(k, d) BY <2>1, <3>2 DEF k
      <4>2. m.fd # NULL \/ m.page # NULL => d # k.fd BY <1>3, <4>1 DEF On
      <4> QED BY <1>8, <1>9, <3>2, <4>2
    <3> QED BY <3>1, <3>2
  <2> QED BY <1>2, <2>2, <2>3 DEF Whole
<1>18. \A b \in Client : WindowGrows(call[b], fd[b], win[b], apart, Done(b))'
  <2> TAKE b \in Client
  <2>0. ff' = ff /\ f_size' = f_size /\ apart' = apart BY <1>2
  <2>1. CASE b # c
    <3>1. WindowGrows(call[b], fd[b], win[b], apart, Done(b)) BY <1>1
    <3>2. Done(b)' <=> Done(b) BY <1>6, <1>7, <2>1 DEF Done, Wait, c
    <3>3. call'[b] = call[b] /\ fd'[b] = fd[b] /\ win'[b] = win[b] BY <1>7, <1>8, <1>9, <2>1
    <3> QED BY <2>0, <3>1, <3>2, <3>3 DEF WindowGrows
  <2>2. CASE b = c
    <3>1. ASSUME fd'[c][k.fd] # NULL, fd'[c][k.fd] \notin apart
          PROVE  LET s == fd'[c][k.fd]
                     g == ff[s].f_file
                 IN
                 /\ k.op = "open" => ff[s].f_size = f_size[g]
                 /\ k.op \in {"load", "grow"} =>
                      /\ ff[s].f_size = k.size /\ f_size[g] = k.size
                      /\ \A p \in Page : p < k.i \/ (p = k.i /\ m.r = "ok") => win'[c][k.fd][p] = <<g, p>>
                 /\ k.op = "resize" =>
                      /\ ff[s].f_size = k.size /\ f_size[g] = k.size
                      /\ \A p \in Page : p < k.old => win'[c][k.fd][p] = <<g, p>>
                 /\ k.op # "undo"
      <4>1. CASE k.op = "open"
        <5>1. fd[c][k.fd] = NULL BY <1>2, <1>15, <4>1 DEF CallRight, k
        <5>2. m.fd # NULL BY <1>5, <1>8, <3>1, <5>1
        <5> QED BY <1>3, <1>8, <3>1, <4>1, <5>2 DEF k
      <4>2. CASE k.op # "open"
        <5>1. fd'[c][k.fd] = fd[c][k.fd] BY <1>3, <1>5, <1>8, <4>2 DEF k
        <5>2. f = ff[fd[c][k.fd]].f_file BY DEF FdOf, k
        <5>3. k.op \in {"load", "grow"} =>
                \A p \in Page : /\ p = k.i /\ m.r = "ok" => win'[c][k.fd][p] = <<f, p>>
                                /\ p < k.i => win'[c][k.fd][p] = win[c][k.fd][p]
          <6>1. \A p \in Page : p < k.i => p # k.i BY <1>5 DEF Page, CallState, k
          <6> QED BY <1>3, <1>5, <1>9, <6>1 DEF k
        <5>4. k.op = "resize" => win'[c][k.fd] = win[c][k.fd] BY <1>3, <1>5, <1>9 DEF k
        <5> HIDE DEF f
        <5> QED BY <1>15, <3>1, <4>2, <5>1, <5>2, <5>3, <5>4 DEF WindowGrows
      <4> QED BY <4>1, <4>2
    <3>2. WindowGrows(z, fd'[c], win'[c], apart, Done(c)) BY <1>7, <3>1 DEF WindowGrows, k
    <3>3. z = call'[b] BY <2>2 DEF z
    <3>4. Done(b)' <=> Done(c) BY <1>7, <1>15, <2>2, <3>3 DEF Done
    <3> QED BY <2>0, <2>2, <3>2, <3>3, <3>4 DEF WindowGrows
  <2> QED BY <2>1, <2>2
<1> QED BY <1>10, <1>11, <1>12, <1>13, <1>14, <1>16, <1>17, <1>18 DEF FileInv, ServerInv, WindowInv
-----------------------------------------------------------------------------
(* The server's actions.                                                   *)

\* Some client has the page of entry s.
Held(s) == \E b \in Client, d \in Fd : fd[b][d] = s

\* A handler answers the client that is served with m, leaves alone the entries that
\* clients hold, and changes the size of a file only to the one in the descriptor.
Serves(m) ==
  /\ srv.at = "serve" /\ srv' = [srv EXCEPT !.at = "reply", !.out = <<m>>] /\ m \in Message
  /\ UNCHANGED <<spaces, call, calls>>
  /\ opentab' \in [Slot -> [o_fileid : 0..(IDMOD - 1), o_file : Node \cup {NULL}]]
  /\ filled \subseteq filled' /\ filled' \subseteq Slot
  /\ ff' \in [Slot -> [f_fileid : 0..(IDMOD - 1), f_size : 0..NPAGE, f_file : Node \cup {NULL}]]
  /\ f_size' \in [Node -> 0..NPAGE] /\ gone' \subseteq Node /\ apart' \subseteq Slot
  /\ \A s \in Slot : opentab'[s].o_fileid % MAXOPEN = s
  /\ \A s \in Slot : Held(s) =>
       /\ opentab'[s] = opentab[s] /\ ff'[s] = ff[s]
       /\ s \notin apart' =>
            /\ s \notin apart
            /\ f_size'[ff[s].f_file] \in {f_size[ff[s].f_file], ff[s].f_size}
  /\ call[srv.whom].op = "resize" /\ FdOf(srv.whom) \notin apart' =>
       f_size'[ff[FdOf(srv.whom)].f_file] = call[srv.whom].size
  /\ m.r # "inval"
  /\ m.fd # NULL =>
       /\ srv.req.type = "open" /\ m.r = "ok" /\ ~Held(m.fd) /\ m.fd \in filled'
       /\ opentab'[m.fd].o_fileid = ff'[m.fd].f_fileid
       /\ opentab'[m.fd].o_file = ff'[m.fd].f_file /\ ff'[m.fd].f_file # NULL
       /\ m.fd \notin apart' => ff'[m.fd].f_size = f_size'[ff'[m.fd].f_file]
  /\ srv.req.type = "open" /\ m.r = "ok" => m.fd # NULL
  /\ m.page # NULL => srv.req.type = "map" /\ m.page = <<ff[FdOf(srv.whom)].f_file, srv.req.arg>>
  /\ srv.req.type = "map" /\ m.r = "ok" => m.page # NULL

\* Such a handler keeps the invariant.
LEMMA ServesKeeps ==
  ASSUME FileInv, NEW m, Serves(m)
  PROVE  FileInv'
<1> DEFINE c == srv.whom
<1>1. /\ ServerTypeOK /\ RightFile /\ InStep /\ IdsRight /\ AnswerRight /\ EachWhole
      /\ \A b \in Client : CallRight(call[b], fd[b])
      /\ \A b \in Client : WindowGrows(call[b], fd[b], win[b], apart, Done(b))
      /\ \A b \in Client : call[b] \in CallState /\ call[b].fd \in Fd
      /\ \A b \in Client, d \in Fd : fd[b][d] \in Slot \cup {NULL}
  BY DEF FileInv, ServerInv, WindowInv, ServerTypeOK, CallState
<1>2. fd' = fd /\ win' = win /\ call' = call /\ calls' = calls BY DEF Serves, spaces
<1>3. /\ srv'.at = "reply" /\ srv'.whom = c /\ srv'.req = srv.req /\ srv'.out = <<m>>
      /\ srv' \in [at : {"recv", "serve", "reply", "lost"}, whom : Client \cup {NULL}, req : Request,
                   out : Seq(Message)]
      /\ srv.at = "serve" /\ m \in Message
  <2>1. <<m>> \in Seq(Message) BY DEF Serves
  <2> QED BY <1>1, <2>1 DEF Serves, ServerTypeOK
<1>4. c \in Client BY <1>3, ServedIs
<1>5. ASSUME NEW b \in Client, NEW d \in Fd, fd[b][d] # NULL
      PROVE  LET s == fd[b][d] IN
             /\ s \in Slot /\ Filled(s) /\ s \in filled'
             /\ opentab'[s] = opentab[s] /\ ff'[s] = ff[s]
             /\ s \notin apart' =>
                 /\ s \notin apart
                 /\ f_size'[ff[s].f_file] \in {f_size[ff[s].f_file], ff[s].f_size}
  <2>1. fd[b][d] \in Slot /\ Filled(fd[b][d]) BY <1>1, <1>5 DEF RightFile
  <2>2. Held(fd[b][d]) BY DEF Held
  <2>3. fd[b][d] \in filled' BY <2>1 DEF Serves, Filled
  <2> QED BY <2>1, <2>2, <2>3 DEF Serves
<1> HIDE DEF c
<1>6. ServerTypeOK' BY <1>1, <1>2, <1>3 DEF Serves, ServerTypeOK
<1>7. RightFile'
  <2>1. ASSUME NEW b \in Client, NEW d \in Fd PROVE (fd[b][d] # NULL => Filled(fd[b][d]))'
    BY <1>2, <1>5 DEF Filled
  <2> QED BY <1>1, <1>2, <2>1 DEF RightFile
<1>8. InStep' BY <1>1, <1>2, <1>3 DEF InStep, c
<1>9. IdsRight' BY DEF Serves, IdsRight
<1>10. AnswerRight'
  <2>1. srv'.out[1] = m /\ Len(srv'.out) = 1 BY <1>3
  <2>2. FdOf(srv.whom)' = FdOf(srv.whom) BY <1>2, <1>3 DEF FdOf, c
  <2>3. m.page # NULL => ff'[FdOf(c)] = ff[FdOf(c)]
    <3>1. m.page # NULL => FdOf(c) \in Slot BY <1>3, ServedIs DEF Serves, c
    <3>2. m.page # NULL => FdOf(c) # NULL BY <3>1, FileServerAssumption
    <3> QED BY <1>1, <1>4, <1>5, <3>2 DEF FdOf
  <2>4. srv'.whom # NULL BY <1>3, <1>4, FileServerAssumption
  <2>5. m.fd # NULL => \A b \in Client, d \in Fd : fd'[b][d] # m.fd BY <1>2 DEF Serves, Held
  <2>6. m.fd # NULL => Filled(m.fd)' BY DEF Serves, Filled
  <2>7. /\ m.r # "inval"
        /\ m.fd # NULL => /\ srv.req.type = "open" /\ m.r = "ok"
                          /\ m.fd \notin apart' => ff'[m.fd].f_size = f_size'[ff'[m.fd].f_file]
        /\ srv.req.type = "open" /\ m.r = "ok" => m.fd # NULL
        /\ m.page # NULL => srv.req.type = "map" /\ m.page = <<ff[FdOf(c)].f_file, srv.req.arg>>
        /\ srv.req.type = "map" /\ m.r = "ok" => m.page # NULL
    BY DEF Serves, c
  <2>8. FdOf(srv.whom)' = FdOf(c) BY <1>3, <2>2 DEF c
  <2> QED BY <1>3, <2>1, <2>3, <2>4, <2>5, <2>6, <2>7, <2>8 DEF AnswerRight
<1>11. \A b \in Client : CallRight(call[b], fd[b])'
  <2> TAKE b \in Client
  <2>1. CallRight(call[b], fd[b]) BY <1>1
  <2>2. call[b].op \in FileOp => ff'[fd[b][call[b].fd]] = ff[fd[b][call[b].fd]]
    <3>1. call[b].op \in FileOp => fd[b][call[b].fd] # NULL BY <2>1 DEF CallRight
    <3> QED BY <1>1, <1>5, <3>1
  <2> QED BY <1>2, <2>1, <2>2 DEF CallRight
<1>12. EachWhole'
  <2> SUFFICES ASSUME NEW b \in Client, NEW d \in Fd, ~On(call'[b], d)
               PROVE  Whole(fd[b], win[b], d, apart)'
    BY DEF EachWhole, On
  <2>1. Whole(fd[b], win[b], d, apart) BY <1>1, <1>2 DEF EachWhole
  <2> DEFINE s == fd[b][d]
  <2>2. s # NULL /\ s \notin apart' =>
          /\ ff'[s] = ff[s] /\ s \notin apart
          /\ f_size'[ff[s].f_file] \in {f_size[ff[s].f_file], ff[s].f_size}
    BY <1>5
  <2>3. fd'[b][d] = s /\ win'[b] = win[b] BY <1>2
  <2> HIDE DEF s
  <2>4. s # NULL /\ s \notin apart =>
          /\ ff[s].f_size = f_size[ff[s].f_file]
          /\ \A p \in Page : p < ff[s].f_size => win[b][d][p] = <<ff[s].f_file, p>>
    BY <2>1 DEF Whole, s
  <2> QED BY <2>2, <2>3, <2>4 DEF Whole
<1>13. \A b \in Client : WindowGrows(call[b], fd[b], win[b], apart, Done(b))'
  <2> TAKE b \in Client
  <2> DEFINE k == call[b]
             s == fd[b][k.fd]
  <2>1. WindowGrows(k, fd[b], win[b], apart, Done(b)) BY <1>1
  <2>2. s # NULL /\ s \notin apart' =>
          /\ ff'[s] = ff[s] /\ s \notin apart
          /\ f_size'[ff[s].f_file] \in {f_size[ff[s].f_file], ff[s].f_size}
    BY <1>1, <1>5
  <2>3. b # c => (Done(b)' <=> Done(b)) BY <1>2, <1>3 DEF Done
  <2>4. b = c /\ k.op = "resize" /\ s \notin apart' => f_size'[ff[s].f_file] = k.size
    BY <1>3 DEF Serves, FdOf, c
  <2>5. fd'[b][call'[b].fd] = s /\ call'[b] = k /\ win'[b] = win[b] BY <1>2
  <2> HIDE DEF s, k
  <2>6. s # NULL /\ s \notin apart =>
          /\ k.op = "open" => ff[s].f_size = f_size[ff[s].f_file]
          /\ k.op \in {"load", "grow"} =>
               /\ ff[s].f_size = k.size /\ f_size[ff[s].f_file] = k.size
               /\ \A p \in Page : p < k.i \/ (p = k.i /\ k.at = "got" /\ k.r = "ok")
                                    => win[b][k.fd][p] = <<ff[s].f_file, p>>
          /\ k.op = "resize" =>
               /\ ff[s].f_size = k.size
               /\ Done(b) => f_size[ff[s].f_file] = k.size
               /\ \A p \in Page : p < k.old => win[b][k.fd][p] = <<ff[s].f_file, p>>
          /\ k.op # "undo"
    BY <2>1 DEF WindowGrows, s
  <2>7. CASE s = NULL \/ s \in apart' BY <2>5, <2>7 DEF WindowGrows
  <2>8. CASE s # NULL /\ s \notin apart'
    <3> DEFINE f == ff[s].f_file
    <3>1. k.op = "resize" /\ Done(b)' => f_size'[f] = k.size
      BY <2>2, <2>3, <2>4, <2>6, <2>8
    <3>2. ff'[s].f_file = f /\ ff'[s].f_size = ff[s].f_size BY <2>2, <2>8
    <3>3. /\ k.op = "open" => ff[s].f_size = f_size'[f]
          /\ k.op \in {"load", "grow"} => ff[s].f_size = k.size /\ f_size'[f] = k.size
      BY <2>2, <2>6, <2>8
    <3> QED BY <2>2, <2>5, <2>6, <2>8, <3>1, <3>2, <3>3 DEF WindowGrows
  <2> QED BY <2>7, <2>8
<1> QED BY <1>6, <1>7, <1>8, <1>9, <1>10, <1>11, <1>12, <1>13 DEF FileInv, ServerInv, WindowInv

\* The server finds the entry that the descriptor of the client is.
LEMMA LookupIs ==
  ASSUME FileInv, srv.at = "serve", srv.req.type \in {"map", "set_size", "close", "dirty"}
  PROVE  LET s == FdOf(srv.whom)
             q == srv.req
         IN
         /\ s \in Slot /\ Held(s) /\ ff[s].f_file \in Node
         /\ open_lookup(q.fileid) /\ q.fileid % MAXOPEN = s /\ FileOf(q.fileid) = ff[s].f_file
<1> DEFINE c == srv.whom
           s == FdOf(c)
           q == srv.req
<1>1. /\ c \in Client /\ call[c] \in CallState /\ s \in Slot /\ q.fileid = ff[s].f_fileid
  BY ServedIs
<1>2. call[c].fd \in Fd /\ s = fd[c][call[c].fd] /\ s # NULL
  BY <1>1, FileServerAssumption DEF CallState, FdOf
<1>3. Held(s) /\ Filled(s) /\ ff[s].f_file \in Node BY <1>1, <1>2, DescriptorIs DEF Held
<1>4. opentab[s].o_fileid = q.fileid /\ opentab[s].o_file = ff[s].f_file BY <1>1, <1>3 DEF Filled
<1>5. q.fileid % MAXOPEN = s BY <1>1, <1>4 DEF FileInv, ServerInv, IdsRight
<1>6. pageref(s) > 1
  <2>1. ServerTypeOK /\ RightFile BY DEF FileInv, ServerInv
  <2> QED BY <1>1, <1>3, <2>1, PageRef DEF Held
<1>7. pageref(s) # 1
  <2> SUFFICES ASSUME pageref(s) = 1 PROVE FALSE OBVIOUS
  <2> QED BY <1>6
<1> HIDE DEF s, q
<1> QED BY <1>1, <1>3, <1>4, <1>5, <1>7 DEF open_lookup, FileOf, s, q

\* The answers are messages.
LEMMA AnswerTo ==
  ASSUME NEW r \in {"ok", "err", "inval"}
  PROVE  \E m \in Message : Answer(r) = <<m>> /\ m.r = r /\ m.fd = NULL /\ m.page = NULL
<1> DEFINE n == [r |-> r, fd |-> NULL, page |-> NULL]
<1>1. n \in Message /\ n.r = r /\ n.fd = NULL /\ n.page = NULL BY DEF Message
<1>2. Answer(r) = <<n>> BY DEF Answer
<1> HIDE DEF n
<1> QED BY <1>1, <1>2

\* A descriptor is one
LEMMA AnswerFdTo ==
  ASSUME NEW s \in Slot
  PROVE  \E m \in Message : AnswerFd(s) = <<m>> /\ m.r = "ok" /\ m.fd = s /\ m.page = NULL
<1> DEFINE n == [r |-> "ok", fd |-> s, page |-> NULL]
<1>1. n \in Message /\ n.r = "ok" /\ n.fd = s /\ n.page = NULL BY DEF Message
<1>2. AnswerFd(s) = <<n>> BY DEF AnswerFd
<1> HIDE DEF n
<1> QED BY <1>1, <1>2

\* and so is a page of a file.
LEMMA AnswerPageTo ==
  ASSUME NEW page \in FilePage
  PROVE  \E m \in Message : AnswerPage(page) = <<m>> /\ m.r = "ok" /\ m.fd = NULL /\ m.page = page
<1> DEFINE n == [r |-> "ok", fd |-> NULL, page |-> page]
<1>1. n \in Message /\ n.r = "ok" /\ n.fd = NULL /\ n.page = page BY DEF Message
<1>2. AnswerPage(page) = <<n>> BY DEF AnswerPage
<1> HIDE DEF n
<1> QED BY <1>1, <1>2

\* A handler that changes nothing and answers.
Quiet(m) ==
  /\ srv.at = "serve" /\ srv' = [srv EXCEPT !.at = "reply", !.out = <<m>>] /\ m \in Message
  /\ UNCHANGED <<table, disk, apart, spaces, call, calls>>
  /\ srv.req.type # "set_size"
  /\ m.r # "inval" /\ m.fd = NULL
  /\ ~(srv.req.type = "open" /\ m.r = "ok")
  /\ m.page # NULL => srv.req.type = "map" /\ m.page = <<ff[FdOf(srv.whom)].f_file, srv.req.arg>>
  /\ srv.req.type = "map" /\ m.r = "ok" => m.page # NULL

\* It keeps the invariant.
LEMMA QuietKeeps ==
  ASSUME FileInv, NEW m, Quiet(m)
  PROVE  FileInv'
<1>1. call[srv.whom].op # "resize" BY ServedIs DEF Quiet
<1>2. UNCHANGED <<opentab, filled, ff, f_size, gone, apart>> BY DEF Quiet, table, disk
<1>3. ServerTypeOK /\ IdsRight BY DEF FileInv, ServerInv
<1>4. \A s \in Slot : opentab'[s].o_fileid % MAXOPEN = s BY <1>2, <1>3 DEF IdsRight
<1>5. Serves(m) BY <1>1, <1>2, <1>3, <1>4 DEF Quiet, Serves, ServerTypeOK
<1> QED BY <1>5, ServesKeeps

\* map, close, dirty and sync change nothing in the server.
LEMMA quietServeKeeps ==
  ASSUME FileInv, srv.at = "serve", UNCHANGED <<spaces, call, calls>>,
         \/ srv.req.type = "map" /\ serve_map(srv.req.fileid, srv.req.arg)
         \/ srv.req.type = "close" /\ serve_close(srv.req.fileid)
         \/ srv.req.type = "dirty" /\ serve_dirty(srv.req.fileid)
         \/ srv.req.type = "sync" /\ serve_sync
  PROVE  FileInv'
<1> DEFINE q == srv.req
           s == FdOf(srv.whom)
           page == <<ff[s].f_file, q.arg>>
<1>1. ASSUME NEW r \in {"ok", "err"}, Send(Answer(r)), UNCHANGED <<table, disk, apart>>,
             q.type \in {"close", "dirty", "sync"} \/ (q.type = "map" /\ r = "err")
      PROVE  FileInv'
  <2>1. PICK m \in Message : Answer(r) = <<m>> /\ m.r = r /\ m.fd = NULL /\ m.page = NULL
    BY AnswerTo
  <2>2. Quiet(m) BY <1>1, <2>1 DEF Quiet, Send
  <2> QED BY <2>2, QuietKeeps
<1>2. CASE q.type = "map" /\ serve_map(q.fileid, q.arg)
  <2>1. /\ open_lookup(q.fileid) /\ FileOf(q.fileid) = ff[s].f_file /\ ff[s].f_file \in Node
    BY <1>2, LookupIs
  <2>2. q.arg \in Page
    <3>1. /\ call[srv.whom] \in CallState /\ q.arg = call[srv.whom].i
          /\ call[srv.whom].i < call[srv.whom].size
      BY <1>2, ServedIs
    <3>2. call[srv.whom].i \in 0..NPAGE /\ call[srv.whom].size \in 0..NPAGE BY <3>1 DEF CallState
    <3> QED BY <3>1, <3>2, FileServerAssumption DEF Page
  <2>3. /\ UNCHANGED <<table, disk, apart>>
        /\ Send(AnswerPage(page)) \/ Send(Answer("err"))
    BY <1>2, <2>1 DEF serve_map
  <2>4. CASE Send(AnswerPage(page))
    <3>1. page \in FilePage BY <2>1, <2>2 DEF FilePage
    <3> HIDE DEF page
    <3>2. PICK m \in Message : AnswerPage(page) = <<m>> /\ m.r = "ok" /\ m.fd = NULL /\ m.page = page
      BY <3>1, AnswerPageTo
    <3>3. page # NULL BY <3>1, FileServerAssumption DEF FilePage
    <3>4. Quiet(m) BY <1>2, <2>3, <2>4, <3>2, <3>3 DEF Quiet, Send, page
    <3> QED BY <3>4, QuietKeeps
  <2>5. CASE Send(Answer("err")) BY <1>1, <1>2, <2>3, <2>5
  <2> QED BY <2>3, <2>4, <2>5
<1>3. CASE q.type = "close" /\ serve_close(q.fileid)
  <2>1. open_lookup(q.fileid) BY <1>3, LookupIs
  <2> QED BY <1>1, <1>3, <2>1 DEF serve_close
<1>4. CASE q.type = "dirty" /\ serve_dirty(q.fileid)
  <2>1. open_lookup(q.fileid) BY <1>4, LookupIs
  <2>2. Send(Answer("ok")) \/ Send(Answer("err")) BY <1>4, <2>1 DEF serve_dirty
  <2> QED BY <1>1, <1>4, <2>2 DEF serve_dirty
<1>5. CASE q.type = "sync" /\ serve_sync BY <1>1, <1>5 DEF serve_sync
<1> QED BY <1>2, <1>3, <1>4, <1>5

\* set_size gives a file the size that the descriptor of the client has, and the other
\* opens of the file are apart.
LEMMA serve_set_sizeKeeps ==
  ASSUME FileInv, srv.at = "serve", UNCHANGED <<spaces, call, calls>>,
         srv.req.type = "set_size", serve_set_size(srv.req.fileid, srv.req.arg)
  PROVE  FileInv'
<1> DEFINE q == srv.req
           c == srv.whom
           k == call[c]
           s == FdOf(c)
           f == ff[s].f_file
<1>1. s \in Slot /\ Held(s) /\ f \in Node /\ open_lookup(q.fileid) /\ q.fileid % MAXOPEN = s
      /\ FileOf(q.fileid) = f
  BY LookupIs
<1>2. /\ f_size' = [f_size EXCEPT ![f] = q.arg] /\ apart' = apart \cup Others(f, s)
      /\ Send(Answer("ok")) /\ UNCHANGED <<opentab, filled, ff, gone>>
  BY <1>1 DEF serve_set_size, table
<1>3. /\ ServerTypeOK /\ IdsRight /\ RightFile /\ f_size \in [Node -> 0..NPAGE] /\ q.arg \in 0..NPAGE
      /\ WindowGrows(k, fd[c], win[c], apart, Done(c)) /\ k.op \in {"resize", "undo"}
      /\ k.op = "resize" => q.arg = k.size
      /\ fd[c][k.fd] = s
  <2>1. c \in Client /\ k.op \in {"resize", "undo"} /\ (k.op = "resize" => q.arg = k.size)
    BY ServedIs
  <2>2. srv.req \in Request BY DEF FileInv, ServerInv, ServerTypeOK
  <2>3. srv.req.arg \in 0..NPAGE BY <2>2 DEF Request
  <2> QED BY <2>1, <2>3 DEF FileInv, ServerInv, WindowInv, ServerTypeOK, FdOf
<1>4. PICK m \in Message : Answer("ok") = <<m>> /\ m.r = "ok" /\ m.fd = NULL /\ m.page = NULL
  BY AnswerTo
<1>5. s \notin apart => k.op = "resize" /\ ff[s].f_size = k.size
  <2>1. s # NULL BY <1>1, FileServerAssumption
  <2> HIDE DEF s
  <2> QED BY <1>3, <2>1 DEF WindowGrows
<1> HIDE DEF s, k, c
<1>6. f_size' \in [Node -> 0..NPAGE] /\ f_size'[f] = q.arg
      /\ \A n \in Node : n # f => f_size'[n] = f_size[n]
  BY <1>1, <1>2, <1>3
<1>7. apart \subseteq apart' /\ apart' \subseteq Slot BY <1>2, <1>3 DEF Others, ServerTypeOK
<1>8. ASSUME NEW t \in Slot, Held(t), t \notin apart'
      PROVE  f_size'[ff[t].f_file] \in {f_size[ff[t].f_file], ff[t].f_size}
  <2>1. CASE t = s BY <1>3, <1>5, <1>6, <1>7, <1>8, <2>1
  <2>2. CASE t # s
    <3>1. ff[t].f_file # f BY <1>2, <1>8, <2>2 DEF Others
    <3>2. ff[t].f_file \in Node
      <4>1. PICK b \in Client, d \in Fd : fd[b][d] = t BY <1>8 DEF Held
      <4>2. t # NULL BY FileServerAssumption
      <4> QED BY <4>1, <4>2, DescriptorIs
    <3> QED BY <1>6, <3>1, <3>2
  <2> QED BY <2>1, <2>2
<1>9. k.op = "resize" /\ s \notin apart' => f_size'[f] = k.size BY <1>3, <1>6
<1>10. \A t \in Slot : opentab'[t].o_fileid % MAXOPEN = t BY <1>2, <1>3 DEF IdsRight
<1>11. srv' = [srv EXCEPT !.at = "reply", !.out = <<m>>] BY <1>2, <1>4 DEF Send
<1>12. /\ opentab' \in [Slot -> [o_fileid : 0..(IDMOD - 1), o_file : Node \cup {NULL}]]
       /\ filled \subseteq filled' /\ filled' \subseteq Slot
       /\ ff' \in [Slot -> [f_fileid : 0..(IDMOD - 1), f_size : 0..NPAGE, f_file : Node \cup {NULL}]]
       /\ gone' \subseteq Node /\ opentab' = opentab /\ ff' = ff
  BY <1>2, <1>3 DEF ServerTypeOK
<1>13. Serves(m)
  BY <1>4, <1>6, <1>7, <1>8, <1>9, <1>10, <1>11, <1>12 DEF Serves, s, k, c
<1> QED BY <1>13, ServesKeeps

\* remove sets every open of the file apart.
LEMMA serve_removeKeeps ==
  ASSUME FileInv, srv.at = "serve", UNCHANGED <<spaces, call, calls>>,
         srv.req.type = "remove", serve_remove(srv.req.path)
  PROVE  FileInv'
<1> DEFINE f == walk_path(srv.req.path)
<1>1. PICK e \in Message : Answer("err") = <<e>> /\ e.r = "err" /\ e.fd = NULL /\ e.page = NULL
  BY AnswerTo
<1>2. PICK m \in Message : Answer("ok") = <<m>> /\ m.r = "ok" /\ m.fd = NULL /\ m.page = NULL
  BY AnswerTo
<1>3. CASE f \notin Node
  <2>1. Send(Answer("err")) /\ UNCHANGED <<table, disk, apart>> BY <1>3 DEF serve_remove
  <2>2. Quiet(e) BY <1>1, <2>1 DEF Quiet, Send
  <2> QED BY <2>2, QuietKeeps
<1>4. CASE f \in Node /\ ~OpenIn(Below(f))
  <2>1. /\ f_size' = [f_size EXCEPT ![f] = 0] /\ apart' = apart \cup Others(f, NULL)
        /\ gone' = gone \cup {f} /\ Send(Answer("ok")) /\ UNCHANGED <<opentab, filled, ff>>
    BY <1>4 DEF serve_remove, table
  <2> HIDE DEF f
  <2>2. ServerTypeOK /\ IdsRight /\ f_size \in [Node -> 0..NPAGE]
    BY DEF FileInv, ServerInv, ServerTypeOK
  <2>3. /\ f_size' \in [Node -> 0..NPAGE]
        /\ \A n \in Node : n # f => f_size'[n] = f_size[n]
    <3>1. 0 \in 0..NPAGE BY FileServerAssumption
    <3> QED BY <1>4, <2>1, <2>2, <3>1
  <2>4. apart \subseteq apart' /\ apart' \subseteq Slot BY <2>1, <2>2 DEF Others, ServerTypeOK
  <2>5. ASSUME NEW t \in Slot, Held(t), t \notin apart'
        PROVE  f_size'[ff[t].f_file] = f_size[ff[t].f_file]
    <3>1. t # NULL BY FileServerAssumption
    <3>2. ff[t].f_file # f BY <2>1, <2>5, <3>1 DEF Others
    <3>3. PICK b \in Client, d \in Fd : fd[b][d] = t BY <2>5 DEF Held
    <3>4. ff[t].f_file \in Node BY <3>1, <3>3, DescriptorIs
    <3> QED BY <2>3, <3>2, <3>4
  <2>6. call[srv.whom].op # "resize" BY ServedIs
  <2>7. \A t \in Slot : opentab'[t].o_fileid % MAXOPEN = t BY <2>1, <2>2 DEF IdsRight
  <2>8. srv' = [srv EXCEPT !.at = "reply", !.out = <<m>>] BY <1>2, <2>1 DEF Send
  <2>9. /\ opentab' \in [Slot -> [o_fileid : 0..(IDMOD - 1), o_file : Node \cup {NULL}]]
        /\ filled \subseteq filled' /\ filled' \subseteq Slot
        /\ ff' \in [Slot -> [f_fileid : 0..(IDMOD - 1), f_size : 0..NPAGE, f_file : Node \cup {NULL}]]
        /\ gone' \subseteq Node /\ opentab' = opentab /\ ff' = ff
    BY <1>4, <2>1, <2>2 DEF ServerTypeOK
  <2>10. Serves(m) BY <1>2, <2>3, <2>4, <2>5, <2>6, <2>7, <2>8, <2>9 DEF Serves
  <2> QED BY <2>10, ServesKeeps
<1>5. CASE f \in Node /\ OpenIn(Below(f))
  <2>1. srv' = [srv EXCEPT !.at = "lost"]
        /\ UNCHANGED <<opentab, filled, ff, f_size, gone, fd, win, call, calls, apart>>
    BY <1>5 DEF serve_remove, table, disk, spaces
  <2>2. ServerTypeOK /\ RightFile /\ InStep /\ IdsRight /\ AnswerRight
    BY DEF FileInv, ServerInv
  <2>3. /\ srv'.at = "lost" /\ srv'.whom = srv.whom /\ srv'.req = srv.req
        /\ srv' \in [at : {"recv", "serve", "reply", "lost"}, whom : Client \cup {NULL},
                     req : Request, out : Seq(Message)]
    BY <2>1, <2>2 DEF ServerTypeOK
  <2>4. ServerTypeOK' BY <2>1, <2>2, <2>3 DEF ServerTypeOK
  <2>5. RightFile' /\ InStep' /\ IdsRight'
    BY <2>1, <2>2, <2>3 DEF RightFile, Filled, InStep, IdsRight
  <2>6. AnswerRight' BY <2>2, <2>3 DEF AnswerRight
  <2>7. \A c \in Client : CallRight(call[c], fd[c])' BY <2>1 DEF FileInv, ServerInv, CallRight
  <2>8. EachWhole' BY <2>1 DEF FileInv, WindowInv, EachWhole, Whole, On
  <2>9. \A c \in Client : WindowGrows(call[c], fd[c], win[c], apart, Done(c))'
    <3>1. \A c \in Client : Done(c)' = Done(c) BY <2>1, <2>3 DEF Done
    <3>2. \A c \in Client : WindowGrows(call[c], fd[c], win[c], apart, Done(c))
      BY DEF FileInv, WindowInv
    <3> QED BY <2>1, <3>1, <3>2 DEF WindowGrows
  <2> QED BY <2>4, <2>5, <2>6, <2>7, <2>8, <2>9 DEF FileInv, ServerInv, WindowInv
<1> QED BY <1>3, <1>4, <1>5

\* open takes an entry whose page no client has.
LEMMA serve_openKeeps ==
  ASSUME FileInv, srv.at = "serve", UNCHANGED <<spaces, call, calls, disk>>,
         srv.req.type = "open", serve_open(srv.req.path)
  PROVE  FileInv'
<1> DEFINE free == {t \in Slot : ~InUse(t)}
           s    == Least(free)
           id   == (opentab[s].o_fileid + MAXOPEN) % IDMOD
           f    == walk_path(srv.req.path)
<1>1. PICK e \in Message : Answer("err") = <<e>> /\ e.r = "err" /\ e.fd = NULL /\ e.page = NULL
  BY AnswerTo
<1>2. CASE Send(Answer("err")) /\ UNCHANGED <<table, apart>>
  <2>1. Quiet(e) BY <1>1, <1>2 DEF Quiet, Send
  <2> QED BY <2>1, QuietKeeps
<1>3. CASE /\ free # {} /\ filled' = filled \cup {s}
           /\ \/ /\ f \in Node
                 /\ opentab' = [opentab EXCEPT ![s] = [o_fileid |-> id, o_file |-> f]]
                 /\ ff' = [ff EXCEPT ![s] = [f_fileid |-> id, f_size |-> f_size[f], f_file |-> f]]
                 /\ apart' = apart \ {s}
                 /\ Send(AnswerFd(s))
              \/ /\ opentab' = [opentab EXCEPT ![s].o_fileid = id]
                 /\ ff' = [ff EXCEPT ![s] = Zero]
                 /\ Send(Answer("err"))
                 /\ UNCHANGED apart
  <2>1. s \in free
    <3>1. free \in SUBSET Nat BY DEF Slot
    <3> HIDE DEF free
    <3> QED BY <1>3, <3>1, LeastIs
  <2>2. s \in Slot /\ ~(pageref(s) > 1) BY <2>1 DEF InUse
  <2> HIDE DEF s, f, free
  <2>3. ServerTypeOK /\ IdsRight /\ RightFile
        /\ opentab \in [Slot -> [o_fileid : 0..(IDMOD - 1), o_file : Node \cup {NULL}]]
        /\ ff \in [Slot -> [f_fileid : 0..(IDMOD - 1), f_size : 0..NPAGE, f_file : Node \cup {NULL}]]
        /\ f_size \in [Node -> 0..NPAGE]
    BY DEF FileInv, ServerInv, ServerTypeOK
  <2>4. ~Held(s) BY <2>2, <2>3, PageRef DEF Held
  <2>5. opentab[s].o_fileid \in 0..(IDMOD - 1) /\ opentab[s].o_fileid % MAXOPEN = s
    BY <2>2, <2>3 DEF IdsRight
  <2>6. id \in 0..(IDMOD - 1) /\ id % MAXOPEN = s BY <2>5, NextId
  <2> HIDE DEF id
  <2>7. /\ filled \subseteq filled' /\ filled' \subseteq Slot /\ s \in filled'
        /\ apart' \subseteq Slot /\ \A t \in Slot : t # s /\ t \notin apart' => t \notin apart
    BY <1>3, <2>2, <2>3 DEF ServerTypeOK
  <2>8. f_size' = f_size /\ gone' = gone BY DEF disk
  <2>9. call[srv.whom].op # "resize" BY ServedIs
  <2>10. \A t \in Slot : Held(t) => t # s BY <2>4
  <2>11. /\ opentab' \in [Slot -> [o_fileid : 0..(IDMOD - 1), o_file : Node \cup {NULL}]]
         /\ opentab'[s].o_fileid = id
         /\ \A t \in Slot : t # s => opentab'[t] = opentab[t]
    <3>1. PICK x \in Node \cup {NULL} : opentab' = [opentab EXCEPT ![s] = [o_fileid |-> id, o_file |-> x]]
      <4>1. opentab[s] = [o_fileid |-> opentab[s].o_fileid, o_file |-> opentab[s].o_file]
            /\ opentab[s].o_file \in Node \cup {NULL}
        BY <2>2, <2>3
      <4>2. [opentab EXCEPT ![s].o_fileid = id]
              = [opentab EXCEPT ![s] = [o_fileid |-> id, o_file |-> opentab[s].o_file]]
        <5> DEFINE o == opentab[s]
        <5>1. o \in [o_fileid : 0..(IDMOD - 1), o_file : Node \cup {NULL}] BY <2>2, <2>3
        <5> HIDE DEF o
        <5>2. [o EXCEPT !.o_fileid = id] = [o_fileid |-> id, o_file |-> o.o_file] BY <5>1
        <5> QED BY <2>2, <2>3, <5>2 DEF o
      <4>3. CASE opentab' = [opentab EXCEPT ![s] = [o_fileid |-> id, o_file |-> f]] /\ f \in Node
        BY <4>3
      <4>4. CASE opentab' = [opentab EXCEPT ![s].o_fileid = id] BY <4>1, <4>2, <4>4
      <4> QED BY <1>3, <4>3, <4>4
    <3> QED BY <2>2, <2>3, <2>6, <3>1
  <2>12. /\ ff' \in [Slot -> [f_fileid : 0..(IDMOD - 1), f_size : 0..NPAGE, f_file : Node \cup {NULL}]]
         /\ \A t \in Slot : t # s => ff'[t] = ff[t]
    <3>1. Zero \in [f_fileid : 0..(IDMOD - 1), f_size : 0..NPAGE, f_file : Node \cup {NULL}]
      BY FileServerAssumption DEF Zero
    <3>2. f \in Node => [f_fileid |-> id, f_size |-> f_size[f], f_file |-> f]
                         \in [f_fileid : 0..(IDMOD - 1), f_size : 0..NPAGE, f_file : Node \cup {NULL}]
      BY <2>3, <2>6
    <3>3. PICK x \in [f_fileid : 0..(IDMOD - 1), f_size : 0..NPAGE, f_file : Node \cup {NULL}] :
            ff' = [ff EXCEPT ![s] = x]
      BY <1>3, <3>1, <3>2
    <3> QED BY <2>2, <2>3, <3>3
  <2>13. \A t \in Slot : opentab'[t].o_fileid % MAXOPEN = t BY <2>3, <2>6, <2>11 DEF IdsRight
  <2>14. CASE Send(Answer("err"))
    <3>1. srv' = [srv EXCEPT !.at = "reply", !.out = <<e>>] BY <1>1, <2>14 DEF Send
    <3>2. Serves(e)
      BY <1>1, <2>3, <2>7, <2>8, <2>9, <2>10, <2>11, <2>12, <2>13, <3>1 DEF Serves, ServerTypeOK
    <3> QED BY <3>2, ServesKeeps
  <2>15. CASE /\ f \in Node /\ Send(AnswerFd(s))
              /\ opentab' = [opentab EXCEPT ![s] = [o_fileid |-> id, o_file |-> f]]
              /\ ff' = [ff EXCEPT ![s] = [f_fileid |-> id, f_size |-> f_size[f], f_file |-> f]]
    <3>1. PICK m \in Message : AnswerFd(s) = <<m>> /\ m.r = "ok" /\ m.fd = s /\ m.page = NULL
      BY <2>2, AnswerFdTo
    <3>2. srv' = [srv EXCEPT !.at = "reply", !.out = <<m>>] BY <2>15, <3>1 DEF Send
    <3>3. /\ opentab'[s].o_fileid = id /\ opentab'[s].o_file = f
          /\ ff'[s].f_fileid = id /\ ff'[s].f_file = f /\ ff'[s].f_size = f_size[f]
      BY <2>2, <2>3, <2>15
    <3>4. f # NULL /\ s # NULL BY <2>2, <2>15, FileServerAssumption
    <3>5. Serves(m)
      BY <2>3, <2>4, <2>7, <2>8, <2>9, <2>10, <2>11, <2>12, <2>13, <3>1, <3>2, <3>3, <3>4
      DEF Serves, ServerTypeOK
    <3> QED BY <3>5, ServesKeeps
  <2> QED BY <1>3, <2>14, <2>15
<1> QED BY <1>2, <1>3 DEF serve_open

-----------------------------------------------------------------------------
(* The theorems.                                                           *)

\* At the start nobody has a descriptor and the server waits.
LEMMA InitFits == Init => FileInv
<1> SUFFICES ASSUME Init PROVE FileInv OBVIOUS
<1>0. 0 \in 0..NPAGE /\ 0 \in 0..(IDMOD - 1) /\ 0 \in 0..MaxCalls /\ IDMOD - 1 >= MAXOPEN - 1
      /\ MAXOPEN \in Nat /\ IDMOD \in Nat
  BY FileServerAssumption
<1>1. /\ call \in [Client -> CallState]
      /\ \A c \in Client : call[c].at = "user" /\ call[c].op \in {"idle", "dead"}
                           /\ call[c].r = "ok" /\ call[c].then = "return"
  <2>1. \A c \in Client : call[c] \in {Idle, Dead} BY DEF Init
  <2>2. call \in [Client -> CallState] BY <2>1, IdleIs DEF Init
  <2> QED BY <2>1, <2>2, IdleIs
<1>2. \A c \in Client, d \in Fd : fd[c][d] = NULL BY DEF Init, Closed
<1>3. fd \in [Client -> [Fd -> Slot \cup {NULL}]] BY DEF Init, Closed
<1>4. win \in [Client -> [Fd -> [Page -> FilePage \cup {Anon, NULL}]]] BY DEF Init, Empty, Blank
<1>5. srv \in [at : {"recv", "serve", "reply", "lost"}, whom : Client \cup {NULL}, req : Request,
               out : Seq(Message)]
  <2>1. <<>> \in Seq(Message) OBVIOUS
  <2> QED BY <2>1, NoReqIs DEF Init, Wait
<1>6. opentab \in [Slot -> [o_fileid : 0..(IDMOD - 1), o_file : Node \cup {NULL}]]
      /\ \A s \in Slot : opentab[s].o_fileid = s
  <2>1. \A s \in Slot : s \in 0..(IDMOD - 1) BY <1>0 DEF Slot
  <2> QED BY <2>1 DEF Init
<1>7. ff \in [Slot -> [f_fileid : 0..(IDMOD - 1), f_size : 0..NPAGE, f_file : Node \cup {NULL}]]
  BY <1>0 DEF Init, Zero
<1>8. ServerTypeOK BY <1>0, <1>1, <1>3, <1>4, <1>5, <1>6, <1>7, FileServerAssumption DEF Init, ServerTypeOK
<1>9. srv.at = "recv" BY DEF Init, Wait
<1>10. IdsRight
  <2>1. \A s \in Slot : s % MAXOPEN = s BY FileServerAssumption DEF Slot
  <2> QED BY <1>6, <2>1 DEF IdsRight
<1>11. RightFile /\ InStep /\ AnswerRight BY <1>1, <1>2, <1>9 DEF RightFile, InStep, AnswerRight
<1>12. \A c \in Client : CallRight(call[c], fd[c]) BY <1>1 DEF CallRight, FileOp
<1>13. EachWhole BY <1>2 DEF EachWhole, Whole
<1>14. \A c \in Client : WindowGrows(call[c], fd[c], win[c], apart, Done(c))
  <2>1. \A c \in Client : call[c].fd \in Fd BY <1>1 DEF CallState
  <2> QED BY <1>2, <2>1 DEF WindowGrows
<1> QED BY <1>8, <1>10, <1>11, <1>12, <1>13, <1>14 DEF FileInv, ServerInv, WindowInv

\* Every step keeps the invariant.
LEMMA NextKeeps ==
  ASSUME FileInv, [Next]_fvars
  PROVE  FileInv'
<1>1. CASE UNCHANGED fvars
  <2>1. UNCHANGED <<opentab, filled, ff, f_size, gone, srv, fd, win, call, calls, apart>>
    BY <1>1 DEF fvars, table, disk, spaces
  <2>2. ServerTypeOK' BY <2>1 DEF FileInv, ServerInv, ServerTypeOK
  <2>3. RightFile' /\ InStep' /\ IdsRight'
    BY <2>1 DEF FileInv, ServerInv, RightFile, Filled, InStep, IdsRight
  <2>4. AnswerRight' BY <2>1 DEF FileInv, ServerInv, AnswerRight, Filled, FdOf
  <2>5. \A c \in Client : CallRight(call[c], fd[c])' BY <2>1 DEF FileInv, ServerInv, CallRight
  <2>6. EachWhole' BY <2>1 DEF FileInv, WindowInv, EachWhole, Whole, On
  <2>7. \A c \in Client : WindowGrows(call[c], fd[c], win[c], apart, Done(c))'
    BY <2>1 DEF FileInv, WindowInv, WindowGrows, Done
  <2> QED BY <2>2, <2>3, <2>4, <2>5, <2>6, <2>7 DEF FileInv, ServerInv, WindowInv
<1>2. CASE serve
  BY <1>2, quietServeKeeps, serve_openKeeps, serve_set_sizeKeeps, serve_removeKeeps DEF serve
<1>3. CASE reply BY <1>3, replyKeeps
<1>4. ASSUME NEW c \in Client, Calls(c) PROVE FileInv'
  <2>1. calls' \in 0..MaxCalls
    <3>1. calls \in 0..MaxCalls BY DEF FileInv, ServerInv, ServerTypeOK
    <3> QED BY <1>4, <3>1, FileServerAssumption DEF Calls
  <2>2. CASE \E path \in Path : open(c, path) \/ remove(c, path)
    BY <2>1, <2>2, openKeeps, removeKeeps
  <2>3. CASE \E d \in Fd : \/ close(c, d)
                           \/ \E new \in Fd : dup(c, d, new)
                           \/ \E size \in 0..NPAGE : ftruncate(c, d, size)
                           \/ \E p \in Page : file_read(c, d, p)
    BY <2>1, <2>3, closeKeeps, dupKeeps, ftruncateKeeps, file_readKeeps
  <2>4. CASE sync(c) \/ exit(c) \/ destroy(c) \/ \E child \in Client : fork(c, child)
    BY <2>1, <2>4, syncKeeps, exitKeeps, destroyKeeps, forkKeeps
  <2> QED BY <1>4, <2>2, <2>3, <2>4 DEF Calls
<1>5. ASSUME NEW c \in Client, fsipc_send(c) PROVE FileInv' BY <1>5, fsipcKeeps
<1>6. ASSUME NEW c \in Client, Continue(c) PROVE FileInv'
  <2>1. calls' \in 0..MaxCalls
    <3>1. calls \in 0..MaxCalls BY DEF FileInv, ServerInv, ServerTypeOK
    <3> QED BY <1>6, <3>1 DEF Continue
  <2> QED BY <1>6, <2>1, fsipcKeeps, open_nextKeeps, close_nextKeeps, ftruncate_nextKeeps, returnKeeps
      DEF Continue
<1> QED BY <1>1, <1>2, <1>3, <1>4, <1>5, <1>6 DEF Next

\* The inductive invariant.
THEOREM FileInvariant == FileServerSpec => []FileInv
BY InitFits, NextKeeps, PTL DEF FileServerSpec

\* The table, the descriptors, the windows and the calls keep their types.
THEOREM ServerTypes == FileServerSpec => []ServerTypeOK
<1>1. FileInv => ServerTypeOK BY DEF FileInv, ServerInv
<1> QED BY <1>1, FileInvariant, PTL

\* open_alloc reuses an entry only when no client has its page: for any number of
\* clients, entries and descriptors, each descriptor is the server's entry for the same
\* file and fileid, and no request is refused with -E_INVAL.
THEOREM RightFileAlways == FileServerSpec => []RightFile
<1>1. FileInv => RightFile BY DEF FileInv, ServerInv
<1> QED BY <1>1, FileInvariant, PTL

\* The server answers the client that waits, for the request that it made.
THEOREM StaysInStep == FileServerSpec => []InStep
<1>1. FileInv => InStep BY DEF FileInv, ServerInv
<1> QED BY <1>1, FileInvariant, PTL

\* A descriptor that was not set apart shows all of its file, with the size that the
\* server has, to every client that is in no call on it, as long as no directory was
\* removed with a file open below it.
THEOREM WindowsWhole == FileServerSpec => []WindowWhole
<1>1. FileInv => WindowWhole BY DEF FileInv, WindowInv, WindowWhole
<1> QED BY <1>1, FileInvariant, PTL
================================================================================
