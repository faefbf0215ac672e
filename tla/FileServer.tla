------------------------------- MODULE FileServer -------------------------------
(***************************************************************************)
(* Clients and the file server: fs/serv.c with its open table, the         *)
(* requests of user/lib/fsipc.c, and the descriptors and mapped files of   *)
(* user/lib/file.c and user/lib/fd.c.                                      *)
(*                                                                         *)
(* A descriptor is a page (struct Filefd) that the server and the clients  *)
(* share, and the server tells from its reference count whether an entry   *)
(* of opentab is in use.  A file is read and written through a window of   *)
(* pages that the server has mapped to the client.  Every library call is  *)
(* a sequence of requests; between any two the others run.  The server     *)
(* serves one request at a time and answers before it takes the next.      *)
(*                                                                         *)
(* Sizes are in pages.  What the disk holds is left to FileSys: here a     *)
(* request that needs a block or a page may fail at any time.              *)
(***************************************************************************)
EXTENDS Integers, Sequences, FiniteSets, SequencesExt

CONSTANTS
  Client,   (* the envs that use files                                          *)
  MAXOPEN,  (* entries of opentab                                               *)
  MAXFD,    (* descriptor numbers of a client                                   *)
  NPAGE,    (* the largest file, in pages                                       *)
  IDMOD,    (* fileids are u_int: they count modulo IDMOD, and are negative as  *)
            (* an int from IDMOD \div 2 on                                      *)
  Node,     (* files and directories                                            *)
  Root,     (* the root directory                                               *)
  Parent,   (* Parent[n]: the directory of n, for all n but Root                *)
  Name,     (* Name[n]: its name there                                          *)
  Directory,(* the directories among them                                       *)
  Size0,    (* Size0[n]: the size of n at the start                             *)
  TooLong,  (* names of MAXNAMELEN characters or more                           *)
  Path,     (* the paths that clients use, as sequences of names                *)
  MaxCalls, (* bound: library calls that are made                               *)
  NULL

Regular == Node \ Directory
Slot    == 0..(MAXOPEN - 1)
Fd      == 0..(MAXFD - 1)
Page    == 0..(NPAGE - 1)

ASSUME FileServerAssumption ==
  /\ MAXOPEN \in Nat \ {0} /\ MAXFD \in Nat \ {0} /\ NPAGE \in Nat /\ MaxCalls \in Nat
  /\ IDMOD \in Nat /\ IDMOD > MAXOPEN /\ IDMOD % MAXOPEN = 0
  /\ IsFiniteSet(Client) /\ Root \in Directory /\ Directory \subseteq Node
  /\ DOMAIN Parent = Node \ {Root} /\ DOMAIN Name = Node \ {Root}
  /\ Size0 \in [Node -> 0..NPAGE]
  /\ NULL \notin Node \cup Slot \cup Client \cup (Node \X Page)

VARIABLES
  opentab,  (* struct Open: o_fileid and o_file                                 *)
  filled,   (* the entries of opentab that have an o_ff page                    *)
  ff,       (* what these pages hold: f_fileid, f_size and the name in f_file   *)
  f_size,   (* the size of each file, in the server                             *)
  gone,     (* the files and directories that were removed                      *)
  srv,      (* the server: waiting, serving a request or sending its answers,   *)
            (* or lost                                                          *)
  fd,       (* fd[c][d]: the entry whose page c has mapped at descriptor d      *)
  win,      (* win[c][d][p]: the page of a file that c has mapped at page p of  *)
            (* the window of d                                                  *)
  call,     (* the library call that c is in                                    *)
  calls,    (* how many were begun                                              *)
  apart     (* history: entries that were resized while shared or removed or    *)
            (* resized through another entry, or a call on them failed half way *)

table  == <<opentab, filled, ff>>
disk   == <<f_size, gone>>
spaces == <<fd, win>>
fvars  == <<table, disk, srv, spaces, call, calls, apart>>

Zero  == [f_fileid |-> 0, f_size |-> 0, f_file |-> NULL]
NoReq == [type |-> "none", fileid |-> 0, arg |-> 0, path |-> <<>>]
Idle  == [op |-> "idle", at |-> "user", req |-> NoReq, r |-> "ok", fd |-> 0, i |-> 0,
          size |-> 0, old |-> 0, then |-> "return"]
Dead  == [Idle EXCEPT !.op = "dead"]
Wait  == [at |-> "recv", whom |-> NULL, req |-> NoReq, out |-> <<>>]

Anon   == <<NULL, 0>>   \* a page of the client's own
Blank  == [p \in Page |-> NULL]
Closed == [d \in Fd |-> NULL]
Empty  == [d \in Fd |-> Blank]

\* serve_init; one client runs, the others are there to be forked.
Init ==
  /\ opentab = [s \in Slot |-> [o_fileid |-> s, o_file |-> NULL]]
  /\ filled = {} /\ ff = [s \in Slot |-> Zero]
  /\ f_size = Size0 /\ gone = {}
  /\ srv = Wait
  /\ fd = [c \in Client |-> Closed] /\ win = [c \in Client |-> Empty]
  /\ call = [c \in Client |-> IF c = CHOOSE b \in Client : TRUE THEN Idle ELSE Dead]
  /\ calls = 0 /\ apart = {}

\* The references to the page of entry s.
Refs(s) == Cardinality({m \in Client \X Fd : fd[m[1]][m[2]] = s})
pageref(s) == Refs(s) + (IF s \in filled THEN 1 ELSE 0)

Least(S) == CHOOSE x \in S : \A y \in S : x <= y

-----------------------------------------------------------------------------
(* The requests, in the server.                                            *)

\* dir_lookup: the entry called name in dir.  A directory that was removed has no
\* blocks left to look in.
dir_lookup(dir, name) ==
  {n \in Node \ ({Root} \cup gone) : f_size[dir] > 0 /\ Parent[n] = dir /\ Name[n] = name}

\* walk_path: the file or directory that path leads to, NULL when there is none.
walk_path(path) ==
  FoldLeft(LAMBDA n, name :
             IF n \in Directory /\ name \notin TooLong /\ dir_lookup(n, name) # {}
             THEN CHOOSE m \in dir_lookup(n, name) : TRUE ELSE NULL,
           Root, path)

\* The answers of a handler to the client that is being served: results, each with
\* the page that is mapped along with it, of a descriptor or of a file.
Answer(r)        == <<[r |-> r, fd |-> NULL, page |-> NULL]>>
AnswerFd(s)      == <<[r |-> "ok", fd |-> s, page |-> NULL]>>
AnswerPage(page) == <<[r |-> "ok", fd |-> NULL, page |-> page]>>

Send(out) == srv' = [srv EXCEPT !.at = "reply", !.out = out]

\* An open_alloc that takes an entry although a client has its page.
InUseNot(s) == pageref(s) > 2

\* open_alloc passes over an entry whose page a client has mapped.
InUse(s) == pageref(s) > 1

\* serve_open: open_alloc takes the first entry whose page is not mapped or mapped
\* by the server alone, gives it the next fileid and clears the page; a fileid that is
\* negative as an int is taken for an error.  The entry is filled out if the path
\* leads somewhere.
serve_open(path) ==
  LET free == {s \in Slot : ~InUse(s)}
      s    == Least(free)
      id   == (opentab[s].o_fileid + MAXOPEN) % IDMOD
      f    == walk_path(path)
  IN
  \/ /\ free # {} => s \notin filled        \* -E_MAX_OPEN or -E_NO_MEM
     /\ Send(Answer("err"))
     /\ UNCHANGED <<table, apart>>
  \/ /\ free # {}
     /\ filled' = filled \cup {s}
     /\ \/ /\ id < IDMOD \div 2 /\ f \in Node
           /\ opentab' = [opentab EXCEPT ![s] = [o_fileid |-> id, o_file |-> f]]
           /\ ff' = [ff EXCEPT ![s] = [f_fileid |-> id, f_size |-> f_size[f], f_file |-> f]]
           /\ apart' = apart \ {s}
           /\ Send(AnswerFd(s))
        \/ /\ opentab' = [opentab EXCEPT ![s].o_fileid = id]
           /\ ff' = [ff EXCEPT ![s] = Zero]
           /\ Send(Answer("err"))
           /\ UNCHANGED apart

\* open_lookup: the entry of a fileid is fileid % MAXOPEN.
open_lookup(fileid) ==
  LET s == fileid % MAXOPEN IN pageref(s) # 1 /\ opentab[s].o_fileid = fileid
FileOf(fileid) == opentab[fileid % MAXOPEN].o_file

\* A serve_map without the return after -E_NO_DISK.
serve_mapTwice(fileid, i) ==
  /\ IF open_lookup(fileid)
     THEN \/ Send(AnswerPage(<<FileOf(fileid), i>>))
          \/ Send(Answer("err") \o AnswerPage(<<FileOf(fileid), i>>))
     ELSE Send(Answer("inval"))
  /\ UNCHANGED <<table, disk, apart>>

\* file_get_block may find the disk or the memory full.
serve_map(fileid, i) ==
  /\ IF open_lookup(fileid)
     THEN Send(AnswerPage(<<FileOf(fileid), i>>)) \/ Send(Answer("err"))
     ELSE Send(Answer("inval"))
  /\ UNCHANGED <<table, disk, apart>>

\* The entries of other opens of f: their copy of the size is an old one from now on.
Others(f, s) == {t \in Slot \ {s} : ff[t].f_file = f}

serve_set_size(fileid, size) ==
  LET f == FileOf(fileid) IN
  /\ IF open_lookup(fileid)
     THEN /\ f_size' = [f_size EXCEPT ![f] = size]
          /\ apart' = apart \cup Others(f, fileid % MAXOPEN)
          /\ Send(Answer("ok"))
     ELSE Send(Answer("inval")) /\ UNCHANGED <<f_size, apart>>
  /\ UNCHANGED <<table, gone>>

\* serve_close writes the file to the disk.  The table keeps its entry, which is free
\* when the clients have unmapped its page.
serve_close(fileid) ==
  /\ Send(Answer(IF open_lookup(fileid) THEN "ok" ELSE "inval"))
  /\ UNCHANGED <<table, disk, apart>>

\* file_dirty fails where the file has no block.
serve_dirty(fileid) ==
  /\ IF open_lookup(fileid) THEN Send(Answer("ok")) \/ Send(Answer("err"))
     ELSE Send(Answer("inval"))
  /\ UNCHANGED <<table, disk, apart>>

\* The directories above n, and what is below f.
Above[n \in Node] == IF n = Root THEN {} ELSE {Parent[n]} \cup Above[Parent[n]]
Below(f) == {n \in Node : f \in Above[n]}

\* A client has a descriptor of something in N.
OpenIn(N) == \E c \in Client, d \in Fd : fd[c][d] # NULL /\ ff[fd[c][d]].f_file \in N

\* file_remove works on directories too, and frees their blocks.  The struct File of
\* what is below lies there.  Nobody can reach it any more, but the server goes on
\* using it for whoever has it open, while alloc_block may give the block away as
\* data: what the server does from there on is anything, and the model stops it.
serve_remove(path) ==
  LET f == walk_path(path) IN
  /\ \/ /\ f \in Node /\ ~OpenIn(Below(f))
        /\ gone' = gone \cup {f}
        /\ f_size' = [f_size EXCEPT ![f] = 0]
        /\ apart' = apart \cup Others(f, NULL)
        /\ Send(Answer("ok"))
     \/ /\ f \in Node /\ OpenIn(Below(f))
        /\ srv' = [srv EXCEPT !.at = "lost"]
        /\ UNCHANGED <<disk, apart>>
     \/ /\ f \notin Node
        /\ Send(Answer("err"))
        /\ UNCHANGED <<disk, apart>>
  /\ UNCHANGED table

\* A serve_sync that forgets to answer.
serve_syncSilent == srv' = Wait /\ UNCHANGED <<table, disk, apart>>

serve_sync == Send(Answer("ok")) /\ UNCHANGED <<table, disk, apart>>

\* The loop of serve: one request is served
serve ==
  /\ srv.at = "serve"
  /\ LET q == srv.req IN
     \/ q.type = "open"     /\ serve_open(q.path) /\ UNCHANGED disk
     \/ q.type = "map"      /\ serve_map(q.fileid, q.arg)
     \/ q.type = "set_size" /\ serve_set_size(q.fileid, q.arg)
     \/ q.type = "close"    /\ serve_close(q.fileid)
     \/ q.type = "dirty"    /\ serve_dirty(q.fileid)
     \/ q.type = "remove"   /\ serve_remove(q.path)
     \/ q.type = "sync"     /\ serve_sync
  /\ UNCHANGED <<spaces, call, calls>>

\* and answered by ipc_send, which waits for the client to be in ipc_recv and maps
\* the page where the client wants it.  Then the server takes the next.
reply ==
  LET c == srv.whom
      k == call[c]
      m == Head(srv.out)
  IN
  /\ srv.at = "reply" /\ k.at = "recv"
  /\ call' = [call EXCEPT ![c].at = "got", ![c].r = m.r]
  /\ fd'  = IF m.fd # NULL THEN [fd EXCEPT ![c][k.fd] = m.fd] ELSE fd
  /\ win' = IF m.page # NULL THEN [win EXCEPT ![c][k.fd][k.i] = m.page] ELSE win
  /\ srv' = IF Len(srv.out) > 1 THEN [srv EXCEPT !.out = Tail(@)] ELSE Wait
  /\ UNCHANGED <<table, disk, calls, apart>>

-----------------------------------------------------------------------------
(* fsipc, in the client.                                                   *)

\* The call k of c makes a request.
AskFor(c, k, req) == call' = [call EXCEPT ![c] = [k EXCEPT !.at = "send", !.r = "ok", !.req = req]]

Ask(c, k, type, fileid, arg) ==
  AskFor(c, k, [NoReq EXCEPT !.type = type, !.fileid = fileid, !.arg = arg])
AskPath(c, k, type, path) == AskFor(c, k, [NoReq EXCEPT !.type = type, !.path = path])

\* ipc_send, which retries until the server is in ipc_recv,
fsipc_send(c) ==
  /\ call[c].at = "send" /\ srv.at = "recv"
  /\ srv' = [Wait EXCEPT !.at = "serve", !.whom = c, !.req = call[c].req]
  /\ call' = [call EXCEPT ![c].at = "sent"]
  /\ UNCHANGED <<table, disk, spaces, calls, apart>>

\* and ipc_recv.
fsipc_recv(c) ==
  /\ call[c].at = "sent"
  /\ call' = [call EXCEPT ![c].at = "recv"]
  /\ UNCHANGED <<table, disk, srv, spaces, apart>>

-----------------------------------------------------------------------------
(* The calls.  A step goes from an answer to the next request or to the    *)
(* return.                                                                 *)

Got(c, op)  == call[c].at = "got" /\ call[c].op = op
Ready(c)    == call[c].op = "idle"
FdOf(c)     == fd[c][call[c].fd]
FileId(c)   == ff[FdOf(c)].f_fileid
Return(c)   == call' = [call EXCEPT ![c] = Idle]
Spoil(c)    == apart' = apart \cup {FdOf(c)}

\* fd_alloc finds the first of the descriptors that are not mapped, never the last one.
fd_alloc(c) == {d \in Fd : d < MAXFD - 1 /\ fd[c][d] = NULL}

\* open, which fails at once without a descriptor.
open(c, path) ==
  /\ Ready(c) /\ fd_alloc(c) # {}
  /\ AskPath(c, [Idle EXCEPT !.op = "open", !.fd = Least(fd_alloc(c))], "open", path)
  /\ UNCHANGED <<table, disk, srv, spaces, apart>>

\* A loop that goes one page too far, and one that stops one page early.
MorePast(i, size)  == i <= size
MoreShort(i, size) == i + 1 < size

\* The pages of the file are mapped one by one, as many as the size says.
More(i, size) == i < size

open_next(c) ==
  LET k == call[c] IN
  /\ Got(c, "open") \/ Got(c, "load")
  /\ IF k.r # "ok"
     THEN /\ Return(c)
          /\ IF k.op = "load" THEN Spoil(c) ELSE UNCHANGED apart
     ELSE LET size == IF k.op = "open" THEN ff[FdOf(c)].f_size ELSE k.size
              i    == IF k.op = "open" THEN 0 ELSE k.i + 1
          IN  /\ IF More(i, size)
                 THEN Ask(c, [k EXCEPT !.op = "load", !.i = i, !.size = size],
                          "map", FileId(c), i)
                 ELSE Return(c)
              /\ UNCHANGED apart
  /\ UNCHANGED <<table, disk, srv, spaces>>

\* file_close begins with its first page, or at once with the close of an empty file.
CloseRequest(k, s) ==
  [k EXCEPT !.op = IF ff[s].f_size > 0 THEN "dirty" ELSE "close", !.i = 0, !.size = ff[s].f_size]

AskClose(c, k, s) ==
  Ask(c, CloseRequest(k, s), CloseRequest(k, s).op, ff[s].f_fileid, 0)

\* What the caller of close does when it returns, with the descriptors F and windows W
\* of c: close itself returns; dup maps what is mapped in the old window and then the
\* old page, and undoes it all when that fails, as it does when close has just unmapped
\* the old page; close_all goes on to the next descriptor, and exit ends the client.
After(c, k, F, W) ==
  \/ /\ k.then = "return"
     /\ Return(c)
     /\ fd' = [fd EXCEPT ![c] = F] /\ win' = [win EXCEPT ![c] = W]
  \/ /\ k.then = "dup" /\ F[k.old] # NULL
     /\ Return(c)
     /\ fd' = [fd EXCEPT ![c] = [F EXCEPT ![k.fd] = F[k.old]]]
     /\ win' = [win EXCEPT ![c] = [W EXCEPT ![k.fd] =
                 [p \in Page |-> IF W[k.old][p] # NULL THEN W[k.old][p] ELSE W[k.fd][p]]]]
  \/ /\ k.then = "dup"
     /\ Return(c)
     /\ fd' = [fd EXCEPT ![c] = F] /\ win' = [win EXCEPT ![c] = [W EXCEPT ![k.fd] = Blank]]
  \/ /\ k.then = "exit"
     /\ LET next == {d \in Fd : d > k.fd /\ F[d] # NULL} IN
        IF next # {}
        THEN /\ AskClose(c, [k EXCEPT !.fd = Least(next)], F[Least(next)])
             /\ fd' = [fd EXCEPT ![c] = F] /\ win' = [win EXCEPT ![c] = W]
        ELSE /\ call' = [call EXCEPT ![c] = Dead]
             /\ fd' = [fd EXCEPT ![c] = Closed] /\ win' = [win EXCEPT ![c] = Empty]

\* close.
close(c, d) ==
  /\ Ready(c) /\ fd[c][d] # NULL
  /\ AskClose(c, [Idle EXCEPT !.fd = d], fd[c][d])
  /\ UNCHANGED <<table, disk, srv, spaces, apart>>

dup(c, old, new) ==
  LET k == [Idle EXCEPT !.op = "dup", !.fd = new, !.old = old, !.then = "dup"] IN
  /\ Ready(c) /\ fd[c][old] # NULL
  /\ IF fd[c][new] # NULL
     THEN AskClose(c, k, fd[c][new]) /\ UNCHANGED spaces
     ELSE After(c, k, fd[c], win[c])
  /\ UNCHANGED <<table, disk, srv, apart>>

\* exit: close_all, then the env is destroyed.
exit(c) ==
  /\ Ready(c)
  /\ After(c, [Idle EXCEPT !.op = "exit", !.fd = -1, !.then = "exit"], fd[c], win[c])
  /\ UNCHANGED <<table, disk, srv, apart>>

\* file_close reports every page as dirty, asks for the close, and unmaps as many pages
\* as the size said at the start, unless the close was refused; fd_close unmaps the
\* descriptor.
close_next(c) ==
  LET k == call[c]
      W == IF k.r # "ok" THEN win[c]
           ELSE [win[c] EXCEPT ![k.fd] = [p \in Page |-> IF p < k.size THEN NULL ELSE @[p]]]
  IN
  /\ \/ /\ Got(c, "dirty") /\ k.i + 1 < k.size
        /\ Ask(c, [k EXCEPT !.i = @ + 1], "dirty", FileId(c), k.i + 1)
        /\ UNCHANGED spaces
     \/ /\ Got(c, "dirty") /\ k.i + 1 >= k.size
        /\ Ask(c, [k EXCEPT !.op = "close"], "close", FileId(c), 0)
        /\ UNCHANGED spaces
     \/ /\ Got(c, "close")
        /\ After(c, k, [fd[c] EXCEPT ![k.fd] = NULL], W)
  /\ UNCHANGED <<table, disk, srv, apart>>

\* ftruncate, of a file that is no directory; file_write beyond the size is an ftruncate
\* before the stores.  The size in the descriptor is changed first.
ftruncate(c, d, size) ==
  LET s == fd[c][d] IN
  /\ Ready(c) /\ s # NULL /\ ff[s].f_file \in Regular
  /\ ff' = [ff EXCEPT ![s].f_size = size]
  /\ Ask(c, [Idle EXCEPT !.op = "resize", !.fd = d, !.size = size, !.old = ff[s].f_size],
         "set_size", ff[s].f_fileid, size)
  /\ apart' = IF pageref(s) > 2 THEN apart \cup {s} ELSE apart
  /\ UNCHANGED <<opentab, filled, disk, srv, spaces>>

\* Then new pages are mapped, one by one, or the pages past the end unmapped.  When a
\* page cannot be mapped the server gets the old size back; the descriptor does not.
ftruncate_next(c) ==
  LET k == call[c]
      i == IF k.op = "resize" THEN k.old ELSE k.i + 1
  IN
  /\ \/ /\ Got(c, "resize") \/ Got(c, "grow")
        /\ k.r = "ok" /\ i < k.size
        /\ Ask(c, [k EXCEPT !.op = "grow", !.i = i], "map", FileId(c), i)
        /\ UNCHANGED <<win, apart>>
     \/ /\ Got(c, "resize") \/ Got(c, "grow")
        /\ k.r = "ok" /\ i >= k.size
        /\ Return(c)
        /\ win' = [win EXCEPT ![c][k.fd] = [p \in Page |->
                     IF p >= k.size /\ p < k.old THEN NULL ELSE @[p]]]
        /\ UNCHANGED apart
     \/ /\ Got(c, "grow") /\ k.r # "ok"
        /\ Ask(c, [k EXCEPT !.op = "undo"], "set_size", FileId(c), k.old)
        /\ Spoil(c)
        /\ UNCHANGED win
     \/ /\ Got(c, "undo") \/ (Got(c, "resize") /\ k.r # "ok")
        /\ Return(c)
        /\ Spoil(c)
        /\ UNCHANGED win
  /\ UNCHANGED <<table, disk, srv, fd>>

\* A read or write inside the size copies from or to the window: where it has no page,
\* the page fault gives the client one of its own.  What files hold is not modelled, and
\* clients write to no directory: nothing refuses it, and the struct Files of the server
\* are what a directory holds.
file_read(c, d, p) ==
  /\ Ready(c) /\ fd[c][d] # NULL
  /\ p < ff[fd[c][d]].f_size /\ win[c][d][p] = NULL
  /\ win' = [win EXCEPT ![c][d][p] = Anon]
  /\ UNCHANGED <<table, disk, srv, fd, call, apart>>

remove(c, path) ==
  /\ Ready(c)
  /\ AskPath(c, [Idle EXCEPT !.op = "remove"], "remove", path)
  /\ UNCHANGED <<table, disk, srv, spaces, apart>>

sync(c) ==
  /\ Ready(c)
  /\ Ask(c, [Idle EXCEPT !.op = "sync"], "sync", 0, 0)
  /\ UNCHANGED <<table, disk, srv, spaces, apart>>

return(c) ==
  /\ Got(c, "remove") \/ Got(c, "sync")
  /\ Return(c)
  /\ UNCHANGED <<table, disk, srv, spaces, apart>>

-----------------------------------------------------------------------------
(* Envs.                                                                   *)

\* fork: the child has the descriptors and the windows of its parent (PTE_LIBRARY).
fork(c, child) ==
  /\ Ready(c) /\ call[child].op = "dead"
  /\ call' = [call EXCEPT ![child] = Idle]
  /\ fd' = [fd EXCEPT ![child] = fd[c]] /\ win' = [win EXCEPT ![child] = win[c]]
  /\ UNCHANGED <<table, disk, srv, apart>>

\* An env is destroyed before it could close anything (spawn, when it fails).
destroy(c) ==
  /\ Ready(c)
  /\ call' = [call EXCEPT ![c] = Dead]
  /\ fd' = [fd EXCEPT ![c] = Closed] /\ win' = [win EXCEPT ![c] = Empty]
  /\ UNCHANGED <<table, disk, srv, apart>>

-----------------------------------------------------------------------------
\* What a client does of its own accord,
Calls(c) ==
  /\ calls < MaxCalls /\ calls' = calls + 1
  /\ \/ \E path \in Path : open(c, path) \/ remove(c, path)
     \/ \E d \in Fd :
          \/ close(c, d)
          \/ \E new \in Fd : dup(c, d, new)
          \/ \E size \in 0..NPAGE : ftruncate(c, d, size)
          \/ \E p \in Page : file_read(c, d, p)
     \/ sync(c) \/ exit(c) \/ destroy(c)
     \/ \E child \in Client : fork(c, child)

\* and what follows an answer.
Continue(c) ==
  /\ fsipc_recv(c) \/ open_next(c) \/ close_next(c) \/ ftruncate_next(c) \/ return(c)
  /\ UNCHANGED calls

Next ==
  \/ serve \/ reply
  \/ \E c \in Client : Calls(c) \/ fsipc_send(c) \/ Continue(c)

\* The scheduler runs every env that is runnable again and again.  An env that retries
\* its send may still find the server busy each time: no strong fairness.
FileServerSpec ==
  /\ Init /\ [][Next]_fvars
  /\ WF_fvars(serve) /\ WF_fvars(reply)
  /\ \A c \in Client : WF_fvars(fsipc_send(c)) /\ WF_fvars(Continue(c))

-----------------------------------------------------------------------------
(* Properties.                                                             *)

Request == [type : {"none", "open", "map", "set_size", "close", "dirty", "remove", "sync"},
            fileid : 0..(IDMOD - 1), arg : 0..NPAGE, path : Path \cup {<<>>}]
FilePage == Node \X Page
Message  == [r : {"ok", "err", "inval"}, fd : Slot \cup {NULL}, page : FilePage \cup {NULL}]
CallState ==
  [op : {"idle", "dead", "open", "load", "dirty", "close", "resize", "grow", "undo", "remove",
         "sync"},
   at : {"user", "send", "sent", "recv", "got"}, req : Request, r : {"ok", "err", "inval"},
   fd : Fd, i : 0..NPAGE, size : 0..NPAGE, old : 0..NPAGE \cup Fd,
   then : {"return", "dup", "exit"}]

ServerTypeOK ==
  /\ opentab \in [Slot -> [o_fileid : 0..(IDMOD - 1), o_file : Node \cup {NULL}]]
  /\ filled \subseteq Slot
  /\ ff \in [Slot -> [f_fileid : 0..(IDMOD - 1), f_size : 0..NPAGE, f_file : Node \cup {NULL}]]
  /\ f_size \in [Node -> 0..NPAGE] /\ gone \subseteq Node
  /\ srv \in [at : {"recv", "serve", "reply", "lost"}, whom : Client \cup {NULL},
              req : Request, out : Seq(Message)]
  /\ fd \in [Client -> [Fd -> Slot \cup {NULL}]]
  /\ win \in [Client -> [Fd -> [Page -> FilePage \cup {Anon, NULL}]]]
  /\ call \in [Client -> CallState]
  /\ calls \in 0..MaxCalls /\ apart \subseteq Slot

\* The entry s is filled out: the server and the page agree on its file and fileid.
Filled(s) ==
  /\ s \in filled
  /\ opentab[s].o_fileid = ff[s].f_fileid
  /\ opentab[s].o_file = ff[s].f_file /\ ff[s].f_file # NULL

\* Whatever the clients open, close, dup, share by fork and drop, page and table agree:
\* the page of each descriptor of a client and the server's entry have the same file and
\* fileid, and no request of a client is refused with -E_INVAL.  An open that took an
\* entry somebody has would break this, as it clears the page and may then fail.
RightFile ==
  /\ \A c \in Client, d \in Fd : fd[c][d] # NULL => Filled(fd[c][d])
  /\ \A c \in Client : call[c].r # "inval"

\* A client takes the next message for its answer and the server waits for that client
\* to listen.  They never get out of step: the client that waits is the one that is
\* served, for the request that it made, and there is one.
InStep ==
  /\ srv.at # "recv" => /\ call[srv.whom].at \in {"sent", "recv"}
                         /\ call[srv.whom].req = srv.req
  /\ \A c \in Client : call[c].at \in {"sent", "recv"} => srv.at # "recv" /\ srv.whom = c

\* The call k is about the descriptor d.
On(k, d) == k.op \notin {"idle", "remove", "sync"} /\ k.fd = d

\* With the descriptors F and windows W, d shows all of its file, and the size that the
\* server has, unless its entry is in A.
Whole(F, W, d, A) ==
  LET s == F[d] IN
  s # NULL /\ s \notin A =>
    /\ ff[s].f_size = f_size[ff[s].f_file]
    /\ \A p \in Page : p < ff[s].f_size => W[d][p] = <<ff[s].f_file, p>>

EachWhole ==
  \A c \in Client, d \in Fd : ~On(call[c], d) => Whole(fd[c], win[c], d, apart)

\* A client that is in no call on descriptor d sees all of the file, and nothing else, in
\* its window, and the size that the server has: unless the file was resized by others
\* or removed, the descriptor was shared when it was resized, or a call failed half way.
\* Nothing is said once a directory was removed with a file open below it: the server
\* then has its struct File in a freed block.
WindowWhole == srv.at # "lost" => EachWhole

InCall(c) == call[c].at # "user"

\* A call comes to its end: the server answers every request that it takes, and is
\* ready again for the others, as long as it is not lost.  With MaxCalls no client keeps
\* the server busy for ever; one that did could starve the retries of another.
Answered == \A c \in Client : InCall(c) ~> ~InCall(c) \/ srv.at = "lost"
-----------------------------------------------------------------------------
(* The inductive invariant of the proofs.                                  *)

\* The calls that work on an open descriptor.
FileOp == {"load", "dirty", "close", "resize", "grow", "undo"}

\* The request of the call k, with the descriptors F, is the one its op says, about the
\* file of its descriptor.
CallRight(k, F) ==
  LET s == F[k.fd] IN
  /\ k.at = "user" <=> k.op \in {"idle", "dead"}
  /\ k.op \in FileOp => s # NULL
  /\ k.op = "open" => (s # NULL <=> k.at = "got" /\ k.r = "ok")
  /\ k.at \in {"send", "sent", "recv"} =>
       /\ k.op \in FileOp => k.req.fileid = ff[s].f_fileid
       /\ k.op \in {"load", "grow"} => k.req.type = "map" /\ k.req.arg = k.i
       /\ k.op \in {"resize", "undo"} => k.req.type = "set_size"
       /\ k.op = "resize" => k.req.arg = k.size
       /\ k.op \in {"dirty", "close", "open", "remove", "sync"} => k.req.type = k.op
  /\ k.op \in {"load", "grow"} => k.i < k.size
  /\ k.op \in {"resize", "grow", "undo"} => k.old \in 0..NPAGE
  /\ k.then = "dup" => k.old \in Fd

\* Fileids lead back to their entries.
IdsRight == \A s \in Slot : opentab[s].o_fileid % MAXOPEN = s

\* The one answer that is on its way is for the request that was made; an entry that it
\* brings is filled out and nobody has it yet.
AnswerRight ==
  /\ srv.at # "recv" => srv.whom # NULL
  /\ srv.at = "reply" =>
       LET m == srv.out[1]
           f == ff[FdOf(srv.whom)].f_file
       IN
       /\ Len(srv.out) = 1 /\ m.r # "inval"
       /\ m.fd # NULL => /\ srv.req.type = "open" /\ m.r = "ok" /\ Filled(m.fd)
                         /\ \A c \in Client, d \in Fd : fd[c][d] # m.fd
                         /\ m.fd \notin apart => ff[m.fd].f_size = f_size[ff[m.fd].f_file]
       /\ srv.req.type = "open" /\ m.r = "ok" => m.fd # NULL
       /\ m.page # NULL => srv.req.type = "map" /\ m.page = <<f, srv.req.arg>>
       /\ srv.req.type = "map" /\ m.r = "ok" => m.page # NULL

\* How far the window of the call k has come, unless its entry is in A; the request was
\* carried out if done.
WindowGrows(k, F, W, A, done) ==
  LET s == F[k.fd]
      f == ff[s].f_file
  IN
  s # NULL /\ s \notin A =>
    /\ k.op = "open" => ff[s].f_size = f_size[f]
    /\ k.op \in {"load", "grow"} =>
         /\ ff[s].f_size = k.size /\ f_size[f] = k.size
         /\ \A p \in Page : p < k.i \/ (p = k.i /\ k.at = "got" /\ k.r = "ok")
                              => W[k.fd][p] = <<f, p>>
    /\ k.op = "resize" =>
         /\ ff[s].f_size = k.size
         /\ done => f_size[f] = k.size
         /\ \A p \in Page : p < k.old => W[k.fd][p] = <<f, p>>
    /\ k.op # "undo"

Done(c) == call[c].at = "got" \/ (srv.at = "reply" /\ srv.whom = c)

ServerInv ==
  /\ ServerTypeOK /\ RightFile /\ InStep /\ IdsRight /\ AnswerRight
  /\ \A c \in Client : CallRight(call[c], fd[c])

WindowInv ==
  /\ EachWhole
  /\ \A c \in Client : WindowGrows(call[c], fd[c], win[c], apart, Done(c))
================================================================================
