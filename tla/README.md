# MOS_RV in TLA+

MOS_RV is a teaching operating system: a kernel for one RISC-V hart (rv32, Sv32 paging), a
user library and a file server that runs as a user process. This directory holds TLA+
models of its parts, the TLC configurations that check them on small instances, and proofs
that TLAPS checks for every instance. `PROJECT.json` maps every definition to the lines it
models and lists the runs, the mutants, the findings and the hazards.

To check a run: `tlc -workers 2 -config MCPipe.cfg MCPipe`; to check proofs:
`tlapm Pipe_proofs.tla`.

## 1. The system: inventory

Paths are relative to the root of the repository.

| Part | State | Operations | Interacts through |
|---|---|---|---|
| Queue macros (`include/queue.h`) | links inside the elements | `TAILQ_INSERT_HEAD/TAIL`, `TAILQ_REMOVE`, `LIST_*` | used by `env.c`, `pmap.c`, `sched.c` |
| Env table (`kern/env.c`) | `envs[]`, `env_free_list`, `env_sched_list`, ASID bitmap, `curenv` | `env_init`, `env_alloc`, `env_create`, `env_free`, `env_destroy`, `envid2env`, `env_run` | called by syscalls and by boot |
| Scheduler (`kern/sched.c`) | static `count` and the head of `env_sched_list` | `schedule(yield)` | timer, `sys_yield`, blocking syscalls, `env_destroy` |
| Env and IPC syscalls (`kern/syscall_all.c`) | fields of `struct Env` | `exofork`, `set_env_status`, `env_destroy`, `ipc_recv`, `ipc_try_send`, `yield` | called by the user library |
| Physical memory (`kern/pmap.c`) | `pages[].pp_ref`, `page_free_list`, page tables, TLB | `page_alloc`, `page_insert`, `page_lookup`, `page_remove`, `page_decref`, `passive_alloc` | memory syscalls, faults, `env_free` |
| Memory syscalls (`kern/syscall_all.c`) | – | `mem_alloc`, `mem_map`, `mem_unmap`, the page of an IPC | page tables of two envs at once |
| Traps (`kern/traps.c`) | – | timer, page fault, copy-on-write fault, `query_vpt` | enter the kernel or a user handler |
| Copy-on-write fork (`user/lib/fork.c`) | page permissions, `env_user_tlb_mod_entry` | `fork`, `duppage`, `cow_entry` | memory syscalls; runs while the env's own stack faults |
| User IPC, wait, exit (`user/lib/ipc.c`, `wait.c`, `libos.c`) | – | `ipc_send` (retry loop), `ipc_recv`, `wait`, `exit` | IPC syscalls |
| spawn (`user/lib/spawn.c`) | – | builds a child page by page, two error paths | exofork, memory syscalls, file reads |
| ELF loader (`lib/elfloader.c`) | – | `elf_load_seg` | callbacks of `load_icode` and `spawn` |
| Shell (`user/sh.c`) | – | `parsecmd`, `runcmd`, the loop of `main` | fork, pipe, dup, spawn, wait |
| Pipes (`user/lib/pipe.c`) | a shared page: positions and buffer | `pipe_read`, `pipe_write`, `_pipe_is_closed`, `pipe_close` | reference counts of three pages, `env_runs` |
| Descriptors (`user/lib/fd.c`) | pages mapped at fixed addresses | `fd_alloc`, `close`, `dup`, `read`, `write`, `seek` | the `Dev` of pipes, files, console |
| File system (`fs/fs.c`) | block cache, bitmap, `struct File`s | `file_get_block`, `file_truncate`, `file_flush`, `file_remove`, `fs_sync` | the disk, pages lent to clients |
| File server (`fs/serv.c`) | `opentab`, whose free entries are told by page references | one handler for each request | IPC with pages |
| File client (`user/lib/fsipc.c`, `file.c`) | `Filefd` pages | `open`, `ftruncate`, `file_close`, `remove`, `sync` | IPC with the server |
| Disk driver (`fs/ide.c`) | one virtio queue | `ide_read`, `ide_write` | device registers |
| `tools/fsformat.c` | the disk image in the making | `write_file`, `write_directory`, `flush_bitmap` | its output is the disk `fs.c` starts from |
| Console, printing, boot | – | – | – |

What is hard here. The kernel itself is sequential: it runs with interrupts off, so a
syscall is atomic. All concurrency is between user programs that are preempted at any
instruction and whose library calls are *sequences* of syscalls and plain memory accesses:
pipes without locks, fork while the stack is in use, IPC by retry, a file server whose
cache pages its clients write to. Beyond that: allocation that fails half way, slots, ASIDs,
pages and blocks that are reused while something still refers to the old owner, pointer
lists that are changed without a check that the element is in them, and a disk whose blocks
are written one by one.

What makes each part correct:

- env table: an env is on the free list or alive, never both; ASIDs are not shared; `env_sched_list` holds exactly the runnable envs (`kern/env.c:18`).
- scheduler: no env is overtaken or starved; the kernel stops only when nothing can run.
- IPC: no message is lost or overwritten, no half-built child is started, a sender that retries gets through.
- memory: no page is free while something points to it, page tables are private, the TLB is coherent, an env that dies gives everything back.
- fork: private pages are isolated, library pages stay shared, no fault finds an env without handler.
- pipes: bytes come out in order, "closed" means closed, waiting ends, 0 means end of file.
- file system: a block has one owner, in the cache and wherever the machine stops; a closed file is on the disk.
- file server and clients: the page of a descriptor and the server's entry agree on the file, answers belong to requests, a window shows the whole file, every call returns.
- shell: a line comes to an end whatever fails in it, and the prompt waits for all of it.
- loaders and formatter: memory and disk hold what headers, arguments and files ask for.

## 2. Modules

| Module | Models | State and actions |
|---|---|---|
| `TailQueue` | the TAILQ macros | a queue is a record of pointers (`first`, `last`, `next`, `prev`); each macro is an operator that does the pointer stores of the macro, on elements that are or are not in the queue. `Holds(q, S)` says that the links spell a list of exactly the elements of `S`. |
| `EnvKernel` | `env.c`, `sched.c`, timer, env and IPC syscalls | the fields of `struct Env` as functions, the lists as the code keeps them; one action per syscall, one for the timer, one for `env_create`. Any env may make any syscall. `Elem` is `0..NENV`: the loop of `env_init` links one struct past the end of the array into the free list, and the model keeps it. A store through a null link or a failed assertion sets `halted`. |
| `LibEnv` | the user library on top of `EnvKernel` | `pc` and `arg` of every env: `fork`/`spawn`, `ipc_send` with its yield-and-retry loop, `ipc_recv`, `wait`, `exit` as sequences of the kernel's actions |
| `RoundRobinAbs` | what the scheduler promises | a sequence of ready envs without pointers, slices or statuses |
| `PageMap` | `pmap.c`, memory syscalls, page faults, `env_free`'s unmapping | reference counts, free pages, directories, tables, TLB; every syscall with each of its failures |
| `Pipe` | `pipe.c`, `pageref.c`, and the parts of `fd.c` that pipes use | the shared page, which slots map which page, and a program counter for each env between the loads, stores and syscalls that a timer interrupt can separate |
| `ForkCow` | `fork.c` and the faults it relies on | page contents, mappings with their W, COW and LIBRARY bits, the position of each env in `fork` and, independently, in `cow_entry` |
| `FileSys` | `fs.c` driven by the requests of `serv.c` | an image (bitmap, files, blocks) for the cache and one for the disk, and the block writes that the current request still has to do |
| `FsFormat` | `tools/fsformat.c` | operators that thread the disk image through the program: next block, `struct File`s, tables, used directory entries. `FileSys` starts from the disk that `main` yields for two files and a directory. |
| `FileServer` | `serv.c` with `opentab`, `fsipc.c`, `file.c`, the parts of `fd.c` that files use, path lookup of `fs.c` | the table, the descriptor pages, the sizes; for each client its descriptors, its windows and the call that it is in. A library call is a sequence of requests: send, serve, answer, next step of the call. |
| `Shell` | `sh.c` with `pipe`, `dup`, `fork`, `spawn` and `exit` as it uses them | for each env its position and the pages that it still has to map, unmap or hand to a child, one step each; pipes as a count of bytes; programs that write, read to the end, or quit |
| `ElfLoad` | `elfloader.c`, `load_icode`, the image and the stack page of `spawn` | operators from program headers and arguments to memory |
| `EnvKernel_proofs`, `LibEnv_proofs`, `PageMap_proofs`, `Pipe_proofs`, `ForkCow_proofs`, `FileSys_proofs`, `FileServer_proofs`, `Shell_proofs` | – | theorems and their lemmas, see section 5. The inductive invariants are in the last section of the module that they are about, so that TLC can check them too. |
| `MC*` | – | instances for TLC |

Choices that a reader should know:

- *Atomicity.* In `EnvKernel` and `PageMap` a step is a whole syscall, because interrupts are
  off. In `Pipe` and `ForkCow` a step is one syscall, one fault or one memory access, because
  user code is preemptible. In `FileSys` a request changes the cache in one step (the server
  is one process and serves one request at a time) and then writes blocks one step each.
- *Compiler freedom.* `p->p_buf[p->p_rpos++ % BY2PIPE]` leaves the order of the increment and
  the access open. `Pipe` chooses an order for each of the two functions in its initial state
  (`build`).
- *Wrap-around.* `pp_ref` counts modulo `REFMOD`, pipe positions modulo `POSMOD`.
- *Ignored results.* `fork`, `duppage` and `cow_entry` do not look at what their syscalls
  return. In `ForkCow` these calls may fail, and the code goes on.
- *TLB.* `PageMap` has a TLB that may hold any valid translation of an address
  (`Translate`, external), so that a missing invalidation shows. Entries of the page directory,
  which a hart may cache too and which an `sfence.vma` with an address need not order, are left
  out.
- *Permissions.* `page_insert` ORs the `perm` that it is given into the entry, unmasked
  (`kern/pmap.c:249,264`), the page number of an entry starts at bit 10, and the memory and IPC
  syscalls pass on what their caller gave. The library and the programs give `PTE_` bits only.
  `Perm` has these, and all that `PageMap` shows, `TablesPrivate` first of all, is for callers
  that give no others (hazard at `kern/pmap.c:264`).
- *Faults.* `passive_alloc` panics below `UTEMP` and in the page at `USTACKTOP` (`PanicVA`), of
  which the second is an address that syscalls may map.
- *Tables.* A file's indirect block is made of a block that is not cleared if it is still in
  the cache, and is written to the disk by `fs_sync` only. `FsSpec` therefore makes tables
  only of blocks that were not in the cache (`TableClean`), leaves out the stores of clients,
  which then have no bearing on its properties, and restarts only when no directory on the
  disk leads to a table (`NoTables`). `RawSpec` has neither restriction, and the run
  `fs_table` shows what happens.
- *Memory of the file system.* `alloc_block` may find no memory for the page of its block: the
  block is free again in the cache, and the bitmap on the disk has it taken
  (`serve_map_no_mem`). `read_block` does not look at the result of its allocation; there it is
  taken to succeed.
- *Start of the file system.* The machine may stop between any two block writes of requests, and
  not within `fs_init`. There `check_write_block` overwrites the superblock on the disk and
  restores it (`fs/fs.c:318,331`); a stop in between leaves a disk that `read_super` refuses
  (hazard at `fs/fs.c:318`).
- *Stacks.* `duppage` reads the permission of a page and then calls `syscall_mem_map`, twice.
  `ForkCow` assumes that these calls do not run the stack over into the very page that is being
  mapped, if it is copy-on-write (`Shallow`): the frame of `duppage` is in the stack page that
  was touched last, and the stacks of the programs stay within that page during `fork`.
  Without the assumption the permission is stale and `Isolation` fails.
- *File clients.* Sizes are in pages. Clients resize no directory and write to none: the window of
  an opened directory is the page with the server's `struct File`s, and nothing refuses a
  `file_write` to it (`user/lib/file.c:180`); the programs only read directories. They send no
  request without its page and keep their messages to the server; `fd_offset` and the open mode are left out. A
  `fork` is one step: the windows and descriptors are library pages and no one else changes the
  address space of the parent. What depends on the disk or on free memory may fail at any time,
  except the mapping of an answer's page into the client, whose failure would panic the server.
- *Removed directories.* `file_remove` works on directories and frees their blocks, in which the
  `struct File`s of what is below lie. For whoever has something below open, the server goes on
  with a `struct File` in a free block, which `alloc_block` may give to a client as data. From
  there on the server may do anything: `serve_remove` leaves it `"lost"`, where it takes no step,
  `WindowWhole` says nothing of such a state, and `Answered` lets calls end there. Without anything
  open below, the removal is modelled in full. The programs of the repository remove files only.
- *Descriptors out of step.* `WindowWhole` exempts the entries in the history variable `apart`:
  resized while shared, resized or removed through another entry, or left by a call that failed
  half way (`ftruncate` gives the old size back to the server and not to the descriptor; `open`
  keeps a descriptor whose pages are not all there). For these the windows do differ from the
  file, and the code has no means to bring them together again.
- *Shell.* Only the ends of pipes are kept of a descriptor. `fork` fails at `syscall_exofork` or not
  at all, and `dup` does not fail: that memory runs out in a single mapping of `duppage` or of the
  `dup` in `user/sh.c:141,146`, which nobody looks at, is left out (`ForkCow` has the former, `Pipe`
  the latter). The env of a command without words
  returns from `runcmd` before it waits for the env to its right (`empty` records it), so that the
  prompt can come while the rest of the line still runs. The next line then shares nothing with
  it but the console, and `main_fork` leaves it out until the rest has gone. Words and files
  are choices of the model.

## 3. Runs

Passing runs:

| Run | Instance | Properties |
|---|---|---|
| `kernel` | 2 envs and the phantom slot, 2 ASIDs, 5 allocations, any syscalls | `TypeOK`, `AsidsDistinct`, `FreeListExact`, `PhantomStaysFree` |
| `lib` | 3 slots, 2 boot envs, one more by fork | `SchedListIffRunnable`, `OnlyEmptyHalts`, `BlockedOrBuilt`, `MessageKept`, `RefinesRoundRobin` |
| `live` | 3 boot envs, one with a slice of two ticks, fair | `RoundRobin`, `SendReaches` |
| `pages` | 3 envs, 2 ASIDs, 5 pages, 4 addresses in 3 page tables, symmetric | `TypeOK`, `NoUseAfterFree`, `RefsCounted`, `TablesPrivate`, `TlbCoherent`, `NoAssertFails`, `FreesUser` |
| `pipe` | 2 envs with 2 slots each, buffer of 2, 4 bytes, positions that wrap at 4, all build orders | `PipeTypeOK`, `ClosedIsClosed`, `Fifo` |
| `cow` | 3 envs, 4 pages, a private and a library page, 3 forks, symmetric | `CowTypeOK`, `LibraryShared`, `HandlerThere`, `Isolation` |
| `fs` | the disk of `FsFormat`: 8 blocks, all taken at the start by 2 files in 2 directories, 1 direct pointer, 1 restart | `FsTypeOK`, `NoCrossLink`, `DiskSafe`, `CloseDurable` |
| `server` | 2 clients with 2 descriptors, 2 table entries, a file of 2 pages in a directory, 4 calls, fair | `ServerTypeOK`, `RightFile`, `InStep`, `WindowWhole`, `Answered` |
| `shell` | lines of 3 commands, pipes of one byte, programs that write two, fair | `VerdictRight`, `WaitsForAll`, `PipelineEnds` |

Two runs also evaluate computations against reference definitions before they start, as
assumptions of their modules. `MCFileSys`: for 105 small trees the disk of `fsformat` uses as
many blocks as the sizes ask for, each once and without a gap, and its bitmap has the others
(`FormatSound`). `MCLibEnv`: programs laid out as `user.lds` does are loaded whole
(`ProgramLoaded`); a segment that starts inside a page is loaded only if its bytes fill that
page or nothing is to be cleared, because otherwise the first page of zeros replaces it
(`ShortSegmentLost`); the stack page of `spawn` has argc, argv, pointers and strings where
`main` looks for them, and the word after the last pointer, which the comment at
`user/lib/spawn.c:57` calls 0, points to a zero byte (`StackLaidOut`).

Runs that find a disagreement between the code and what the repository says of it:

| Run | What the code does | What it is held against |
|---|---|---|
| `spawn` | `env_free` removes the never-runnable child of a failed `spawn` from `env_sched_list` | the invariant at `kern/env.c:18` |
| `pipe_drain` | `pipe_read` returns 0 with bytes in the buffer when the writer writes and closes between its two tests | `user/lib/pipe.c:124` |
| `fs_table` | an indirect block made of a used block carries old words that are read as block numbers | the assertion at `fs/fs.c:98` |

Why the bounds are enough to be interesting. `kernel`: 2 ASIDs for 3 slots, so allocation
fails for lack of an ASID, slots are reused and the phantom slot is the only one left.
`lib`: every pair of library calls interleaves, a slot can be reused after an exit, and
every env can be blocked. `pages`: 5 pages are fewer than two envs with a table each need, so
every allocation fails somewhere; a page is shared by both live envs (there are two ASIDs) and
mapped several times in one. `pipe`: the buffer and the
positions wrap, the buffer fills, both ends are held twice, a `dup` replaces an open slot. `cow`: a grandchild
inherits pages that are already copy-on-write, pages run out in each syscall of `fork` and
`cow_entry`. `fs`: the disk is full from the start, blocks wander from one file to the
other, a table is needed for the second block of a file, `ftruncate` grows to two blocks and
shrinks to one, `remove` shrinks to none, and the machine may stop between
any two block writes of requests and go on from that disk. `server`: the table is as small as the
descriptors that can refer to it, so entries are reused as soon as they may be; fileids
become negative and wrap after a few opens; the directory is removed with the file below it open
and not open; descriptors are shared by `dup` and `fork` and
dropped by `exit` and `env_destroy`. Files of one page with one call more (5) were checked as
well and pass. `shell`: a pipe between two pipes, every fork and spawn may fail, a
redirection may drop either end, a writer fills its pipe and has to be released.

Bounds by name: `MaxIds` (allocations), `MaxBytes` (bytes through a pipe), `MaxForks`,
`MaxBoots` (restarts), `Sizes` (file sizes asked for), `MaxCalls` (library calls of file
clients), `N` (commands in a line), `BUF` and `Output` (bytes in a pipe and of a program).

`CHECK_DEADLOCK FALSE` is set because these systems may stop: the kernel panics when nothing
is runnable, all envs may exit, and the bounds above end a run. `shell` checks for deadlock:
the shell never stops.

Mutants. Every property of every passing run has a mutant: an operator that stands before
the definition it replaces and makes a plausible mistake (`page_decrefEager`,
`ClosedNoRuns`, `AllocWritesNone`, ...). TLC finds the property violated with it.

## 4. Fairness

`FairLibSpec` assumes weak fairness of the timer (`clock_set_next_event` re-arms it in every
interrupt) and of boot, and strong fairness of the step that an env is about to take inside a
library call: an env that is dispatched again and again executes instructions. Nothing is
assumed of programs outside library calls; they may compute for ever.

`FileServerSpec` and `ShellSpec` assume weak fairness of the server and of the steps of each env
that is in a call, waits or has pages to map: every env that is runnable is given the CPU again
and again (`RoundRobin`). Strong fairness is not assumed: an `ipc_send` that retries may find the
server busy each time, and a client that never stops asking could starve another; `MaxCalls`
rules that out, so that `Answered` says that no request is lost and no one waits for an answer
that does not come, unless the server is lost (section 2, *Removed directories*). In `ShellSpec` programs may read and write to the end or quit at any time,
but none computes for ever; no line need be typed.

## 5. Proofs

All theorems hold for every number of envs, pages, ASIDs, descriptors, clients, files, blocks,
commands, bytes and boot envs that the named assumptions allow. Each invariant was first checked by TLC on the
instance of its run.

**`EnvKernel_proofs`**, first part: the TAILQ macros. Each of them, which is a handful of pointer
stores, implements its operation on sequences: `InsertTailAppends`, `InsertHeadPrepends`,
`RemoveDrops`; and `Holds` is preserved with the obvious set (`HoldsInsertTail`,
`HoldsInsertHead`, `HoldsRemove`, the last for an element that *is* in the queue only).

**`EnvKernel_proofs`**, second part: `KernelTypeOK`, `AsidsStayDistinct`, `FreeListStaysExact`,
`PhantomNeverAllocated`, whatever syscalls the envs make. The inductive invariant `KernelInv`
adds to them: the phantom slot is the *last* of the free list (`PhantomLast`), a live env's
ASID is in the bitmap (`IdsOwned`), and while rv32_init creates envs as many ASIDs are taken
as envs exist (`BootAsids`, `env_create` ignores a failing `env_alloc`). Argument for the
phantom slot: when it is first in the list, all `NENV` others are alive and hold distinct
ASIDs; the assumption `NASID <= NENV` leaves none, so `asid_alloc` fails before the slot is
taken (`PhantomHeadMeansFull`). `TypeOK` needs `LinksWritten` because `schedule` and
`env_free` follow links of envs that may not be in the list.

**`LibEnv_proofs`.** `LibKeepsSchedList` (the invariant of `kern/env.c:18`, at the level of
the pointers), `LibOnlyEmptyHalts`, `LibBlockedOrBuilt`, `LibMessageKept`, for programs that
stay within the library. With arbitrary syscalls they are false: an env may destroy a
`NOT_RUNNABLE` child. `LibInv` adds that the env on the CPU is runnable (`CurRunnable`) and
that each call in progress knows an envid that was really allocated (`ArgsNamed`). Every
library step is a kernel step (`LibStepIsKernelStep`), so `KernelInv` is inherited.

**`PageMap_proofs`.** `Types` and `Frees` (`FreesUser`) hold without condition. `Counts`
(`RefsCounted`), `NeverFreedInUse` (`NoUseAfterFree`), `TablesOwn` (`TablesPrivate`),
`TlbNeverStale` (`TlbCoherent`) and `AssertsHold` (`NoAssertFails`) hold, for permission bits as perms, as long as no count is about to wrap: `Spec /\ []NoWrap => ...`. `pp_ref` is a `u_short` and `page_insert` does not
look at it; an env has more than 65536 addresses at which it can map one page, so the code by
itself gives no bound, and the hypothesis says what the theorems depend on. The invariant
`PageInv` is mutual: a count is at least the number of pointers (`RefsCounted`), a free page
has the count 0 (`FreeUncounted`), the pages of tables and directories are all different and
mapped nowhere (`TablesApart`), a mapping lies under a table (`UnderTable`), live envs have
distinct ASIDs and the TLB agrees with the tables. The counts are inequalities, not
equations, because a `page_alloc` whose `page_insert` then fails leaves its page behind. A step
is described by the one mapping that it takes away and the pages to which it adds a pointer
(`MapStep`), and the cardinalities of the pointer sets follow from adding and removing single
elements.

**`Pipe_proofs`.** `PipeKeepsType`, `PipeVerdictRight` (`ClosedIsClosed`) and `PipeFifo`
(`Fifo`). The invariant of the verdict: an Fd page is never mapped without the Pipe page of its
slot (`Backed`), the locals of each call in progress are consistent with the slots
(`CallsHold`), and counts that no dispatch separates from now are the counts of now (`Fresh`).
If the two counts are equal, the pairs (env, slot) that map the own Fd page are a subset of
those that map the Pipe page with the same cardinality, hence all of them, and none is left for
the other end. `Fifo` needs `FifoInv`: the positions are the numbers of bytes modulo `POSMOD`,
the bytes between them are in the buffer, and a byte or room that a reader or writer has seen
is still there when it acts (`Queue`). The proof asked for an assumption: `POSMOD` is a multiple of
`BY2PIPE` and greater (2^32 and 32 in the code); with `POSMOD = BY2PIPE` a full pipe would look
empty to the writer. It also brought the bound `Len(got) <= written` into `Fifo`: without it
the property did not exclude a byte that is read before it is written.

**`ForkCow_proofs`.** `CowTypes`, `HandlerRegistered` (`HandlerThere`), `LibraryPages`
(`LibraryShared`) and `Isolates` (`Isolation`, an action property). The heart of `CowInv` is
`Exclusive`: a page that is mapped writable and private is mapped nowhere else, except at
`UCOW` at the end of `cow_entry` and in the child between the two syscalls of `duppage`. It is
kept because of what each env has established where it is in `fork` (`InFork`: the pages from
`vpn` on are not in the child yet, the permission that was read is the one that is there) and,
independently, in `cow_entry` (`InCow`: the copy shows what the page shows). That the two do not
disturb each other is the assumption `Shallow` of section 2, a guard of the specification, and
the only place where it is used is the permission that `duppage` has read.

**`FileSys_proofs`.** `FsTypes`, `NeverCrossLinked` (`NoCrossLink`), `DiskAlwaysSafe` (`DiskSafe`)
and `CloseIsDurable` (`CloseDurable`), of `FsSpec` with its two guards (section 2, *Tables*). The
pointers of an image are a function from places to blocks (`Held`); `Sound` says that it is
injective and avoids free blocks. A request either grows the cache (`Grows`: each block that a
new pointer leads to was free) or shrinks it (`Shrinks`: each freed block has lost its only
pointer), and soundness follows from either. The disk lags behind, and `FsInv` says by how much.
A bitmap write comes before all other writes of its request, the last of them has nothing free that
is not free in the cache, and none of them frees a block that a directory on the disk leads to
(`BitmapsRight`): so the bitmap reaches the disk before any
pointer to a new block. A pointer on the disk is that of the cache, unless the directory's write is
the last of the request (`LateWritten`): the server takes no request in between, so a freed block is
allocated again only when no directory on the disk leads to it. `CloseLate` says the same of the
whole `struct File` that is being closed. A restart needs `NoTables`, because the words of a table
that the disk holds are not part of this argument. The proof made `write_block` of a block that is
not in the cache do nothing (`block_is_dirty`), and put the writes of `fs_sync` in the order of the
loop.

**`FileServer_proofs`.** `ServerTypes`, `RightFileAlways` (`RightFile`), `StaysInStep`
(`InStep`), `WindowsWhole` (`WindowWhole`). `ServerInv` says of each call where it is and what it
knows (`CallRight`), that the one answer under way fits the request, and that an entry it brings
has no holder yet (`AnswerRight`), and that fileids belong to their entries modulo `MAXOPEN`
also after they have wrapped (`IdsRight`). The references that `open_alloc` counts are then all
references there are, because the server answers an `open` before it takes the next request.
`WindowInv` says how far the windows are built or taken down while `open`, `ftruncate` and
`file_close` go from request to request (`WindowGrows`). It holds up to the step that loses the
server; `WindowWhole` claims nothing after it. `WindowWhole` got stronger by the
proof: it now also states that the size in the descriptor is the server's.

**`Shell_proofs`.** `LineWaitedFor` (`WaitsForAll`) and `VerdictTrue` (`VerdictRight`), for
lines of any length. `LineInv` says where the envs of a line can be: one that still parses is the
last, a program runs while its env waits, and an env to whose right there is one is itself still
there. `EndsInv` says for each env how far it is in its list of page steps and which ends it can
have at that point (`Joins`, `Leaves`, `Shares`, `Closes`). With it the verdict of a running
program is a matter of sets. Every holder of the end that it asks for has the page of the pipe
mapped too: the only holders without are children in the making, and the parents that have this
end are past their forks and spawns (`AllBacked`). And if there is a holder of the other end, there
is one with the page of the pipe (`SomeBacked`), which makes the count of the pipe larger. This
is where the order of the steps in `fork`, `spawn` and `dup` matters, and the reason why the
hazard at `user/lib/fork.c:137` does not arise in `sh`.

Assumptions are the named ones of the modules (`KernelAssumption`, `PageMapAssumption`,
`PipeAssumption`, `CowAssumption`, `FsAssumption`, `NullAssumption`, `FormatAssumption`,
`FileServerAssumption`, `ShellAssumption`, and `TailQueue`'s on its constants). They say that sets are finite, that bounds are numbers, that `NULL` is none
of the values it is compared with, and facts of the code: `NASID <= NENV`, the relation of
`POSMOD` and `BY2PIPE`, that fileids wrap at a multiple of `MAXOPEN`, that directories have blocks
of their own, and that the disk of `fsformat` is sound (`FormatAssumption`; the run `fs` starts from
the disk that `FsFormat` computes). TLC evaluates them in the runs.

Only model-checked: liveness (`RoundRobin`, `SendReaches`, `Answered`, `PipelineEnds`) and its
fairness, which the prover does not handle, and `RefinesRoundRobin`, whose refinement mapping is a
recursive function over the links. `FsFormat` and
`ElfLoad` are checked for all small inputs; what a fold yields for every input is beyond the
prover.

## 6. Not modelled

- Console, printing, strings, boot code: pure I/O, or no state worth a model. The disk driver:
  one request at a time at the level of device registers; a block access is taken as one step
  that ends. (Its wait for the device does not end after 65535 requests: hazard at
  `fs/ide.c:163`.)
- The device tree library is third-party code.
- `fork` by a program that shares an end of a pipe with another program that is using it. The
  Fd pages are shared before the data pages, and in between the counts mislead
  `_pipe_is_closed` (hazard at `user/lib/fork.c:137`). `Pipe` starts after the forks; `Shell` has
  the forks and spawns of `sh`, where it does not happen.
- `file_create`, which no request reaches, and directories that grow; the byte swap and the
  output of `fsformat`; the text of command lines.
- Removal of a directory with something open below it, beyond the step itself; writing to
  directories; a stop while `fs_init` tests the disk (section 2).
- Programs that misuse raw syscalls, beyond what `EnvKernel` and `PageMap` allow them.

## 7. Plan

Done in this order: `TailQueue`, `EnvKernel`, `LibEnv` with `RoundRobinAbs`, `PageMap`,
`Pipe`, `ForkCow`, `FileSys`, `FsFormat`, `FileServer`, `Shell`, `ElfLoad`, each with its runs or
evaluations; the proofs of the first three and of `Pipe`, then those of `ForkCow`, `PageMap`,
`FileServer`, `Fifo`, `Shell` and `FileSys`. Every invariant that a run checks is a theorem.

Next, most important first:

1. `RefinesRoundRobin` as a theorem: the ready queue given as the sequence that the links spell
   (the lemmas on the TAILQ macros are stated in these terms) instead of a recursive function.
2. `VirtioDisk`: the rings of `fs/ide.c` and the device, shown to implement a disk whose block
   accesses are atomic; the index that wraps.
3. `spawn` with the page counts of `PageMap` and its failures page by page; `fd_offset` of
   descriptors that are shared.
4. `fork` while a pipe is in use by a relative: what remains true of `_pipe_is_closed`.
