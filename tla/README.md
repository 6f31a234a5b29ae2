# Verification of the SBUnix kernel

TLA+ models of the preemptive kernel in `src/sys` and of the programs in
`src/bin` and `src/libc` that drive it, checked with TLC and, for paging, memory, the
scheduler and its sessions, the terminal and pipes, proved with TLAPS.

## The system

| Part | State | Operations | Works with |
|---|---|---|---|
| Frames (`sys/page.c`) | `pages[]` with `ref_count`, `page_free_list`, kernel heap end | `page_alloc`, `page_insert`, `page_remove`, `page_release`, the walks, `kmalloc` | every part that maps memory |
| Page faults (`sys/isr.c`) | page-table entries (RW, COW) | `isr_handler`, `findVMA`, `allocatePages`, `copyELF`, `copy_on_write_handler` | frames, VMAs, process deletion |
| Address spaces (`sys/process.c`, `sys/syscall.c`) | pml4, page-table pages, VMA list | `build_process_address_space`, `fork_handler`, `execve_handler`, brk | frames, ELF loader, scheduler |
| Process deletion (`sys/cleanup.c`) | all of a PCB | `delete_process`, `vma_remove_for_process` | frames, terminal, descriptors |
| Scheduler (`sys/timer.c`, `SchNext`) | `current_pcb`, the run, sleep, wait and block queues (links and heads) | `timer_handler`, `SchNext` | every call that blocks or wakes |
| Process calls (`sys/syscall.c`) | queues, `waitPID`, `sleepTimeLeft`, `isFore` | fork, execve, wait4, nanosleep, read(0), exit, killPCB | scheduler, terminal |
| Terminal input (`sys/kbd.c`, `sys_read`) | `readBuff`, `addressOfBuff`, `block_pcb_head`, `isFore` | `keyboard_handler`, read(0) | scheduler |
| init, shell, commands (`bin/`) | where each process is in its program, the line and its pipes | fork, execve, waitpid, scanf, exit; execute, piping, cd, ls, cat | all calls |
| Pipes (`sys_read`, `sys_write`, `sys_pipe`) | the buffer and `r`, `w` of `pipe_node`, `isWriteClosed`, the write end's `offset` | read, write, close, pipe | descriptors |
| Descriptors (`sys/syscall.c`) | `fileDescriptors`, `refCount`, `offset`, `cwd` | open, read, close, lseek, getdents, chdir, getcwd, dup2, pipe | tarfs; fork and exit (`refCount`) |
| File tree (`sys/tarfs.c`) | the tar archive linked in, the tree over its headers | `setupHeirarchyOfTarfs`, `lookUpForFile`, `getFile` | descriptors, ELF loader |
| ELF loader (`sys/elf.c`) | VMAs of a program | `checkELF`, `getELF` (`check_vma`, `insert_vma`) | address spaces, page faults |
| User heap (`libc/malloc.c`) | `nodes[]`, `heap_end` | malloc, free | brk |
| Console, gdt, idt, entry stubs | video memory, hardware tables | printf, set-up | - |
| `akenia/` | an earlier shell for Linux | - | - |

What interacts: the timer, the keyboard, page faults and system calls all enter
through interrupt gates, so a handler is never interrupted. What interleaves
is whole handlers of different processes, and every handler relies on link fields
and head variables the previous ones left. That makes these behaviours hard:
which of two waiters queued first; a head variable that still names a woken or
deleted PCB; ownership of the terminal, passed on by four handlers; reference
counts on which copy-on-write decides, kept by fork, exec, exit and faults in
any order; resources that are never given back. What correctness means for each:

* frames: one role per frame, counts equal to sharers, nothing lost;
* address spaces: no process writes a frame another one maps;
* scheduler: the lists are round robin over a queue of runnable processes,
  nobody starves, nobody is lost, no deleted process runs;
* waiting: a wake-up has a cause, a waiter has something to wait for, a shell
  gets back to its prompt, a sleeper wakes;
* terminal: one owner, and the blocked reader is it;
* what is typed: a queue of lines, each read once and whole;
* pipes: a queue of bytes, whose reader comes to its end;
* memory of a program: VMAs apart, every byte served, no store undone, blocks of
  malloc apart;
* files: the tree says what the archive says, cd and ls follow it, a descriptor's
  count is the number of slots that hold it, a pipeline's commands are on its pipes.

`PROJECT.json` lists each hazard at its line with the properties that look for it.

## Modules

`Paging` models frames, counts, page tables, VMAs, copy-on-write and the frames that are lost.
Each handler is one action: `Build`, `FaultAlloc`, `FaultKill`, `CowFault` (with
its four outcomes), `Brk`, `Fork`, `Exec`, `Exit`. `map[p][v]`, `rw[p]`, `cow[p]`
are the page-table entry, `refs` is `ref_count`, `free` the free list as a set
(which frame is its head never matters), `tables[p]` the page-table pages, whose
missing ones the walks allocate even for a look-up, as in the code. `hung` is the
`while(1)` of `page_insert`. `MCPaging` gives it an instance, and a VIEW that
identifies states up to the names of frames.

`PagingProofs` holds the theorems about `Paging`.

`Sched` models the queues exactly as the code keeps them: `q.next`, `q.prev`, four
head variables and `q.cur`. `Park`, `Wake`, `Unlink`, `Append`, `Resume` and
`deleteNode` are the link manipulations of `sleepPlease`/`waitPlease`, the wake
loops, the `&` branch of `execve_handler` and `deleteNode`, with what they forget to
update: a woken head that has a successor stays the head, and `deleteNode` changes
only its own copy of the head. `timer_handler(second, slice)` is a tick that ends a
second, a slice, or both, in the order of the code: sleepers, choice of the next
process, waiters. `Switch` is `SchNext`. `fault` is set when the kernel loads the
cr3 of a deleted process, writes through its pml4, or walks a queue that has become
circular, which the timer does for ever with interrupts disabled. A walk is a
recursive function (`Walk`: the state after n nodes), as is the list that a head
leads to (`At`). `HeadsTrue` says that the head variables of the other three queues
name living processes that are not runnable: what the code can lose, and what the
proofs rest on. A process may issue any call of the constant `Calls`.
`SchedProofs` holds the theorems.

`Session` composes the kernel of `Sched` with the programs of `bin/`: `pc[p]` is
where process p is in init, shell, the child of `execute`, or a command. The `kavana`
program is kept because its two processes wait and read. `SessionProofs` holds the
theorems.

`RoundRobin` is the abstract scheduler: a sequence of runnable processes, the
current one, a set of parked ones, and no links or pids. `Session` instantiates it
with the run list read off the links (`RunSequence`) and checks
`ImplementsRoundRobin`.

`MCSched` and `MCSession` name the sets the configurations use.

`Memory` models the address space as a program sees it, byte by byte: the VMA list
(`list[p]`), the number left on `vma_free_list`, the pages that have an entry, the
sections the program has stored to, and malloc's `nodes` and `heap_end`. `getELF` is
one step per section (`MergeSection`, `InsertSection`: `check_vma`, `insert_vma`),
during which nothing else happens (`building`); `AddHeapAndStack`, `Exec`, `Fork`, `Exit`,
`Touch` (a page fault through `findVMA`, `allocatePages` and `copyELF`), `Store`,
`malloc` and `free_block` are the rest. Frames and copy-on-write are left to `Paging`,
where VMAs are given. `MCMemory` has two programs laid out as `ld` does;
`MemoryProofs` holds the theorems, those about page faults at its end.

`Tarfs` models the archive and the tree that `setupHeirarchyOfTarfs` builds over it up to
`lib/libc.a`, and the two ways to look a name up, `lookUpForFile` (the tree) and
`getFile` (the whole archive). `Files` has the system calls on descriptors and
directories as operators from a kernel state to a result, so that `Shell` can
make them part of larger steps: `sys_open`, `sys_read`, `sys_close`, `sys_lseek`, `sys_getdents`,
`sys_chdir`, `sys_getcwd`, `sys_dup2`, `sys_pipe`, `ForkFiles`, `ExitFiles`. `Shell`
composes them with `main`, `execute` and `piping` of `bin/shell`, with `ls`, `cat` and a
program (`tool`) that makes any of the calls: one system call per step, any
interleaving. `FaultKilled` is the page fault of a program whose file is not found.

`Terminal` models the characters: `keyboard_handler` with Shift, Ctrl and Enter,
`readBuff`, and read(0), served at once from lines typed ahead or blocked until Enter.
`wild` is set by the copy of negative length after a read of a half-typed line.
`LineQueue` is what a terminal promises: complete lines, in order, each read once, the
next one going to the reader that waits. A second reader leaves the first as
`block_pcb_head` and overwrites `addressOfBuff`, as the code does; who owns the terminal rules it
out. `TerminalProofs` holds the theorems.

`Pipe` models the ring buffer: `buffer`, `r`, `w`, and the `offset` the write end
keeps of an unfinished write. `sys_write(s)` and `sys_read(count)` are one call
each, with the branches of the code in its order (`WriteEmpty`, `WriteBelow`,
`WriteAbove`; `ReadFull`, `ReadBetween`, `ReadAround`), the unsigned arithmetic
of `(w + n) % size` and the branches that go on with stale local copies of the
indices. The code has the same text twice, for descriptors 0 and 1 and for the
others; both are this module. `sys_close` is the closing of the last descriptor of
the write end. `wild` is set by a copy outside the buffers, after which nothing
is said. `got` is what the last read returned.

`ByteQueue` is the abstract pipe: a sequence of bytes. A write appends its message whole, or
nothing when the pipe is full; a read takes as many bytes as asked for, or as there are; the write end
is closed once. `MCPipe` names the messages, and `PipeProofs` holds the theorems.

`NatSets` states the principle of induction the proofs about walks and lists use: a set of
natural numbers that holds n whenever it holds all smaller ones holds all.

## Runs

| Run | Question | Answer |
|---|---|---|
| `paging` | Do counts, roles, VMAs and isolation survive all memory operations, with two of three processes alive? | yes; and no frame is lost but the pml4 page of a process that dies |
| `leaked_root` | Is every frame somebody used given back ("//Deleting pml4 table", `cleanup.c:177`)? | no: that page has count 0, is lowered to -1, and is never released |
| `paging_in_place` | Is a page made writable in place unshared ("page ref=1", `isr.c:232`)? | no: three sharers have count 3, and the test is for exactly 2 |
| `families` | Do fork, execve, wait, sleep and exit, called by arbitrary programs of which one waits and one sleeps at a time, keep the run queue and the current process sound, does every runnable process run, and has whoever waits an exit still to come? | yes |
| `sessions` | A shell with foreground and background commands, PATH look-ups, kills, naps, and an exit of the shell: queues, their head variables (the hypothesis of the theorems), one terminal owner, wake-ups with a cause, round robin, prompt, sleepers | all hold |
| `lost_prompt` | Does the prompt come back (`README:10`) if a slice ends between a fork and its wait? | no: the shell can be cut off the wait queue |
| `killed_reader` | Is the kernel kept off a deleted address space (`syscall.c:267`)? | no: Enter follows `block_pcb_head` to the killed reader |
| `files` | Do the tree, cd, ls, the counts of descriptors and the pipelines agree with the archive, the path, the slots and the line typed, for a shell with foreground and background commands? | yes |
| `lost_image` | Is a program started by a relative name found after cd ("Convert relative filename to absolute", `syscall.c:1404`)? | no: the conversion is commented out, and the next page fault kills the process |
| `memory` | Are VMAs and blocks apart, all own bytes served and no stores undone, through execve, fork, faults, malloc and free of two processes? | yes |
| `terminal` | Do programs read exactly the lines entered, in order, and does a blocked reader go on? | yes |
| `pipe` | Do patient programs (below) get a queue of bytes and an end of file? | yes |

`lost_prompt` in steps: the shell forks a child for a command found through PATH;
before the shell calls waitpid its slice ends, the child forks a grandchild and
waits; the shell then waits behind it; the grandchild exits and wakes the child, which
was the head of the wait queue and has a successor, so `wait_pcb_head` keeps
naming it (`syscall.c:246`) while its `next` is cleared. The shell is now in no list.

`lost_image` in steps: init starts the shell as `bin/shell`, found from `/`; the user
enters `cd kavtest`; `getFile` now looks for `/kavtest/bin/shell`. The shell runs on
until it touches a page it has not touched before.

Four more disagreements are named here or in the modules and have no run of their own:
`findVMA` compares with `end` as if it were inside the VMA, so that a fault outside every VMA
is accepted and repeats for ever (`isr.c:124`; `AcceptedMeansServed` in `Paging` is false); a
write of more than the pipe holds leaves the indices of an empty pipe (`syscall.c:639`;
`FullAfterPart` in `Pipe` is false without `Patient`); with `waitpid(pid)` the timer wakes the
waiter when the child is scheduled, not when it exits (`timer.c:102`: of `bin/` only kavana
waits so); and `get_vma_flags` gives unknown flags VM_WRITE where `elf.c:145` says
"Default read perm".

### Bounds

* `MaxLive = 2` in the `paging` run: with three processes alive `Isolation` fails,
  which `paging_in_place` shows; three PCBs let a process be created after another
  died. One page each of text, data, heap and stack under two page-table pages is
  enough for every pair of pages that share a table or do not. `KHeapPages = 3`
  makes the kernel heap run out. Deadlock is allowed there: the processes may all
  have exited.
* `NumPcbs`: 4 for arbitrary programs (three levels of fork, or siblings); 5 or 7 for
  sessions: idle, init, the shell and up to four processes of commands, one kept for
  kavana, so that a command overlaps two earlier background ones and a PATH look-up nests. PCBs are
  never reused in the code, so the bound only ends the session: the shell takes a
  line only while there is room for all it forks (`Room`).
* `SleepRoom = 1`, `Naps = {1}`: with two sleepers, or sleep(0), the code loses
  or never wakes one (`timer.c:41-42`, listed as hazards); the runs ask what
  holds otherwise. One second and a two-second nap differ only in when the count
  reaches zero.
* `WaitRoom`: how many processes wait at a time. The sessions do not limit it; `families`
  has 1. With two waiters of six processes the code can hang, which TLC finds after
  13 steps: the first waiter is woken, but has a successor, so `wait_pcb_head` goes on
  naming it, on the run queue. It forks, its child forks, and these two have
  `waitPID` 0 from `pcb_alloc`. When the idle process, whose pid is 0, is to run, the
  timer's walk starts from that head, goes along the run queue, takes the two for
  waiters that are due, and links each behind the other: the walk never ends.
  `SchedProofs` proves that one waiter at a time, or true heads, is enough.
* `Quiet = TRUE` (run `sessions`): no command is looked up through PATH, and kavana does not
  fork, while a background job lives. Without it two processes of one session wait
  at once, the shell first; when the background job exits or is killed, that wakes the shell alone,
  which has a successor, so `wait_pcb_head` goes on naming it (`syscall.c:246`), and `HeadsTrue`
  and `EveryQueueProper` fail: TLC finds that after 17 steps.
* `BackgroundCommands = {"read"}`: a background job computes, fails to read, and exits; only
  foreground commands nap, with two background jobs beside them at most.
* `Prompt = TRUE` (run `sessions`): no slice ends between a fork and the
  wait that follows it, a few instructions against a slice of 2.4 seconds. It is
  the assumption `lost_prompt` removes, and `families` makes without it.

* `Patient = TRUE` in the `pipe` run: a program writes what fits behind `w`, or
  to a full pipe, and reads when there is something to read or the write end is
  closed. The code needs this. A write or read that wraps around the end of the
  buffer copies a negative length (`syscall.c:449`, `670`: the index is overwritten
  before it is used), and a read of an empty open pipe does not wait. The shell's
  pipelines (`piping`, `shell.c:251`) run a writer to its end before its reader
  starts, so they are patient as long as the writer's output fits in the pipe.
* `Size = 5` stands for 20480, `Wrap = 1` for 2^64 % 20480 = 4096, a fifth of
  the size in both. Messages of up to three bytes make a write end before, at and
  beyond the last slot; counts of 1, 2, 5 and 8 read less than, all of and more
  than what is there or what the buffer holds. The buffer starts with any bytes.

* `memory`: pages of 4 bytes; two programs, one with sections that share a page and a
  writable pair with a page's end between, one whose second section starts exactly at the
  end of the first one's VMA. The heap has two pages before its limit, so brk fails.
  `NumNodes` (500 in the code, unchecked) and `NumVmas` (100, unchecked) end a
  run before `nodes[index]` or a NULL VMA is written through; `SharedNodes` keeps two
  heaps small at once. malloc(0) is excluded (`Sizes`): it gives two blocks one pointer, and
  free of one frees both.
* `files`: two archives with the directories in different order, one where `lib/libc.a`
  is not last, so that a directory behind it is missing from the tree. Six slots instead of 15, of
  which pipelines use up two each, so that they run out. `NumDescs` and `NumPipes`
  are large enough never to run out, as `kmalloc` has no bound either: two descriptors more
  than there are slots (`FilesAssumption`), so that `sys_pipe` finds its two. `W64 = 32` lets
  `refCount` wrap below 0.
  The tool opens one file at a time. It closes a descriptor only while it is alone in
  holding it: a close of a shared one leaves the slot in use (`syscall.c:839`), and a
  second close of it would take from the count what belongs to another process. A
  pipeline has two commands: with three, `sys_pipe`'s second loop (`syscall.c:1090`)
  overwrites a slot in use and `PipelineConnected` fails. The user types a pipeline
  only while no background job runs.
* `terminal`: `Patient = TRUE` says no process reads while a line is half typed,
  which is more than the repository's README asks of the user ("please wait for shell prompt"):
  the prompt is printed before the read, so a read of a half-typed line stays possible. Then
  the read copies a negative length (`syscall.c:360`). Three characters and ends of line
  typed ahead (`MaxTyped = 4`) make two lines and a half, an empty line and
  a full buffer; the code has a page and no check. A read takes the whole line
  whatever its count (`syscall.c:359`), and so does the model.

### Fairness

`FairSession` assumes: slices and seconds go on ending while the machine runs
(`SliceFair`, `SecondFair`: the PIT is programmed once and never masked); a
user answers a process that reads (`EnterFair`); and a process that is current again
and again moves on in its program (`MovesOn`, strong fairness: a command neither
computes nor reads for ever, and the timer may interrupt it any number of times).
`EnterFair` is `WF_svars(Enter)`; the others are written as `[]<>` formulas over
the state in which the step can be taken, since ENABLED of a whole handler is
too large for TLC to evaluate. The
shell's liveness needs all of them. `RunnableRuns` is checked for arbitrary programs
(`families`), which owe nothing: `FairSpec` of `Sched` assumes only that slices go on
ending.

`Terminal`'s `FairSpec` assumes that the user ends a line somebody waits for (strong fairness
of Enter, since Ctrl pressed in between disables it) and goes on typing after Ctrl.

`Pipe`'s `FairSpec` assumes that the reader goes on reading (`WF` of `sys_read`): the
programs read in a loop until read returns 0. The writer is assumed nothing.

## Proofs

`PagingProofs` proves, from the named assumptions on the constants only (frames and
processes finite, segments disjoint), for every number of frames, processes, heap
pages and page tables:

* `TypeCorrect`: `[]TypeOK`
* `RefCountsAreExact`: `[]RefCountExact`
* `FramesAreExclusive`: `[]FrameExclusive`
* `NeverAliased`: `[]NoAlias`
* `VmasCoverMappings`: `[]MappedInsideVma`
* `InsertNeverHangs`: `[]NeverHangs`
* `OnlyRootsAreLost`: `LosesRootsOnly`
* `WritersAreAlone`: `[]Isolation`, when `MaxLive <= 2`

The first six follow from one inductive invariant (`Invariance`). None of them is inductive by
itself: that a count equals the number of sharers needs that a process maps a
frame at one page only (otherwise one process would be counted once and dropped
twice), which needs that `page_alloc` returns a frame nobody uses, which needs
that a frame is released only when its count really is the number of its users.
That page_insert never loops needs that the stack page lies in a VMA `execve`
removes; that every mapping lies in a VMA needs the heap to grow only. The proof has
one lemma per action, on top of lemmas about `page_alloc`, `Share`, `Drop` and
`Released`, and the counting of sharers.

Each of these lemmas also says which frames the step stops naming: none (`NoneLost`), or, when
a process is deleted, its pml4 page alone (`RootLost`), because every other frame of the
process has count 1, and is released, or another sharer. `OnlyRootsAreLost` follows.
That the page itself is lost is the finding of `leaked_root`, not part of what is proved.
`WritersAreAlone` is the one theorem with a hypothesis: with
two processes alive a COW frame has count 1 or 2, so the branch of
`copy_on_write_handler` that makes a page writable in place meets only sole owners; the
invariant adds that text pages are never writable or COW, so fork
marks all it shares that could be written. With three processes the
conclusion is false (run `paging_in_place`).

`MemoryProofs` proves, from what `Memory` assumes of the layout of the user's space and of
the sections `ld` writes, for every page size, every number of processes, VMAs and
nodes, every set of programs and of block sizes:

* `TypeCorrect`: `[]TypeOK`
* `VmasAscend`: `[]VmasApart`
* `HeapBlocks`: `[]BlocksApart`
* `NoVmaLost`: the free VMAs and those in the lists number `NumVmas`
* `Invariance`: the inductive invariant.

`VmasApart` is not inductive: while a program is loaded, one must know that the sections still
to come lie beyond the end of every VMA but the last, so that `check_vma` can only find the
last; afterwards, that the last two VMAs are the heap, below its limit, and the stack.
`BlocksApart` needs that malloc's nodes lie one behind the other up to `heap_end`, inside the heap
VMA, and that each block held has a node of its own that is in use and as large.
`NoVmaLost` counts the VMAs in use as pairs of a process and a position in its list.

Its last part is about page faults (`ServedInvariance`):

* `EveryByteServed`: `[]OwnBytesServed`
* `StoresAreKept`: `StoresKept`

Neither follows from VMAs being apart. `findVMA` takes the end of a VMA for a part of it and
the first VMA that fits, and a grown VMA has the flags of its first section only; so the
invariant says that each section of the program lies in one VMA whose flags allow its
stores, beyond the end of every VMA before it (`Holds`), also while the program is still being
loaded (`Loading`). A page fault copies all sections of a VMA, those already stored to
included; so it also says that the VMAs of a program are mapped as a whole or not at all
(`Whole`), that a section stored to is in a mapped one, and that no two overlap.

`PipeProofs` proves, for every size of the buffer, every set of bytes, messages and
counts and every `Wrap`, all but the first under the assumption `Patient`:

* `TypeCorrect`: `[]TypeOK`, without `Patient`: whatever programs write and read, the
  indices stay within the buffer
* `PatientInvariance`: `PInv`, the inductive invariant
* `PatientNeverWild`: `[]NoWildCopy`
* `PatientPipeIsQueue`: `ImplementsByteQueue`, that is, initial states map to
  an empty queue and every call to a step of `ByteQueue` or a stutter.

The invariant is that the contents never wrap around the end of the buffer and that no
write is left unfinished (`offset = 0`). It says why the code works: all its
branches for `w < r` and all its wrapped copies are out of reach. The refinement
rests on it, one lemma per call, and on lemmas about `Contents` of a straight
buffer.

`SchedProofs` proves, for every number of PCBs, every set of calls, naps and rooms:

* `Invariance`: `[]IInv`, as long as `Solitary \/ HeadsTrue` holds
* `HeadsTrueSuffices`: `NoFault`, `RunQueueSound`, `WalksEnd` and `EveryQueueProper` hold as long
  as `HeadsTrue` does, whatever the programs call
* `SolitaryInvariance`, `TypeCorrect`, `KernelNeverFaults`, `RunQueueStaysSound`, `WalksAlwaysEnd`,
  `QueuesStayProper`, `HeadsStayTrue`: `[]IInv`, `[]TypeOK`, `[]NoFault`, `[]RunQueueSound`,
  `[]WalksEnd`, `[]EveryQueueProper`, `[]HeadsTrue`, for programs that are `Solitary`
* `NobodyIsLost`: `[]NothingLost`, for such programs that do not read the terminal either
* `WaitInvariance`, `WaitersAlwaysHaveACause`, `SolitaryWaitersHaveACause`: `[]WaitersHaveACause`
* `WakesHaveACause`: `WakeHasCause`.

The unconditional statements are false, and the runs `lost_prompt` and `killed_reader` show it:
the code leaves a head variable on a woken or killed process. There are two ways to say
when it does not. `HeadsTrue` is a condition on states (the `sessions` run checks that
sessions meet it). `Solitary` is one on programs: one waiter and one sleeper at a time, no
kill; the `families` run is of this kind.

The invariant says that the queues are ranked lists (`List`): a set of PCBs with a rank
that each next link raises by one, prev links that lead back, and a head of rank 0. No two of the four
have a common member, and all members live. A walk along the
links climbs in rank (`Climb`), so it ends after as many steps as the set has members, and it
meets each member once; `At`, `Last` and `Chain` are read off the ranks. What `Unlink` and
`Append` do is said once of a ranked set, and what each handler does follows. The wake-up
loops are the hard part: while one runs it takes nodes off the list it walks and appends
them to another, so its invariant (`Sorting`, `WakesDue`) says which part is still to be walked,
that what is left is a list from the walk's node on, and that exactly those that are
due are woken. In the middle of a tick the sleepers' head may already name a runnable
process, which is why the shape in which the handlers leave the queues (`Tight`) is
reached through a weaker one (`Loose`).

The last part adds `WInv`. `Kin` makes a pid mean a PCB: a living process that has run has
its number less one as its pid, everybody else has none, and a child's `parentProcessID` is the pid
of `parentPCB`. wait4 refuses to wait unless a queue holds somebody to wait for
(`Present`), which gives the waiter its cause, and an exit wakes all who wait for the
process that exits, so those it leaves waiting have another cause. `WakeHasCause` is about who
waits for any child: the timer wakes who waits for the pid that is about to run
(`timer.c:102`), and by `Kin` a process that runs has a pid of 0 or more.

`SessionProofs` proves of the programs of `bin/` on this kernel, for every set of jobs and
commands and with or without `Prompt`, as long as `Solitary \/ HeadsTrue` holds:

* `SessionInvariance`: `IInv`, `WInv` and `FInv`, the invariant of the terminal
* `SessionIsSched`: a session is a behaviour of `Sched!Spec`
* `OneTerminalOwner`: `[]OneForeground`
* `ReaderOwnsTerminal`: `[]ReaderIsForeground`
* `SessionsStaySound`: `TypeOK`, `NoFault`, `EveryQueueProper`, `WaitersHaveACause` (which the `sessions`
  run therefore does not repeat: it follows from the `HeadsTrue` it checks).

That one process at most owns the terminal is false of arbitrary programs: a process in the
background that calls execve without "&" takes it. It depends on where the calls are made.
`FInv` says that whoever is at a statement before which the program must own the
terminal does own it (`Owners`: from the fork to the execve of a foreground command, and before the line
is read), that there is one owner at most, and that the blocked reader is it. A fork
moves the terminal to the child, execve takes it from a parent that no longer has it or
gives it back, an exit leaves it to the parent.

`TerminalProofs` proves, for every set of keys, number of processes and `MaxTyped`:

* `TypeCorrect`: `[]TypeOK`, patient or not
* `PatientTerminalIsQueue`: under `Patient`, `ImplementsLineQueue`
* `Invariance`: `TInv`, the inductive invariant.

`TInv` says that the process that is blocked is the one `block_pcb_head` names, that nothing
complete is typed while it waits (otherwise Enter would hand over the wrong line), and that
under `Patient` no copy has a negative length. The refinement maps `readBuff` to the lines
in it, and rests on lemmas about what a character, Enter and a read do to that parse.

`ShellProofs` proves of `Shell`, on `Files` and `Tarfs`, for every archive whose directories
come before what they hold, every number of processes, sizes of the tables and set of lines:

* `Invariance`: `[]IInv`, the inductive invariant
* `TypeCorrect`: `[]TypeOK`
* `SharersAlwaysCounted`: `[]SharersCounted`
* `LookupsAlwaysAgree`: `[]LookupsAgree`
* `ChdirAlwaysResolves`: `ChdirResolves`
* `ListingAlwaysExact`: `[]ListingExact`
* `PipelinesAlwaysConnected`: `[]PipelineConnected`, for lines of at most two commands
  (`ShortLines`: with three the conclusion is false, see Bounds).

None of these is inductive, and `IInv` (checked with TLC before it was proved) has a part for
each. A count equals the number of the slots that lead to a descriptor (`Counted`) only
while a process that does not live holds no slot (`Idle`) and what nothing leads to is freed
(`Tidy`): otherwise a new file could take the place of one somebody still counts. `refCount`
never wraps because the slots of all processes are fewer than 2^64. Lookups and cd
need that every current directory is the path of a header before `lib/libc.a` and that every
directory on the way to it has mode 755: `sys_chdir` takes ".." through the same test as any
name. A listing is exact because, while `ls` is in the middle of it, no other slot leads to its
descriptor (`Mine`), so nobody moves the offset, and what it has printed is the names of the
first children, as many as the offset (`Listing`); that the children of a node are the
entries of its directory in the order of the archive (`Grown`) holds of the tree over every
number of headers, by induction over them. For pipelines the invariant follows each slot of
the line's pipe from `sys_pipe` through fork, close and dup2 to the execve (`Plumbed`).

The proof is in layers: the tree that is built at boot; what each call does to the tables of its
process and leaves of the others' (`CallOK` and one lemma for each of `sys_open`,
`sys_read`, `sys_lseek`, `sys_getdents`, `sys_close`, `sys_dup2`, `sys_pipe`, `sys_chdir`,
fork, exit); what a step of one process leaves to the others (`StepKeeps` and its like);
and one lemma for each action.

Two techniques reach further than the provers by themselves. A recursive function satisfies its
equation by induction over a set of natural numbers, and `NatSets` derives that principle from
the library's well-foundedness of `<` (the library's own induction theorems take an
operator, which the provers cannot instantiate). And a fact about a state and one about
the next are applied to rigid names picked for them, since a lemma cannot be instantiated
with an expression that has primes.

Only model-checked: `ImplementsRoundRobin`, whose mapping reads a sequence off the links; and
liveness (`RunnableRuns`, `ShellComesBack`, `SleeperWakes`, `ReaderServed`,
`ReaderFinishes`), which with its fairness and ENABLED is out of the prover's reach. The
assumptions of the theorems are those of the runs: what the code needs of its programs
(`Patient`, `Solitary`, `ShortLines`, `MaxLive`) is said in Bounds, with what goes wrong without it.

## Not modelled, and why

Page contents, registers and stacks; the clock display; the argument stack of execve;
pids as addresses of kernel stacks; the console and hardware tables; the string and
formatting functions of libc; `ps`, `echo`, `sleep` and `kill` beyond their calls in
`Session`; `akenia`, which is not part of the
kernel. `sys_dup` and `sbrk` are never called. `wait by pid` and the second sleeper are
modelled, but the runs leave them out (above). `sys_yield` is never called. The interrupt flag is not a variable: all
gates are interrupt gates, which is why a handler is one action.

## Plan

1. `Paging` and its proofs - done.
2. `Sched`, `Session`, `RoundRobin` and the proofs about the first two - done; next,
   that a shell that waits before its slice ends meets `HeadsTrue` (proved so far for
   solitary programs only), and the refinement of `RoundRobin`.
3. `Pipe`, `ByteQueue` and their proofs - done.
4. `Tarfs`, `Files`, `Shell` and their proofs - done; next, counts of pipe ends composed
   with `Pipe`.
5. `Memory` and its proofs - done.
6. `Terminal`, `LineQueue` and their proofs - done; next, two sleepers, and read into a
   copy-on-write page.
