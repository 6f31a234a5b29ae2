------------------------------- MODULE Files -------------------------------
(***************************************************************************)
(* File descriptors and current directories: the system calls on them, as  *)
(* operators from the kernel's state to a result, so that a call may be    *)
(* made of others.                                                         *)
(*                                                                         *)
(* A kernel state s has, for each process, its table fds and its cwd (the  *)
(* components of the path), and the descriptors and pipes the tables lead  *)
(* to.  kmalloc never gives memory out twice; a descriptor that no table   *)
(* leads to is kept Unused here and its number used again.                 *)
(***************************************************************************)
EXTENDS Tarfs, FiniteSets, FiniteSetsExt

CONSTANTS
  Procs,      \* the PCBs
  NumSlots,   \* MAX_FILE_DESCRIPTORS_PER_PROCESS
  NumDescs, NumPipes, \* bounds: descriptors and pipes that can be reached at a time
  W64,        \* 2^64
  BlockSize   \* FILE_CONTENT_SIZE

ASSUME FilesAssumption ==
  /\ Procs \subseteq Nat /\ Procs # {} /\ IsFiniteSet(Procs)
  /\ NumSlots \in Nat /\ NumSlots >= 5 /\ NumPipes \in Nat
  /\ NumDescs \in Nat /\ NumDescs >= NumSlots * Cardinality(Procs) + 2
  /\ W64 \in Nat /\ W64 > NumSlots * Cardinality(Procs) /\ BlockSize \in Nat \ {0}
  /\ \A a \in Archives : Len(a) < W64 /\ \A i \in 1 .. Len(a) : a[i].fileSize + 1 < W64

VARIABLES
  k,          \* [fds, desc, pipes, cwd]
  live        \* the PCBs of processes that have not exited

Slots == 0 .. NumSlots - 1
Descs == 1 .. NumDescs
Pipes == 1 .. NumPipes
Unused == [fdType |-> "none"]
NewFd(type, flags, file, pipe) ==
  [fdType |-> type, offset |-> 0, perm |-> flags, refCount |-> 1,
   file_ptr |-> file, pipe_ptr |-> pipe]

Result(value, s) == [ret |-> value, s |-> s]
Fail(s) == Result(-1, s)

HeldBy(s, p) == {s.fds[p][i] : i \in Slots} \ {NULL}
Spare(s) == CHOOSE d \in Descs : s.desc[d] = Unused /\ \A e \in Descs : s.desc[e] = Unused => d <= e
SparePipe(s) ==
  CHOOSE x \in Pipes : \A d \in Descs : s.desc[d] # Unused => s.desc[d].pipe_ptr # x

(* The state without the descriptors and pipes that no table leads to. *)
Reachable(s) == UNION {HeldBy(s, p) : p \in Procs}
OpenPipe == [isReadClosed |-> FALSE, isWriteClosed |-> FALSE]
Settled(s) ==
  LET reached == Reachable(s) IN
  [s EXCEPT !.desc = [d \in Descs |-> IF d \in reached THEN @[d] ELSE Unused],
            !.pipes = [x \in Pipes |-> IF \E d \in reached : s.desc[d].pipe_ptr = x
                                       THEN @[x] ELSE OpenPipe]]

(* The first free slot from 3 on; NumSlots when there is none: the loop     *)
(* also looks at fileDescriptors[15], which is the field cwd, never NULL.   *)
FirstFree(s, p) ==
  LET free == {i \in Slots : i >= 3 /\ s.fds[p][i] = NULL}
  IN IF free = {} THEN NumSlots ELSE Min(free)

Refused(file, flags) ==
  \/ file = NULL
  \/ FileType(file) = "file" /\ Is755(file)
  \/ flags \in {"O_WRONLY", "O_CREAT"}
  \/ flags = "O_DIRECTORY" /\ FileType(file) # "dir"

sys_open(s, p, path, flags) ==
  LET file == lookUpForFile(s.cwd[p], path)
      i    == FirstFree(s, p)
      d    == Spare(s)
  IN IF Refused(file, flags) \/ i = NumSlots THEN Fail(s)
     ELSE Result(i, [s EXCEPT !.fds[p][i] = d,
                              !.desc[d] = NewFd("TARFILE", flags, file, NULL)])

(* strncpy copies up to a NUL, and the padding of the last block has one: a *)
(* file that fills its last block goes on into the next header, whose name  *)
(* (one unit here) ends it.                                                 *)
TextEnd(file) ==
  archive[file].fileSize
    + IF archive[file].fileSize % BlockSize = 0 /\ file < Len(archive) THEN 1 ELSE 0

(* read of a file; the terminal and pipes are in Terminal and in Pipe. *)
sys_read(s, p, fd, count) ==
  LET d == s.fds[p][fd]
      f == s.desc[d]
      n == Min({count, TextEnd(f.file_ptr) - f.offset})
  IN IF d = NULL \/ f.fdType # "TARFILE" THEN Fail(s)
     ELSE IF f.perm = "O_WRONLY" \/ FileType(f.file_ptr) = "dir" THEN Fail(s)
     ELSE IF f.offset >= archive[f.file_ptr].fileSize THEN Result(0, s)
     ELSE Result(n, [s EXCEPT !.desc[d].offset = @ + n])

(* refCount is a uint64_t. *)
CountSigned(n) == n
Count(n) == n % W64

(* The slot is given up only by the last holder. *)
sys_close(s, p, fd) ==
  LET d == s.fds[p][fd]
      n == Count(s.desc[d].refCount - 1)
      x == s.desc[d].pipe_ptr
      t == [s EXCEPT !.desc[d].refCount = n]
  IN IF d = NULL THEN Fail(s)
     ELSE IF n # 0 THEN Result(0, t)
     ELSE Result(0, [t EXCEPT !.fds[p][fd] = NULL,
                       !.pipes = CASE t.desc[d].fdType = "PIPEWRITE" -> [@ EXCEPT ![x].isWriteClosed = TRUE]
                                   [] t.desc[d].fdType = "PIPEREAD"  -> [@ EXCEPT ![x].isReadClosed = TRUE]
                                   [] OTHER -> @])

sys_lseek(s, p, fd, offset, whence) ==
  LET d == s.fds[p][fd]
      f == s.desc[d]
      from == CASE whence = "SEEK_SET" -> 0
                [] whence = "SEEK_CUR" -> f.offset
                [] whence = "SEEK_END" -> archive[f.file_ptr].fileSize
      n == (from + offset) % W64
  IN IF d = NULL THEN Fail(s)
     ELSE IF f.file_ptr = NULL THEN Fail(s)
     ELSE IF FileType(f.file_ptr) = "dir" THEN Fail(s)
     ELSE Result(n, [s EXCEPT !.desc[d].offset = n])

(* The name is the child at the offset; behind the last the offset is reset *)
(* and 0 returned.                                                          *)
sys_getdents(s, p, fd) ==
  LET d == s.fds[p][fd]
      f == s.desc[d]
      children == tree.children[f.file_ptr]
  IN IF d = NULL THEN Fail(s)
     ELSE IF f.file_ptr = NULL THEN Fail(s)
     ELSE IF FileType(f.file_ptr) # "dir" THEN Fail(s)
     ELSE IF f.offset >= Len(children) THEN Result(0, [s EXCEPT !.desc[d].offset = 0])
     ELSE [ret |-> 1, s |-> [s EXCEPT !.desc[d].offset = @ + 1],
           d_name |-> FileNameIn(archive, children[f.offset + 1])]

sys_getcwd(s, p) == [abs |-> TRUE, names |-> s.cwd[p]]

Parent(node) == IF tree.parent[node] = NULL THEN node ELSE tree.parent[node]
MayEnter(node) == node # NULL /\ FileType(node) = "dir" /\ Is755(node)

(* One component of the path: the current directory moves along, so that    *)
(* the next component is looked up in it, and is put back on failure.       *)
At(node, s, p, ok) == [node |-> node, s |-> [s EXCEPT !.cwd[p] = FilePath(node)], ok |-> ok]
Component(at, p, name) ==
  LET next == IF name = ".." THEN Parent(at.node)
              ELSE lookUpForFile(at.s.cwd[p], [abs |-> FALSE, names |-> <<name>>])
  IN IF ~at.ok \/ name = "." THEN at
     ELSE IF MayEnter(next) THEN At(next, at.s, p, TRUE)
     ELSE [at EXCEPT !.ok = FALSE]
RestoreForgotten(s, p, curDir) == s
Restore(s, p, curDir) == [s EXCEPT !.cwd[p] = curDir]

sys_chdir(s, p, path) ==
  LET here  == lookUpForFile(s.cwd[p], sys_getcwd(s, p))
      start == IF path.abs THEN Root ELSE here
      end   == FoldLeft(LAMBDA at, name : Component(at, p, name), At(start, s, p, TRUE), path.names)
      Moved(names) == Result(0, [s EXCEPT !.cwd[p] = names])
      curDir == s.cwd[p]
  IN CASE path = [abs |-> FALSE, names |-> <<"..">>] ->
            IF here # NULL /\ MayEnter(Parent(here)) THEN Moved(FilePath(Parent(here))) ELSE Fail(s)
       [] path = [abs |-> FALSE, names |-> <<".">>] -> Result(0, s)
       [] path = [abs |-> TRUE, names |-> <<>>] -> Moved(FilePath(Root))
       [] OTHER -> IF end.ok THEN Result(0, end.s) ELSE Fail(Restore(end.s, p, curDir))

(* The copy is not counted; the descriptor replaced is closed. *)
sys_dup2(s, p, oldfd, newfd) ==
  LET t == IF s.fds[p][newfd] = NULL THEN s ELSE sys_close(s, p, newfd).s
  IN IF s.fds[p][oldfd] = NULL THEN Fail(s)
     ELSE Result(newfd, [t EXCEPT !.fds[p][newfd] = t.fds[p][oldfd]])

(* The second loop tests slot i, which is free, and j # i: j is 3, or 4     *)
(* when i is 3, whether that slot is in use or not.                         *)
SecondIsFirst(i) == i
SecondFree(i) == IF i = 3 THEN 4 ELSE 3
sys_pipe(s, p) ==
  LET i == FirstFree(s, p)
      j == SecondFree(i)
      x == SparePipe(s)
      d == Spare(s)
      t == [s EXCEPT !.desc[d] = NewFd("PIPEREAD", 0, NULL, x),
                     !.pipes[x] = OpenPipe]
      e == Spare(t)
  IN IF i = NumSlots THEN Fail(s)
     ELSE [ret |-> 0, file_desc |-> <<i, j>>, pipe |-> x,
           s |-> [t EXCEPT !.desc[e] = NewFd("PIPEWRITE", 0, NULL, x),
                           !.fds[p][i] = d, !.fds[p][j] = e]]

(* How many slots of p lead to d. *)
SlotsOf(s, p, d) == {i \in Slots : s.fds[p][i] = d}
Recount(s, p, sign) ==
  [d \in Descs |-> IF s.desc[d] = Unused THEN Unused
                   ELSE [s.desc[d] EXCEPT
                           !.refCount = Count(@ + sign * Cardinality(SlotsOf(s, p, d)))]]

(* fork_handler: the child gets the table and the directory of its parent.  *)
ForkUncounted(s, p, c) == [s EXCEPT !.fds[c] = s.fds[p], !.cwd[c] = s.cwd[p]]
ForkFiles(s, p, c) ==
  [s EXCEPT !.fds[c] = s.fds[p], !.cwd[c] = s.cwd[p], !.desc = Recount(s, p, 1)]

(* delete_process: every slot is counted down; nothing is marked closed.    *)
ExitFiles(s, p) ==
  [s EXCEPT !.fds[p] = [i \in Slots |-> NULL], !.cwd[p] = <<>>, !.desc = Recount(s, p, -1)]

(* create_process: the standard descriptors, and the root as current directory. *)
StdFds == [i \in Slots |-> IF i <= 2 THEN i + 1 ELSE NULL]
FilesInit(first) ==
  /\ live = {first}
  /\ k = [fds   |-> [p \in Procs |-> IF p = first THEN StdFds ELSE [i \in Slots |-> NULL]],
          desc  |-> [d \in Descs |-> IF \E i \in Slots : StdFds[i] = d
                                     THEN NewFd("STDFILETYPE", 0, NULL, NULL) ELSE Unused],
          pipes |-> [x \in Pipes |-> OpenPipe],
          cwd   |-> [p \in Procs |-> <<>>]]
=============================================================================
