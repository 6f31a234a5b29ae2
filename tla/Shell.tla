------------------------------- MODULE Shell -------------------------------
(***************************************************************************)
(* The shell and the commands that use files, on the calls of Files: the   *)
(* builtin cd, execute, piping, ls, cat, and a tool that makes any of the  *)
(* calls libc offers on files.  Every step of a process is one system      *)
(* call; processes run in any interleaving.                                *)
(*                                                                         *)
(* mem is what a process remembers; fork copies it.                        *)
(***************************************************************************)
EXTENDS Files

CONSTANTS
  Lines,      \* what the user types: [kind |-> "cd", path] or [kind |-> "run", cmds, bg]
  Paths,      \* paths that are looked up
  ToolPaths, Counts, Offsets, \* what a tool passes to open, read and lseek
  ToolFiles,  \* bound: how many files it has open at a time
  CatSize     \* MAX_FILE_SIZE of cat

(* The places of the programs below; a command that is run starts at the    *)
(* place its file is named after.                                           *)
ShellAt == {"prompt", "cd", "parse", "pipe", "fork", "wait", "waiting", "waited", "closing",
            "stdin", "stdout", "close", "exec", "wait path", "waiting path", "path"}
Places == ShellAt \cup {"none", "leave", "readdir", "listed", "cat read"}

ASSUME ShellAssumption ==
  /\ \A line \in Lines :
       \/ line.kind = "cd" /\ line.path \in PathType
       \/ /\ line.kind = "run" /\ line.bg \in BOOLEAN /\ line.cmds # <<>>
          /\ line.cmds \in Seq([name : PathType, args : Seq(PathType)])
  /\ Paths \cup ToolPaths \subseteq PathType /\ Counts \subseteq Nat /\ Offsets \subseteq Int
  /\ CatSize \in Nat
  /\ \A a \in Archives : \A i \in 1 .. Len(a) : a[i].elf => Last(a[i].name) \notin Places

VARIABLES
  pc, mem,
  parentPCB,  \* NULL when the parent has exited
  fileName,   \* the name of the running program, as execve got it
  image       \* the header of the program itself

vars == <<archive, tree, k, live, pc, mem, parentPCB, fileName, image>>

(* What the shell keeps of a line: its commands, how far it is (index), its *)
(* pipes; what a command keeps: arguments, a descriptor, what it printed.   *)
Fresh(line) == [line |-> line, index |-> 0, pipesfd |-> <<>>, pipes |-> <<>>, fd |-> NULL,
                args |-> <<>>, out |-> <<>>, ret |-> 0, bg |-> FALSE]
PipesCount(m) == Len(m.line.cmds) - 1
Command(m) == m.line.cmds[m.index + 1]

FreePcbs == {p \in Procs : pc[p] = "none"}
Goto(p, l) == pc' = [pc EXCEPT ![p] = l]
SameProcesses == UNCHANGED <<archive, tree, live, parentPCB, fileName, image>>

(* A call with result r that goes on at l, with memory m. *)
Step(p, r, l, m) ==
  /\ k' = Settled(r.s) /\ Goto(p, l) /\ mem' = [mem EXCEPT ![p] = m]
  /\ SameProcesses
Go(p, l, m) == Step(p, Result(0, k), l, m)

Fork(p, l, childAt) ==
  /\ FreePcbs # {}
  /\ LET c == Min(FreePcbs) IN
     /\ k' = ForkFiles(k, p, c) /\ live' = live \cup {c}
     /\ pc' = [pc EXCEPT ![p] = l, ![c] = childAt]
     /\ mem' = [mem EXCEPT ![c] = mem[p]]
     /\ parentPCB' = [parentPCB EXCEPT ![c] = p]
     /\ fileName' = [fileName EXCEPT ![c] = fileName[p]]
     /\ image' = [image EXCEPT ![c] = image[p]]
  /\ UNCHANGED tarfs

Woken(l) == CASE l = "waiting" -> "waited" [] l = "waiting path" -> "leave" [] OTHER -> l

(* exit, or the death of a process: the parent's waitpid(-1) returns.       *)
Leave(p) ==
  LET up == parentPCB[p] IN
  /\ k' = Settled(ExitFiles(k, p)) /\ live' = live \ {p}
  /\ pc' = [x \in Procs |-> CASE x = p -> "none" [] x = up -> Woken(pc[x]) [] OTHER -> pc[x]]
  /\ mem' = [mem EXCEPT ![p] = NULL]
  /\ parentPCB' = [x \in Procs |-> IF p \in {x, parentPCB[x]} THEN NULL ELSE parentPCB[x]]
  /\ fileName' = [fileName EXCEPT ![p] = NULL] /\ image' = [image EXCEPT ![p] = NULL]
  /\ UNCHANGED tarfs

Waitpid(p, blocked, l) ==
  Go(p, IF \E c \in live : parentPCB[c] = p THEN blocked ELSE l, mem[p])

(* execve of a program found at path: the name is stored as it was given.   *)
(* With "&" the parent stops waiting.                                       *)
Execve(p, path) ==
  LET file == getFile(k.cwd[p], path)
      up   == parentPCB[p]
  IN /\ checkELF(k.cwd[p], path)
     /\ pc' = [x \in Procs |->
                 CASE x = p -> Last(FilePath(file))
                   [] x = up /\ mem[p].bg -> Woken(pc[x])
                   [] OTHER -> pc[x]]
     /\ mem' = [mem EXCEPT ![p] = [Fresh(NULL) EXCEPT !.args = Command(mem[p]).args,
                                                      !.index = mem[p].index,
                                       !.pipes = mem[p].pipes, !.bg = mem[p].bg]]
     /\ fileName' = [fileName EXCEPT ![p] = path] /\ image' = [image EXCEPT ![p] = file]
     /\ UNCHANGED <<archive, tree, k, live, parentPCB>>

-----------------------------------------------------------------------------
(* bin/shell: main, execute and piping.                                    *)

(* Bounds: the user waits for a command in the foreground, and types no     *)
(* pipeline while a background job runs.                                    *)
ReadLine(p) ==
  /\ pc[p] = "prompt"
  /\ \A c \in live \ {p} : mem[c].bg
  /\ \E line \in Lines :
       /\ line.kind = "run" /\ Len(line.cmds) > 1 => live = {p}
       /\ Go(p, IF line.kind = "cd" THEN "cd" ELSE "parse",
             [Fresh(line) EXCEPT !.bg = line.kind = "run" /\ line.bg])

(* getCommands and getArguments: the words of the line, on the heap. *)
Parse(p) ==
  /\ pc[p] = "parse"
  /\ Go(p, IF PipesCount(mem[p]) = 0 THEN "fork" ELSE "pipe", mem[p])

ChangeDirectory(p) ==
  /\ pc[p] = "cd"
  /\ LET r == sys_chdir(k, p, mem[p].line.path)
     IN Step(p, r, "prompt", [Fresh(NULL) EXCEPT !.ret = r.ret])

(* One pipe for each "|"; the shell exits when one cannot be made. *)
MakePipes(p) ==
  /\ pc[p] = "pipe"
  /\ LET m == mem[p]
         r == sys_pipe(k, p)
     IN IF Len(m.pipes) = PipesCount(m) THEN Go(p, "fork", m)
        ELSE IF r.ret = -1 THEN Go(p, "leave", m)
        ELSE Step(p, r, "pipe", [m EXCEPT !.pipesfd = @ \o r.file_desc, !.pipes = Append(@, r.pipe)])

ForkCommand(p) ==
  pc[p] = "fork" /\ Fork(p, "wait", IF PipesCount(mem[p]) = 0 THEN "exec" ELSE "stdin")
Wait(p) == pc[p] = "wait" /\ Waitpid(p, "waiting", "waited")

(* The next command of the pipeline, whose writer is closed before.         *)
NextCommand(p) ==
  /\ pc[p] = "waited"
  /\ LET m == mem[p]
         next == [m EXCEPT !.index = @ + 1]
     IN IF PipesCount(m) = 0 THEN Go(p, "prompt", Fresh(NULL))
        ELSE IF m.index < PipesCount(m)
        THEN Step(p, sys_close(k, p, m.pipesfd[2 * m.index + 2]), "fork", next)
        ELSE Go(p, "closing", [m EXCEPT !.index = 0])

ClosePipes(p) ==
  /\ pc[p] = "closing"
  /\ LET m == mem[p] IN
     IF m.index = Len(m.pipesfd) THEN Go(p, "prompt", Fresh(NULL))
     ELSE Step(p, sys_close(k, p, m.pipesfd[m.index + 1]), "closing", [m EXCEPT !.index = @ + 1])

(* The child of a pipeline connects its standard descriptors. *)
ConnectInput(p) ==
  /\ pc[p] = "stdin"
  /\ LET m == mem[p]
         r == sys_dup2(k, p, m.pipesfd[2 * m.index - 1], 0)
     IN IF m.index = 0 THEN Go(p, "stdout", m)
        ELSE IF r.ret = -1 THEN Go(p, "leave", m) ELSE Step(p, r, "stdout", m)

ConnectOutput(p) ==
  /\ pc[p] = "stdout"
  /\ LET m == mem[p]
     IN IF m.index = PipesCount(m) THEN Go(p, "close", m)
        ELSE Step(p, sys_dup2(k, p, m.pipesfd[2 * m.index + 2], 1), "close", m)

CloseInput(p) ==
  /\ pc[p] = "close"
  /\ LET m == mem[p]
     IN IF m.index = 0 THEN Go(p, "exec", m)
        ELSE Step(p, sys_close(k, p, m.pipesfd[2 * m.index - 1]), "exec", m)

(* execve of the name as typed; when that fails, a child of the child tries *)
(* PATH, which init sets to /bin.                                           *)
ExecTyped(p) ==
  /\ pc[p] = "exec"
  /\ LET path == Command(mem[p]).name
     IN IF checkELF(k.cwd[p], path) THEN Execve(p, path) ELSE Fork(p, "wait path", "path")

(* "/bin/" before an absolute name has an empty component. *)
getPathsAppendedWithCommand(path) ==
  [abs |-> TRUE, names |-> <<"bin">> \o (IF path.abs THEN <<"">> ELSE <<>>) \o path.names]
ExecPath(p) ==
  /\ pc[p] = "path"
  /\ LET path == getPathsAppendedWithCommand(Command(mem[p]).name)
     IN IF checkELF(k.cwd[p], path) THEN Execve(p, path) ELSE Go(p, "leave", mem[p])

WaitPath(p) == pc[p] = "wait path" /\ Waitpid(p, "waiting path", "leave")

-----------------------------------------------------------------------------
(* The commands.                                                           *)

(* bin/ls: opendir of its argument or of the current directory, readdir     *)
(* until it returns NULL, exit without closedir.                            *)
OpenDir(p) ==
  /\ pc[p] = "ls"
  /\ LET m == mem[p]
         path == IF m.args = <<>> THEN sys_getcwd(k, p) ELSE m.args[1]
         r == sys_open(k, p, path, "O_DIRECTORY")
     IN Step(p, r, IF r.ret = -1 THEN "leave" ELSE "readdir", [m EXCEPT !.fd = r.ret])

ReadDir(p) ==
  /\ pc[p] = "readdir"
  /\ LET r == sys_getdents(k, p, mem[p].fd)
     IN IF r.ret = 0 THEN Step(p, r, "listed", mem[p])
        ELSE Step(p, r, "readdir", [mem[p] EXCEPT !.out = Append(@, r.d_name)])

Listed(p) == pc[p] = "listed" /\ Go(p, "leave", mem[p])

(* bin/cat: one read of each file, none is closed.  Without arguments it    *)
(* reads a line (Terminal, Pipe).                                           *)
Cat(p) ==
  /\ pc[p] = "cat"
  /\ LET m == mem[p]
         r == sys_open(k, p, Head(m.args), "O_RDONLY")
     IN IF m.args = <<>> THEN Go(p, "leave", m)
        ELSE Step(p, r, IF r.ret = -1 THEN "cat" ELSE "cat read",
                  [m EXCEPT !.fd = r.ret, !.args = Tail(@)])

CatRead(p) ==
  /\ pc[p] = "cat read"
  /\ Step(p, sys_read(k, p, mem[p].fd, CatSize), "cat", mem[p])

OpenFiles(p) == {i \in Slots : k.fds[p][i] # NULL /\ k.desc[k.fds[p][i]].fdType = "TARFILE"}

(* Any program.  It closes what it alone has open: a close of a descriptor  *)
(* shared since a fork leaves the slot in use (see README).  Bound: it exits *)
(* after its children.                                                      *)
Tool(p) ==
  /\ pc[p] = "tool"
  /\ \/ /\ Cardinality(OpenFiles(p)) < ToolFiles
        /\ \E path \in ToolPaths : Step(p, sys_open(k, p, path, "O_RDONLY"), "tool", mem[p])
     \/ \E fd \in OpenFiles(p) :
          \/ \E n \in Counts : Step(p, sys_read(k, p, fd, n), "tool", mem[p])
          \/ \E n \in Offsets, whence \in {"SEEK_SET", "SEEK_CUR", "SEEK_END"} :
               /\ whence = "SEEK_CUR" => k.desc[k.fds[p][fd]].offset <= CatSize \* bound
               /\ Step(p, sys_lseek(k, p, fd, n, whence), "tool", mem[p])
          \/ /\ k.desc[k.fds[p][fd]].refCount = 1
             /\ Step(p, sys_close(k, p, fd), "tool", mem[p])
     \/ Fork(p, "tool", "tool")
     \/ Waitpid(p, "tool", "leave")

Exit(p) == pc[p] = "leave" /\ Leave(p)

(* Where a program touches memory for the first time: it calls malloc. *)
Touches(p) ==
  \/ pc[p] \in {"parse", "ls", "cat", "tool"}
  \/ pc[p] = "exec" /\ ~checkELF(k.cwd[p], Command(mem[p]).name)

(* copyELF, at any page fault, looks the running program up by its name,    *)
(* from the directory the process is in now.  There is no header at the     *)
(* address getFile returns on failure: the process is killed.               *)
FaultKilled(p) == Touches(p) /\ getFile(k.cwd[p], fileName[p]) = NULL /\ Leave(p)

Init ==
  /\ Boot
  /\ LET first == Min(Procs)
         shell == [abs |-> FALSE, names |-> <<"bin", "shell">>]
         Only(v) == [p \in Procs |-> IF p = first THEN v ELSE NULL]
     IN /\ FilesInit(first)
        /\ pc = [p \in Procs |-> IF p = first THEN "prompt" ELSE "none"]
        /\ mem = Only(Fresh(NULL)) /\ parentPCB = [p \in Procs |-> NULL]
        /\ fileName = Only(shell) /\ image = Only(getFile(<<>>, shell))

(* Bound: the session ends with its shell. *)
Next ==
  Min(Procs) \in live /\ \E p \in live :
    \/ ReadLine(p) \/ Parse(p) \/ ChangeDirectory(p) \/ MakePipes(p) \/ ForkCommand(p) \/ Wait(p)
    \/ NextCommand(p) \/ ClosePipes(p)
    \/ ConnectInput(p) \/ ConnectOutput(p) \/ CloseInput(p) \/ ExecTyped(p) \/ ExecPath(p)
    \/ WaitPath(p)
    \/ OpenDir(p) \/ ReadDir(p) \/ Listed(p) \/ Cat(p) \/ CatRead(p) \/ Tool(p)
    \/ Exit(p) \/ FaultKilled(p)

Spec == Init /\ [][Next]_vars

-----------------------------------------------------------------------------
(* Properties.                                                             *)

(* Types of the variables. *)
TypeOK ==
  /\ archive \in Archives /\ live \subseteq Procs
  /\ \A p \in Procs : /\ (p \in live) = (pc[p] # "none")
                      /\ k.fds[p] \in [Slots -> Descs \cup {NULL}]
                      /\ parentPCB[p] \in Procs \cup {NULL}
  /\ \A d \in Descs : k.desc[d] # Unused =>
       /\ k.desc[d].fdType \in {"STDFILETYPE", "TARFILE", "PIPEREAD", "PIPEWRITE"}
       /\ k.desc[d].refCount \in 0 .. W64 - 1 /\ k.desc[d].offset \in 0 .. W64 - 1

(* Walking the tree finds exactly the files the archive has up to           *)
(* lib/libc.a, from every directory a process is in, and the search of      *)
(* getFile through the archive ends at the header the tree has.             *)
LookupsAgree ==
  \A p \in live : \A path \in Paths :
    LET full == IF path.abs THEN path.names ELSE k.cwd[p] \o path.names
        node == lookUpForFile(k.cwd[p], path)
    IN /\ node = NodeNamed(full)
       /\ node \notin {NULL, Root} => getFile(k.cwd[p], path) = node

(* cd ends in the directory the path names, "." and ".." understood, or     *)
(* leaves the shell where it was, when some directory on the way is missing *)
(* or may not be entered: although the current directory moves along with   *)
(* the components, and is put back on failure.                              *)
ChdirResolves ==
  [][\A p \in live : pc[p] = "cd" /\ pc'[p] = "prompt" =>
       LET node == Resolve(k.cwd[p], mem[p].line.path)
       IN IF node = NULL THEN mem'[p].ret = -1 /\ k'.cwd[p] = k.cwd[p]
          ELSE mem'[p].ret = 0 /\ k'.cwd[p] = FilePath(node)]_vars

(* The count of a standard descriptor or of a file is the number of slots   *)
(* of living processes that lead to it, across fork, exit, dup2 over a      *)
(* standard descriptor, close and death, in every interleaving.             *)
SharersCounted ==
  \A d \in Descs :
    k.desc[d] # Unused /\ k.desc[d].fdType \in {"STDFILETYPE", "TARFILE"} =>
      k.desc[d].refCount = Cardinality({x \in live \X Slots : k.fds[x[1]][x[2]] = d})

(* ls prints each entry of the directory once, in the order of the archive: *)
(* each at the place that is the number of entries up to it.                *)
ListingExact ==
  \A p \in live : pc[p] = "listed" =>
    LET m    == mem[p]
        path == IF m.args = <<>> THEN k.cwd[p]
                ELSE IF m.args[1].abs THEN m.args[1].names ELSE k.cwd[p] \o m.args[1].names
        entries == {n \in DOMAIN Headers(archive) : Front(FilePath(n)) = path}
    IN /\ Len(m.out) = Cardinality(entries)
       /\ \A n \in entries : m.out[Cardinality({e \in entries : e <= n})] = Last(FilePath(n))

(* Each command of a pipeline runs with its standard descriptors on the     *)
(* right ends of the pipes made for its line: also when the slots of        *)
(* earlier pipelines were never freed, and their counts are wrong.          *)
Connected(p) ==
  LET m == mem[p]
      File(fd) == k.desc[k.fds[p][fd]]
      OnPipe(fd, type, i) == File(fd).fdType = type /\ File(fd).pipe_ptr = m.pipes[i]
      Standard(fd) == File(fd).fdType = "STDFILETYPE"
  IN /\ IF m.index = 0 THEN Standard(0) ELSE OnPipe(0, "PIPEREAD", m.index)
     /\ IF m.index = Len(m.pipes) THEN Standard(1) ELSE OnPipe(1, "PIPEWRITE", m.index + 1)
PipelineConnected ==
  \A p \in live : pc[p] \in {"ls", "readdir", "listed", "cat", "cat read"} => Connected(p)

(* A process can find its own program, so that its pages can be filled.     *)
ImageFound == \A p \in live : getFile(k.cwd[p], fileName[p]) = image[p]
=============================================================================
