------------------------------- MODULE Tarfs -------------------------------
(***************************************************************************)
(* The file system: a tar archive linked into the kernel, and the tree     *)
(* that setupHeirarchyOfTarfs builds over its headers at boot.             *)
(*                                                                         *)
(* A name is the sequence of its components.  A node is the position of    *)
(* its header in the archive, 0 for tarfsroot.  The child and next links   *)
(* of struct tar_file are the sequence of a node's children, in the order  *)
(* of the links.                                                           *)
(***************************************************************************)
EXTENDS Integers, Sequences, SequencesExt

CONSTANT Archives   \* the archives the kernel may be linked with

ASSUME ArchivesAssumption ==
  \A a \in Archives :
    a \in Seq([name : Seq(STRING), fileType : {"dir", "file"}, executable : BOOLEAN,
              elf : BOOLEAN, fileSize : Nat])

(* The Makefile archives what find lists: a directory before its contents.  *)
ASSUME ParentsFirst ==
  \A a \in Archives : \A i \in 1 .. Len(a) :
    /\ Len(a[i].name) >= 1
    /\ Len(a[i].name) > 1 => \E j \in 1 .. i - 1 :
         a[j].name = Front(a[i].name) /\ a[j].fileType = "dir"
    /\ \A j \in 1 .. Len(a) : a[j].name = a[i].name => j = i

VARIABLES
  archive,  \* the headers: name, fileType, executable (mode 755), elf, fileSize
  tree      \* [children |-> ..., parent |-> ...], functions of the nodes

tarfs == <<archive, tree>>

NULL == -1
Root == 0
NodesOf(a) == 0 .. Len(a)
LastOne == <<"lib", "libc.a">>

(* fileName, filePath, fileType and filePerm of a node. *)
FileNameIn(a, node) == IF node = Root THEN "/" ELSE Last(a[node].name)
FilePath(node) == IF node = Root THEN <<>> ELSE archive[node].name
FileType(node) == IF node = Root THEN "dir" ELSE archive[node].fileType
Is755(node) == node = Root \/ archive[node].executable

(* The siblings are compared one by one; NULL is the end of the list. *)
ChildBeforeLast(a, t, node, name) ==
  LET found == {i \in 1 .. Len(t.children[node]) - 1 :
                  FileNameIn(a, t.children[node][i]) = name}
  IN IF found = {} THEN NULL
     ELSE t.children[node][CHOOSE i \in found : \A j \in found : i <= j]
ChildNamed(a, t, node, name) ==
  LET found == {i \in 1 .. Len(t.children[node]) :
                  FileNameIn(a, t.children[node][i]) = name}
  IN IF found = {} THEN NULL
     ELSE t.children[node][CHOOSE i \in found : \A j \in found : i <= j]

(* From a node down, one level for each name. *)
Descend(a, t, node, names) ==
  FoldLeft(LAMBDA at, name : IF at = NULL THEN NULL ELSE ChildNamed(a, t, at, name),
           node, names)

(* A header becomes the last child of the node its directory names.         *)
InsertFirst(a, t, i) ==
  LET up == Descend(a, t, Root, Front(a[i].name))
  IN [children |-> [t.children EXCEPT ![up] = <<i>> \o @],
      parent   |-> [t.parent EXCEPT ![i] = up]]
Insert(a, t, i) ==
  LET up == Descend(a, t, Root, Front(a[i].name))
  IN [children |-> [t.children EXCEPT ![up] = Append(@, i)],
      parent   |-> [t.parent EXCEPT ![i] = up]]

(* The headers are read up to lib/libc.a.                                   *)
Headers(a) ==
  LET libc == {i \in 1 .. Len(a) : a[i].name = LastOne}
      last == IF libc = {} THEN Len(a) ELSE CHOOSE i \in libc : TRUE
  IN [i \in 1 .. last |-> i]

setupHeirarchyOfTarfs(a) ==
  FoldLeft(LAMBDA t, i : Insert(a, t, i),
           [children |-> [n \in NodesOf(a) |-> <<>>], parent |-> [n \in NodesOf(a) |-> NULL]],
           Headers(a))

Boot == archive \in Archives /\ tree = setupHeirarchyOfTarfs(archive)

(* A path is [abs, names].  A relative one starts at the current directory, *)
(* which is looked up first; "." and ".." are names like any other.         *)
PathType == [abs : BOOLEAN, names : Seq(STRING)]
lookUpForFile(dir, path) ==
  IF path.abs THEN Descend(archive, tree, Root, path.names)
  ELSE LET curNode == Descend(archive, tree, Root, dir)
       IN IF curNode = NULL THEN NULL ELSE Descend(archive, tree, curNode, path.names)

(* getFile looks the file up, then searches the whole archive for the       *)
(* header of that name; what follows the header is the file.                *)
getFile(dir, path) ==
  LET node  == lookUpForFile(dir, path)
      match == {i \in 1 .. Len(archive) : archive[i].name = FilePath(node)}
  IN IF node = NULL \/ match = {} THEN NULL ELSE CHOOSE i \in match : \A j \in match : i <= j

(* The file is an ELF binary. *)
checkELF(dir, path) ==
  LET hdr == getFile(dir, path) IN hdr # NULL /\ archive[hdr].elf

-----------------------------------------------------------------------------
(* What the archive says, without the tree.                                *)

Known == {n \in NodesOf(archive) : n = Root \/ n \in DOMAIN Headers(archive)}
NodeNamed(names) ==
  LET found == {n \in Known : FilePath(n) = names}
  IN IF found = {} THEN NULL ELSE CHOOSE n \in found : TRUE

(* Where a path leads to from a directory, "." and ".." understood, when    *)
(* every directory on the way exists and is accessible; NULL otherwise.     *)
Enter(at, name) ==
  CASE at = NULL -> NULL
    [] at # NULL /\ name = "."  -> at
    [] at # NULL /\ name = ".." -> NodeNamed(IF at = Root THEN <<>> ELSE Front(FilePath(at)))
    [] OTHER -> LET n == NodeNamed(Append(FilePath(at), name))
                IN IF n # NULL /\ FileType(n) = "dir" /\ Is755(n) THEN n ELSE NULL
Resolve(dir, path) ==
  FoldLeft(Enter, IF path.abs THEN Root ELSE NodeNamed(dir), path.names)
=============================================================================
