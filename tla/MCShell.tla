------------------------------ MODULE MCShell ------------------------------
(***************************************************************************)
(* Instances of Shell: two orders of an archive, and the lines typed.      *)
(***************************************************************************)
EXTENDS Shell

Dir(name)         == [name |-> name, fileType |-> "dir", executable |-> TRUE, elf |-> FALSE, fileSize |-> 0]
Program(name)     == [name |-> name, fileType |-> "file", executable |-> TRUE, elf |-> TRUE, fileSize |-> 4]
Text(name, size)  == [name |-> name, fileType |-> "file", executable |-> FALSE, elf |-> FALSE, fileSize |-> size]
Locked(name)      == [Dir(name) EXCEPT !.executable = FALSE]

Bin == <<Dir(<<"bin">>), Program(<<"bin", "cat">>), Program(<<"bin", "ls">>),
         Program(<<"bin", "shell">>), Program(<<"bin", "tool">>)>>
Kav == <<Dir(<<"kavtest">>), Dir(<<"kavtest", "dir2">>), Text(<<"kavtest", "test.txt">>, 3),
         Locked(<<"kavtest", "testdir">>), Dir(<<"kavtest", "testdir", "bin">>)>>
Lib == <<Dir(<<"lib">>), Text(<<"lib", "libc.a">>, 5)>>
Mnt == <<Dir(<<"mnt">>)>>

TwoArchives == {Bin \o Kav \o Lib \o Mnt, Kav \o Mnt \o Bin \o Lib}

Rel(names) == [abs |-> FALSE, names |-> names]
Abs(names) == [abs |-> TRUE, names |-> names]

Cd(path) == [kind |-> "cd", path |-> path]
Run(name, args, bg) == [kind |-> "run", cmds |-> <<[name |-> name, args |-> args]>>, bg |-> bg]
Piped(a, b) == [kind |-> "run", bg |-> FALSE,
                cmds |-> <<[name |-> a, args |-> <<>>], [name |-> b, args |-> <<>>]>>]

Ls == Rel(<<"ls">>)
Session ==
  {Cd(Rel(<<"..">>)), Cd(Rel(<<"kavtest">>)), Cd(Rel(<<"..", "mnt">>)),
   Cd(Abs(<<"kavtest", ".", "testdir">>)), Cd(Rel(<<".">>)), Cd(Abs(<<>>)),
   Run(Ls, <<>>, FALSE), Run(Abs(<<"bin", "cat">>), <<>>, TRUE), Run(Abs(<<"bin", "ls">>), <<Rel(<<"testdir">>)>>, FALSE),
   Run(Rel(<<"bin", "cat">>), <<Rel(<<"test.txt">>), Abs(<<"kavtest", "test.txt">>)>>, FALSE),
   Run(Abs(<<"bin", "tool">>), <<>>, FALSE),
   Piped(Ls, Abs(<<"bin", "cat">>))}
SomePaths == {Abs(<<"kavtest", "test.txt">>), Rel(<<"mnt">>), Rel(<<"..">>), Abs(<<"bin", "ls">>)}
Opened == {Abs(<<"kavtest", "test.txt">>)}
=============================================================================
