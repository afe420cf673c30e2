------------------------------ MODULE MCFileOps ------------------------------
(* FileOps on a tree with two directories and a third name for one of them. *)
EXTENDS FileOps

D  == <<"d">>
E  == <<"e">>
M  == <<"f">>                     \* bound to /d
DF == <<"d", "f">>
DD == <<"d", "d">>
DDF == <<"d", "d", "f">>
EF == <<"e", "f">>

MCNames == {"d", "e", "f"}

MCTrees == {[p \in {D, E, DD, DF, DDF} |-> IF p \in {DF, DDF} THEN File(<<"old">>) ELSE Dir]}

C(op, src, dst) == [op |-> op, src |-> src, dst |-> dst]

MCCalls ==
  [a1 |-> {C("mv", DF, E), C("mv", DF, <<"f", "f">>), C("mv", DF, D), C("mv", DD, E), C("mv", M, E),
           C("mv", DF, <<"d", "e">>), C("cp", DF, EF), C("cp", DD, E), C("cp", DD, <<"f", "d">>),
           C("cp", D, DD), C("rmdir_r", D, <<>>), C("append", DF, <<>>), C("envslice", E, <<>>),
           C("find", D, <<>>), C("ls", M, <<>>), C("checkout", D, <<>>), C("screen", DF, <<>>)},
   a2 |-> {C("mv", EF, DF), C("rm", DF, <<>>), C("rm", EF, <<>>), C("rmdir", E, <<>>),
           C("mkdir", <<"e", "d">>, <<>>), C("write", DF, <<>>), C("append", DF, <<>>),
           C("cat", DF, <<>>), C("setenv", EF, <<>>), C("unsetenv", EF, <<>>), C("getenv", EF, <<>>), C("getenv", DF, <<>>), C("unsetenv", DF, <<>>),
           C("screen", <<"f", "f">>, <<>>)}]
=============================================================================
