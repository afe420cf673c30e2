------------------------------- MODULE FileOps -------------------------------
(***************************************************************************)
(* The builtins that change or read files of the namespace: mv, cp, rm,    *)
(* rmdir, mkdir, write, append, cat, find, ls, checkout, a full-screen     *)
(* command on a namespace file, and the variables of /env.                 *)
(*                                                                         *)
(* Each is a script of 9P calls on one tree; an actor (the prompt, a       *)
(* closure running in the background, a peer) makes them one at a time, so *)
(* the calls of two actors interleave, and any call may fail.  A bind      *)
(* gives part of the tree a second name.                                   *)
(*                                                                         *)
(* A walk, with the lookups it ends in, is one step; so is reading a file  *)
(* to its end.  The file server (dirfs of package 9p) is modelled by what  *)
(* its callers rely on: a rename replaces a file, a Remove of a directory  *)
(* that is not empty fails, a write to a file that is gone is lost.        *)
(***************************************************************************)
EXTENDS Naturals, SequencesExt, FiniteSets

CONSTANTS
  Actors,
  Names,      (* of entries                                                 *)
  MaxDepth,   (* bound: length of a path                                    *)
  MaxLen,     (* bound: length of a file, in chunks                         *)
  BindAt, BindTo,   (* `bind BindTo, BindAt` has been executed              *)
  Trees,      (* the trees there may be at first                            *)
  Calls,      (* the calls each actor may make: [op, src, dst]              *)
  MaxCalls,   (* bound: calls in all                                        *)
  MaxFails    (* bound: 9P calls that fail for a reason of their own        *)

Paths == UNION {[1 .. n -> Names] : n \in 1 .. MaxDepth}
Chunks == {"old", "other"} \cup Actors      (* an actor writes its own name *)

Absent     == [kind |-> "absent", data |-> <<>>]
Dir        == [kind |-> "dir",    data |-> <<>>]
File(data) == [kind |-> "file",   data |-> data]

\* The node of tree t at the real path p.
Node(t, p) == IF p = <<>> THEN Dir ELSE IF p \in DOMAIN t THEN t[p] ELSE Absent

\* t has an entry only where there is a directory for it.
WellFormed(t) ==
  /\ DOMAIN t \subseteq Paths
  /\ \A p \in DOMAIN t :
       /\ t[p] = Dir \/ (t[p] = File(t[p].data) /\ t[p].data \in Seq(Chunks) /\ Len(t[p].data) <= MaxLen)
       /\ Node(t, Front(p)).kind = "dir"

Ops == {"mv", "cp", "rm", "rmdir", "rmdir_r", "mkdir", "write", "append", "cat", "find", "ls",
        "setenv", "getenv", "unsetenv", "envslice", "checkout", "screen"}

ASSUME FileOpsAssumption ==
  /\ IsFiniteSet(Names)
  /\ BindAt \in Paths /\ BindTo \in Paths
  /\ \A a \in Actors : Calls[a] \subseteq [op : Ops, src : Seq(Names), dst : Seq(Names)]
  /\ \A t \in Trees : WellFormed(t)
  /\ MaxLen \in Nat /\ MaxCalls \in Nat /\ MaxFails \in Nat

VARIABLES
  tree,      (* the real paths there are -> node                            *)
  act,       (* per actor: its call, the 9P calls still to make, its locals *)
  before,    (* per actor: the tree its call found                          *)
  meddled,   (* per actor: another has changed what its call is about       *)
  calls, fails

vars == <<tree, act, before, meddled, calls, fails>>

Idle ==
  [call |-> [op |-> "none", src |-> <<>>, dst |-> <<>>], todo |-> <<>>, buf |-> <<>>, at |-> 0,
   out |-> {}, scratch |-> <<>>, snap |-> <<>>, edited |-> {}, res |-> "none"]

Init ==
  /\ tree \in Trees
  /\ act = [a \in Actors |-> Idle]
  /\ before = [a \in Actors |-> tree]
  /\ meddled = [a \in Actors |-> FALSE]
  /\ calls = 0 /\ fails = 0

-----------------------------------------------------------------------------
(* Names and what they stand for.                                          *)

\* p is dir itself, or lies beneath it.
IsWithin(p, dir) == IsPrefix(dir, p)

Below(p, dir) == SubSeq(p, Len(dir) + 1, Len(p))

\* The path in the tree that the namespace path p walks to.
Walk(p) == IF IsWithin(p, BindAt) THEN BindTo \o Below(p, BindAt) ELSE p

Kind(p) == Node(tree, Walk(p)).kind
Data(p) == Node(tree, Walk(p)).data
Exists(p) == Kind(p) # "absent"

\* The names in directory p, in the order they are visited.
Entries(p) == SetToSeq({n \in Names : Exists(p \o <<n>>)})

Set(p, node) ==
  tree' = [q \in DOMAIN tree \cup {Walk(p)} |-> IF q = Walk(p) THEN node ELSE tree[q]]
Unset(p)     == tree' = [q \in DOMAIN tree \ {Walk(p)} |-> tree[q]]

\* Create of an entry named by the last element of p.  At a mount point whose target is
\* gone it is taken to fail.
CanCreate(p) == ~Exists(p) /\ p # BindAt /\ Kind(Front(p)) = "dir" /\ Walk(p) \in Paths

\* Of a directory of the tree, whatever is bound in it.
EmptyAt(s) == \A q \in DOMAIN tree : IsWithin(q, s) => q = s

-----------------------------------------------------------------------------
(* The scripts.  A task is one call; todo is a stack of them.              *)

Task(do, s, d) == [do |-> do, s |-> s, d |-> d]
On(do, p)      == Task(do, p, p)

\* resolveOrCreate, the refusal of a directory, Open(OWRITE|OTRUNC), Write.
Overwrite(p) == <<On("create", p), On("trunc", p), On("put", p)>>

\* An existing directory as a destination means an entry in it.
IntoDir(src, dst) ==
  IF src # <<>> /\ dst # <<>> /\ Kind(dst) = "dir" THEN dst \o <<Last(src)>> ELSE dst

\* The check is lexical.
SelfTransfer(src, dst, into) ==
  \/ Kind(src) = "dir" /\ IsWithin(into, src)
  \/ into # dst /\ src = into

Refused == <<Task("refuse", <<>>, <<>>)>>

CpScript(src, dst) ==
  LET into == IntoDir(src, dst) IN
  IF ~Exists(src) \/ dst = <<>> \/ SelfTransfer(src, dst, into) THEN Refused
  ELSE IF Kind(src) = "dir"
       THEN IF Exists(into) \/ ~Exists(Front(into)) THEN Refused
            ELSE <<Task("copydir", src, into)>>
       ELSE <<On("read", src)>> \o Overwrite(into)

\* Mutant: the source is removed before the copy is written.
MvScriptEager(src, dst) ==
  LET into == IntoDir(src, dst) IN
  IF src = <<>> \/ ~Exists(src) \/ dst = <<>> \/ SelfTransfer(src, dst, into) THEN Refused
  ELSE IF Front(src) = Front(into) /\ ~(Kind(src) = "dir" /\ Exists(into))
       THEN <<Task("rename", src, into)>>
       ELSE IF Kind(src) = "dir"
            THEN IF Exists(into) \/ ~Exists(Front(into)) THEN Refused
                 ELSE <<Task("copydir", src, into), On("rmtree", src)>>
            ELSE <<On("read", src), On("remove", src)>> \o Overwrite(into)

\* Within one directory a rename; otherwise a copy, and then the source goes.
MvScript(src, dst) ==
  LET into == IntoDir(src, dst) IN
  IF src = <<>> \/ ~Exists(src) \/ dst = <<>> \/ SelfTransfer(src, dst, into) THEN Refused
  ELSE IF Kind(src) = "dir" /\ Exists(into) THEN Refused
  ELSE IF Front(src) = Front(into) THEN <<Task("rename", src, into)>>
  ELSE IF Kind(src) = "dir"
       THEN IF ~Exists(Front(into)) THEN Refused
            ELSE <<Task("copydir", src, into), On("rmtree", src)>>
       ELSE <<On("read", src)>> \o Overwrite(into) \o <<On("remove", src)>>

RmScript(p) == IF p # <<>> /\ Kind(p) = "file" THEN <<On("remove", p)>> ELSE Refused

RmdirScript(p, recursive) ==
  IF p = <<>> \/ Kind(p) # "dir" THEN Refused
  ELSE IF recursive THEN <<On("rmtree", p)>> ELSE <<On("remove", p)>>

\* Every missing directory on the way is made.
MkdirScript(p) ==
  IF p = <<>> THEN Refused ELSE [i \in 1 .. Len(p) |-> On("mkdir", SubSeq(p, 1, i))]

WriteScript(p) == IF p = <<>> THEN Refused ELSE <<On("create", p), On("trunc", p), On("put", p)>>

\* Mutant: append opens the file like write.
AppendScriptTrunc(p) == WriteScript(p)

\* The offset is the length that a Stat reported before the open.
AppendScript(p) ==
  IF p = <<>> THEN Refused ELSE <<On("create", p), On("stat", p), On("put", p)>>

CatScript(p) == IF Kind(p) = "file" THEN <<On("read", p)>> ELSE Refused

\* The variables of /env: getenv opens and reads, unsetenv walks and removes, and envSlice
\* walks to /env, lists it, and then opens each name.  (The Attach before is of the root
\* they share, and is taken to succeed; getenv of a directory is taken to be "".)
GetenvScript(p)   == <<On("read", p)>>
UnsetenvScript(p) == <<On("seek", p), On("remove", p)>>
EnvSliceScript(p) == <<On("seek", p), On("slice", p)>>

FindScript(p) == IF Exists(p) THEN <<On("find", p)>> ELSE Refused
LsScript(p)   == IF Exists(p) THEN <<On("ls", p)>> ELSE Refused

\* checkout, and a full-screen command with a namespace file for an argument.
CheckoutScript(p) ==
  IF ~Exists(p) THEN Refused
  ELSE <<IF Kind(p) = "dir" THEN On("matdir", p) ELSE On("matfile", p), On("run", p)>>

Script(c) ==
  CASE c.op = "mv"       -> MvScript(c.src, c.dst)
    [] c.op = "cp"       -> CpScript(c.src, c.dst)
    [] c.op = "rm"       -> RmScript(c.src)
    [] c.op = "unsetenv" -> UnsetenvScript(c.src)
    [] c.op = "rmdir"    -> RmdirScript(c.src, FALSE)
    [] c.op = "rmdir_r"  -> RmdirScript(c.src, TRUE)
    [] c.op = "mkdir"    -> MkdirScript(c.src)
    [] c.op \in {"write", "setenv"} -> WriteScript(c.src)
    [] c.op = "append"   -> AppendScript(c.src)
    [] c.op = "cat"      -> CatScript(c.src)
    [] c.op = "getenv"   -> GetenvScript(c.src)
    [] c.op = "envslice" -> EnvSliceScript(c.src)
    [] c.op = "find"     -> FindScript(c.src)
    [] c.op = "ls"       -> LsScript(c.src)
    [] c.op \in {"checkout", "screen"} -> CheckoutScript(c.src)

\* What a call with two paths is about, once the destination is resolved.
Resolved(c) ==
  IF c.op \in {"mv", "cp"} THEN [c EXCEPT !.dst = IntoDir(c.src, c.dst)] ELSE c

\* A call starts: what its checks and first lookups find decides its script.  Text that
\* write and append are given is the actor's own.
Begin(a, c) ==
  /\ act[a].todo = <<>> /\ calls < MaxCalls
  /\ calls' = calls + 1
  /\ act' = [act EXCEPT ![a] = [Idle EXCEPT !.call = Resolved(c), !.todo = Script(c), !.buf = <<a>>]]
  /\ before' = [before EXCEPT ![a] = tree]
  /\ UNCHANGED <<tree, fails>>

-----------------------------------------------------------------------------
(* The 9P calls.                                                           *)

At(a, do) == act[a].todo # <<>> /\ Head(act[a].todo).do = do
From(a)   == Head(act[a].todo).s
To(a)     == Head(act[a].todo).d

\* The actor's record after a call that leaves tasks more to do first.
Goes(a, local, more) ==
  LET rest == more \o Tail(act[a].todo) IN
  act' = [act EXCEPT ![a] =
            [local EXCEPT !.todo = rest, !.res = IF rest = <<>> THEN "ok" ELSE "none"]]

Next1(a) == Goes(a, act[a], <<>>)

\* Whatever fails, getenv takes for a variable that is not set, and returns "".  A walk that
\* fails is to unsetenv a variable that is not there, and to envSlice no /env at all.
Forgives(a) ==
  \/ act[a].call.op = "getenv"
  \/ act[a].call.op \in {"unsetenv", "envslice"} /\ At(a, "seek")

\* What fails ends the call, with an error unless it is forgiven; the scratch directory of
\* a checkout is removed.
Fail(a) ==
  /\ act' = [act EXCEPT ![a].todo = <<>>, ![a].res = IF Forgives(a) THEN "ok" ELSE "error",
                        ![a].buf = <<>>, ![a].scratch = <<>>, ![a].snap = <<>>]
  /\ UNCHANGED tree

Refuse(a) == At(a, "refuse") /\ Fail(a)

Read(a) ==
  /\ At(a, "read")
  /\ IF Kind(From(a)) = "file"
     THEN Goes(a, [act[a] EXCEPT !.buf = Data(From(a))], <<>>) /\ UNCHANGED tree
     ELSE Fail(a)

Seek(a) ==
  /\ At(a, "seek")
  /\ IF Exists(From(a)) THEN Next1(a) /\ UNCHANGED tree ELSE Fail(a)

Create(a) ==
  /\ At(a, "create")
  /\ \/ Exists(To(a)) /\ Next1(a) /\ UNCHANGED tree
     \/ CanCreate(To(a)) /\ Set(To(a), File(<<>>)) /\ Next1(a)
     \/ ~Exists(To(a)) /\ ~CanCreate(To(a)) /\ Fail(a)

Trunc(a) ==
  /\ At(a, "trunc")
  /\ IF Kind(To(a)) = "file" THEN Set(To(a), File(<<>>)) /\ Next1(a) ELSE Fail(a)

Stat(a) ==
  /\ At(a, "stat")
  /\ IF Kind(To(a)) = "file"
     THEN Goes(a, [act[a] EXCEPT !.at = Len(Data(To(a)))], <<>>) /\ UNCHANGED tree
     ELSE Fail(a)

\* old with new written over it from offset at on; a gap is not modelled further
\* than that the file has grown.
Written(old, new, at) ==
  LET n == IF at + Len(new) > Len(old) THEN at + Len(new) ELSE Len(old) IN
  [i \in 1 .. n |-> IF i > at /\ i <= at + Len(new) THEN new[i - at]
                    ELSE IF i <= Len(old) THEN old[i] ELSE "other"]

Put(a) ==
  /\ At(a, "put")
  /\ Len(Written(Data(To(a)), act[a].buf, act[a].at)) <= MaxLen
  /\ IF Kind(To(a)) = "file"
     THEN Set(To(a), File(Written(Data(To(a)), act[a].buf, act[a].at)))
     ELSE UNCHANGED tree
  /\ Next1(a)

\* Mutant: a directory goes, whatever is in it.
RemoveEntryFull(a) ==
  /\ At(a, "remove")
  /\ IF Exists(From(a)) THEN Unset(From(a)) /\ Next1(a) ELSE Fail(a)

RemoveEntry(a) ==
  /\ At(a, "remove")
  /\ IF Kind(From(a)) = "file" \/ (Kind(From(a)) = "dir" /\ EmptyAt(Walk(From(a))))
     THEN Unset(From(a)) /\ Next1(a)
     ELSE Fail(a)

\* A file replaces a file, and a directory an empty one.
CanReplace(s, d) ==
  \/ s = d
  \/ Node(tree, d).kind \in {"absent", Node(tree, s).kind} /\ EmptyAt(d)

\* WStat with a new Name, which the entry has in the directory it is in.
Rename(a) ==
  /\ At(a, "rename")
  /\ LET s == Walk(From(a))
         d == Front(s) \o <<Last(To(a))>>
         moved == {q \in DOMAIN tree : IsWithin(q, s)}
     IN IF ~Exists(From(a)) \/ ~CanReplace(s, d) THEN Fail(a)
        ELSE /\ tree' = [p \in (DOMAIN tree \ moved) \cup {d \o Below(q, s) : q \in moved} |->
                           IF IsWithin(p, d) THEN tree[s \o Below(p, d)] ELSE tree[p]]
             /\ Next1(a)

\* mkdir goes on over a directory that is there.
Mkdir(a) ==
  /\ At(a, "mkdir")
  /\ \/ Kind(To(a)) = "dir" /\ Next1(a) /\ UNCHANGED tree
     \/ CanCreate(To(a)) /\ Set(To(a), Dir) /\ Next1(a)
     \/ Kind(To(a)) # "dir" /\ ~CanCreate(To(a)) /\ Fail(a)

\* copyDirTree lists the source, makes the copy, then takes entry by entry.
CopyDir(a) ==
  /\ At(a, "copydir")
  /\ IF Kind(From(a)) = "dir" /\ CanCreate(To(a))
     THEN LET names == Entries(From(a)) IN
          /\ Set(To(a), Dir)
          /\ Goes(a, act[a],
                  [i \in DOMAIN names |->
                    Task("copyent", From(a) \o <<names[i]>>, To(a) \o <<names[i]>>)])
     ELSE Fail(a)

CopyEntry(a) ==
  /\ At(a, "copyent")
  /\ IF ~Exists(From(a)) THEN Fail(a)
     ELSE /\ Goes(a, act[a],
                  IF Kind(From(a)) = "dir" THEN <<Task("copydir", From(a), To(a))>>
                  ELSE <<On("read", From(a)), On("new", To(a)), On("put", To(a))>>)
          /\ UNCHANGED tree

New(a) ==
  /\ At(a, "new")
  /\ IF CanCreate(To(a)) THEN Set(To(a), File(<<>>)) /\ Next1(a) ELSE Fail(a)

\* removeTree lists the directory, empties it, and removes it last.
RemoveTree(a) ==
  /\ At(a, "rmtree")
  /\ IF Kind(From(a)) = "dir"
     THEN LET names == Entries(From(a))
              Each(n) == LET p == From(a) \o <<n>> IN
                         On(IF Kind(p) = "dir" THEN "rmtree" ELSE "remove", p)
          IN /\ Goes(a, act[a], [i \in DOMAIN names |-> Each(names[i])] \o <<On("remove", From(a))>>)
             /\ UNCHANGED tree
     ELSE Fail(a)

\* Every descendant, each directory listed when it is reached.
Find(a) ==
  /\ At(a, "find")
  /\ IF Kind(From(a)) = "dir"
     THEN LET dirs == SetToSeq({n \in Names : Kind(From(a) \o <<n>>) = "dir"})
          IN /\ Goes(a, [act[a] EXCEPT !.out = @ \cup {From(a) \o <<n>> : n \in ToSet(Entries(From(a)))}],
                     [i \in DOMAIN dirs |-> On("find", From(a) \o <<dirs[i]>>)])
             /\ UNCHANGED tree
     ELSE Fail(a)

\* One directory, without its descendants; a list of names for glob, with what each
\* Stat says for ls.
Ls(a) ==
  /\ At(a, "ls")
  /\ IF Kind(From(a)) = "dir"
     THEN /\ Goes(a, [act[a] EXCEPT !.out = {From(a) \o <<n>> : n \in ToSet(Entries(From(a)))}], <<>>)
          /\ UNCHANGED tree
     ELSE Fail(a)

\* A variable that is unset between the listing and its turn is an error.
Slice(a) ==
  /\ At(a, "slice")
  /\ IF Kind(From(a)) = "dir"
     THEN LET names == Entries(From(a)) IN
          /\ Goes(a, act[a], [i \in DOMAIN names |-> On("read", From(a) \o <<names[i]>>)])
          /\ UNCHANGED tree
     ELSE Fail(a)

-----------------------------------------------------------------------------
(* Checkout.  scratch and snap map a path below the checked-out one to the *)
(* text of the scratch copy, and to the text it was made with.             *)

MatFile(a) ==
  /\ At(a, "matfile")
  /\ IF Kind(From(a)) = "file"
     THEN LET copy == [r \in {<<>>} |-> Data(From(a))] IN
          Goes(a, [act[a] EXCEPT !.scratch = copy, !.snap = copy], <<>>) /\ UNCHANGED tree
     ELSE Fail(a)

\* materializeDir reads the tree file by file; the files it has yet to read are
\* tasks, as in a copy.
MatDir(a) ==
  /\ At(a, "matdir")
  /\ IF Kind(From(a)) = "dir"
     THEN LET names == Entries(From(a)) IN
          /\ Goes(a, act[a], [i \in DOMAIN names |-> On("matent", From(a) \o <<names[i]>>)])
          /\ UNCHANGED tree
     ELSE Fail(a)

MatEntry(a) ==
  /\ At(a, "matent")
  /\ LET r == Below(From(a), act[a].call.src)
         Add(f) == [q \in DOMAIN f \cup {r} |-> IF q = r THEN Data(From(a)) ELSE f[q]]
     IN \/ Kind(From(a)) = "dir" /\ Goes(a, act[a], <<On("matdir", From(a))>>) /\ UNCHANGED tree
        \/ /\ Kind(From(a)) = "file" /\ UNCHANGED tree
           /\ Goes(a, [act[a] EXCEPT !.scratch = Add(@), !.snap = Add(@)], <<>>)
        \/ ~Exists(From(a)) /\ Fail(a)

\* The files of the scratch directory, to be written back in the order of their names,
\* which may be any.
Backs(a, files) ==
  {[i \in DOMAIN s |-> Task("back", s[i], act[a].call.src \o s[i])] : s \in SetToSeqs(files)}

\* The closure or the program changes some of the files, and may make one, in a new
\* directory or in one there is.  The error of a closure is that of checkout; what a
\* program exits with is not looked at.
Run(a) ==
  /\ At(a, "run")
  /\ \E edit \in SUBSET DOMAIN act[a].snap, new \in {{}} \cup {{<<n>>} : n \in Names} \cup {{<<n, n>>} : n \in Names} :
       /\ new = {} \/ <<>> \notin DOMAIN act[a].snap
       /\ \A r \in new, q \in DOMAIN act[a].snap : ~IsPrefix(r, q) /\ ~IsPrefix(q, r)
       /\ LET files == DOMAIN act[a].snap \cup new
              text  == [r \in files |-> IF r \in edit \cup new THEN <<a>> ELSE act[a].snap[r]]
          IN \E backs \in Backs(a, files) :
               Goes(a, [act[a] EXCEPT !.scratch = text, !.edited = edit \cup new], backs)
  /\ UNCHANGED tree

ClosureFails(a) == At(a, "run") /\ act[a].call.op = "checkout" /\ Fail(a)

\* Mutant: every file is written back.
BackAll(a) ==
  /\ At(a, "back")
  /\ LET r == From(a) IN
     /\ Goes(a, [act[a] EXCEPT !.buf = act[a].scratch[r]],
             (IF r = <<>> THEN <<>> ELSE <<On("create", To(a))>>) \o <<On("trunc", To(a)), On("put", To(a))>>)
     /\ UNCHANGED tree

\* A file that is as it was is left alone.  A single file is written through the
\* handle it was read from, so it is not created again.
Back(a) ==
  /\ At(a, "back")
  /\ LET r == From(a)
         same == r \in DOMAIN act[a].snap /\ act[a].snap[r] = act[a].scratch[r]
     IN IF same THEN Next1(a)
        ELSE Goes(a, [act[a] EXCEPT !.buf = act[a].scratch[r]],
                  (IF r = <<>> THEN <<>> ELSE <<On("create", To(a))>>) \o <<On("trunc", To(a)), On("put", To(a))>>)
  /\ UNCHANGED tree

-----------------------------------------------------------------------------

Call(a) ==
  \/ Refuse(a) \/ Read(a) \/ Seek(a) \/ Create(a) \/ Trunc(a) \/ Stat(a) \/ Put(a) \/ RemoveEntry(a)
  \/ Rename(a) \/ Mkdir(a) \/ CopyDir(a) \/ CopyEntry(a) \/ New(a) \/ RemoveTree(a)
  \/ Find(a) \/ Ls(a) \/ Slice(a) \/ MatFile(a) \/ MatDir(a) \/ MatEntry(a)
  \/ Run(a) \/ ClosureFails(a) \/ Back(a)

\* A call that fails for a reason of its own: the host is gone, the disk is full.
Breaks(a) ==
  /\ act[a].todo # <<>> /\ fails < MaxFails
  /\ fails' = fails + 1
  /\ Fail(a)

\* What a's call is about: the subtrees its paths name.
Touches(a, p) ==
  \E q \in {Walk(act[a].call.src), Walk(act[a].call.dst)} \ {<<>>} : IsPrefix(q, p) \/ IsPrefix(p, q)

Changed == {p \in DOMAIN tree \cup DOMAIN tree' : Node(tree, p) # Node(tree', p)}

Meddle(a) ==
  meddled' = [b \in Actors |->
    \/ b # a /\ \/ meddled[b]
                \/ \E p \in Changed : Touches(b, p)
    \/ b = a /\ act[a].todo # <<>> /\ meddled[a]]

Step(a) ==
  /\ \/ \E c \in Calls[a] : Begin(a, c)
     \/ Call(a) /\ UNCHANGED <<before, calls, fails>>
     \/ Breaks(a) /\ UNCHANGED <<before, calls>>
  /\ Meddle(a)

Next == \E a \in Actors : Step(a)

Spec == Init /\ [][Next]_vars

-----------------------------------------------------------------------------

\* Nodes and locals are of their kinds, and a node's parent is a directory: no call
\* leaves an entry behind under one it has removed.
TypeOK ==
  /\ WellFormed(tree)
  /\ \A a \in Actors : act[a].res \in {"none", "ok", "error"}

\* The bind shows another part of the tree beneath p.
Grafted(p) == p # <<>> /\ p # BindAt /\ IsWithin(BindAt, p)

\* The bind makes the destination of a's call a name of its source, or of something
\* in it, which the lexical check does not see; or what a path of the call shows is not
\* one part of the tree; or the call renames what a mount point stands for.
Aliased(a) ==
  LET c == act[a].call IN
  \/ IsWithin(Walk(c.dst), Walk(c.src))
  \/ Grafted(c.src) \/ Grafted(c.dst)
  \/ c.op = "mv" /\ Front(c.src) = Front(c.dst) /\ BindAt \in {c.src, c.dst}

FilesBelow(a, p) == {q \in DOMAIN before[a] : IsWithin(q, Walk(p)) /\ before[a][q].kind = "file"}

\* Where the file q of the source goes.
Image(a, q) == Walk(act[a].call.dst) \o Below(q, Walk(act[a].call.src))

\* mv and cp never lose a file of their source, at whichever call they fail: it is
\* where it was, or, for mv, at its destination, whole.  Two cases are outside: the
\* destination is the source under another name, or another actor changes them.
NothingLost ==
  \A a \in Actors :
    act[a].call.op \in {"mv", "cp"} /\ ~meddled[a] /\ ~Aliased(a) =>
      \A q \in FilesBelow(a, act[a].call.src) :
        \/ Node(tree, q) = before[a][q]
        \/ act[a].call.op = "mv" /\ Node(tree, Image(a, q)) = before[a][q]

\* What each call promises of the tree t it leaves, given the tree old it found.
Promise(a, c, old, t, end) ==
  LET s == Walk(c.src)
      Below0(u) == {q \in DOMAIN u : IsWithin(q, s)}
      Found == {Walk(p) : p \in end.out}
  IN CASE c.op = "mv" -> /\ \A q \in FilesBelow(a, c.src) : Node(t, Image(a, q)) = old[q]
                         /\ c.src # c.dst => Below0(t) = {}
       [] c.op = "cp" -> \A q \in Below0(old) : t[q] = old[q] /\ Node(t, Image(a, q)) = old[q]
       [] c.op \in {"rm", "unsetenv", "rmdir", "rmdir_r"} -> Below0(t) = {}
       [] c.op = "mkdir" -> t[s] = Dir
       [] c.op \in {"write", "setenv"} -> t[s] = File(<<a>>)
       [] c.op = "append" -> t[s] = File(Node(old, s).data \o <<a>>)
       [] c.op = "cat" -> old[s] = File(end.buf)
       [] c.op = "getenv" -> end.buf = Node(old, s).data
       [] c.op = "find" -> Found = Below0(old) \ {s}
       [] c.op = "ls" -> Found = {q \in Below0(old) : Len(q) = Len(s) + 1}
       [] c.op \in {"checkout", "screen"} ->
            \A q \in Below0(t) : t[q] = IF Below(q, s) \in end.edited THEN File(<<a>>) ELSE old[q]
       [] OTHER -> TRUE

\* getenv, unsetenv or envSlice returns without an error at a 9P call that fails for a
\* reason of its own: the variable is there.
Unnoticed(a) == Forgives(a) /\ Breaks(a)

\* A call that returns without an error has had its whole effect: many 9P calls amount to
\* one step on the tree.  Three cases are outside: another actor has changed what they are
\* about, a second name is involved, or getenv or unsetenv has not noticed that one failed,
\* and a variable that is set reads as "", or is still set.
WholeEffect ==
  [][\A a \in Actors :
       act[a].res = "none" /\ act'[a].res = "ok" /\ ~meddled[a] /\ ~Aliased(a) /\ ~Unnoticed(a) =>
         Promise(a, act[a].call, before[a], tree', act'[a])]_vars

\* A checkout writes back what its closure has changed and nothing else, whatever else
\* happens to the tree: another actor's change to a file that was only read survives.
OnlyEditsWrittenBack ==
  [][\A a \in Actors :
       act[a] # act'[a] /\ act[a].call.op \in {"checkout", "screen"} /\ act[a].todo # <<>> =>
         \A p \in Changed : \E r \in act[a].edited : p = Walk(act[a].call.src \o r)]_vars
=============================================================================
