------------------------------ MODULE FileProofs ------------------------------
(***************************************************************************)
(* The theorems about FileOps that hold of every call: a checkout writes   *)
(* back what its closure or its program has changed and nothing else, and  *)
(* the tree stays a tree.                                                  *)
(*                                                                         *)
(* Checkout: until the closure runs, every call still to make is one that  *)
(* reads (Reads); from then on every one writes a changed file, or is a    *)
(* `back`, which passes over the files that are as they were (Writes).     *)
(* Which files changed is said once, by Run, and what the other actors do  *)
(* to the tree makes no difference to it.                                  *)
(*                                                                         *)
(* The tree: a new entry is put where there is a directory (PutKeeps), a   *)
(* removed one had nothing beneath it (CutKeeps), and a rename moves all   *)
(* that lies beneath its source (MoveKeeps).  That a task names a path,    *)
(* and a file's text is a text, goes along the scripts and the tasks that  *)
(* a step adds to them (Typed).                                            *)
(***************************************************************************)
EXTENDS FileOps, FiniteSetTheorems, SequenceTheorems, WellFoundedInduction, TLAPS

Checks == {"checkout", "screen"}
Doings == {"refuse", "matfile", "matdir", "matent", "run", "back", "create", "trunc", "put"}
Tasks  == [do : Doings, s : Seq(Names), d : Seq(Names)]
Fields == {"call", "todo", "buf", "at", "out", "scratch", "snap", "edited", "res"}

\* l is the record of an actor.
Local(l) == l = [f \in Fields |-> l[f]]

ReadTask(t)  == t.do \in {"refuse", "matdir", "matent"}
StartTask(t) == t.do \in {"matfile", "run"}

\* The task t of l writes a file that was changed, or decides whether to.
WriteTask(l, t) ==
  \/ /\ t.do = "back" /\ t.d = l.call.src \o t.s
     /\ t.s \in l.edited \/ (t.s \in DOMAIN l.snap /\ l.snap[t.s] = l.scratch[t.s])
  \/ t.do \in {"create", "trunc", "put"} /\ \E r \in l.edited : t.d = l.call.src \o r

Reads(l) ==
  \A i \in 1 .. Len(l.todo) :
    \/ ReadTask(l.todo[i])
    \/ l.todo[i].do = "matfile"
    \/ l.todo[i].do = "run" /\ i = Len(l.todo)

Writes(l) == \A i \in 1 .. Len(l.todo) : WriteTask(l, l.todo[i])

CheckFits(l) ==
  /\ l.call.src \in Seq(Names)
  /\ l.todo \in Seq(Tasks)
  /\ IsFiniteSet(DOMAIN l.snap) /\ DOMAIN l.snap \subseteq Seq(Names)
  /\ Reads(l) \/ Writes(l)

\* Of every actor, whatever the others have done meanwhile.
Fits(l) == Local(l) /\ (l.call.op \in Checks => CheckFits(l))

ActFits == DOMAIN act = Actors /\ act = [a \in Actors |-> act[a]] /\ \A a \in Actors : Fits(act[a])

-----------------------------------------------------------------------------
(* A call is done, and what it leaves more to do comes before the rest.    *)

LEMMA RestOf ==
  ASSUME NEW S, NEW more \in Seq(S), NEW todo \in Seq(S), todo # <<>>
  PROVE  LET rest == more \o Tail(todo) IN
         /\ rest \in Seq(S)
         /\ \A i \in 1 .. Len(rest) :
              \/ i \in 1 .. Len(more) /\ rest[i] = more[i]
              \/ \E j \in 2 .. Len(todo) :
                   rest[i] = todo[j] /\ (j = Len(todo) => i = Len(rest))
<1>1. /\ Tail(todo) \in Seq(S) /\ Len(todo) \in Nat \ {0} /\ Len(Tail(todo)) = Len(todo) - 1
      /\ \A i \in 1 .. Len(Tail(todo)) : Tail(todo)[i] = todo[i + 1]
  BY EmptySeq, HeadTailProperties, LenProperties
<1>2. /\ more \o Tail(todo) \in Seq(S)
      /\ Len(more) \in Nat
      /\ Len(more \o Tail(todo)) = Len(more) + Len(Tail(todo))
      /\ \A i \in 1 .. Len(more) + Len(Tail(todo)) :
           (more \o Tail(todo))[i] = IF i <= Len(more) THEN more[i] ELSE Tail(todo)[i - Len(more)]
  BY <1>1, ConcatProperties, LenProperties
<1> DEFINE rest == more \o Tail(todo)
<1>3. Len(rest) = Len(more) + Len(todo) - 1
  BY <1>1, <1>2
<1>4. ASSUME NEW i \in 1 .. Len(rest)
      PROVE  \/ i \in 1 .. Len(more) /\ rest[i] = more[i]
             \/ \E j \in 2 .. Len(todo) : rest[i] = todo[j] /\ (j = Len(todo) => i = Len(rest))
  <2>1. CASE i <= Len(more)
    BY <1>2, <1>3, <2>1
  <2>2. CASE i > Len(more)
    <3> DEFINE j == i - Len(more) + 1
    <3>1. j \in 2 .. Len(todo) /\ (j = Len(todo) => i = Len(rest))
      BY <1>1, <1>2, <1>3, <2>2
    <3>2. rest[i] = Tail(todo)[i - Len(more)] /\ Tail(todo)[i - Len(more)] = todo[j]
      BY <1>1, <1>2, <1>3, <2>2
    <3> QED  BY <3>1, <3>2
  <2>3. i \in Int /\ Len(more) \in Nat
    BY <1>1, <1>2, <1>3
  <2>4. i <= Len(more) \/ i > Len(more)
    BY <2>3
  <2> QED  BY <2>1, <2>2, <2>4
<1> QED  BY <1>2, <1>4

LEMMA OneIsSeq ==
  ASSUME NEW S, NEW t \in S
  PROVE  <<t>> \in Seq(S) /\ Len(<<t>>) = 1 /\ \A i \in 1 .. Len(<<t>>) : <<t>>[i] = t
  OBVIOUS

LEMMA TwoAreSeq ==
  ASSUME NEW S, NEW t \in S, NEW u \in S
  PROVE  <<t, u>> \in Seq(S)
  OBVIOUS

LEMMA FunIsSeq ==
  ASSUME NEW S, NEW n \in Nat, NEW f \in [1 .. n -> S]
  PROVE  f \in Seq(S) /\ Len(f) = n
  OBVIOUS

LEMMA NothingIsEmpty ==
  ASSUME NEW S, NEW s \in Seq(S), Len(s) = 0
  PROVE  s = <<>>
  BY EmptySeq

\* Some names, and those of a directory, as a sequence.
LEMMA NamesAreSeq ==
  ASSUME NEW S \in SUBSET Names, FileOpsAssumption
  PROVE  SetToSeq(S) \in Seq(S) /\ SetToSeq(S) \in Seq(Names) /\ DOMAIN SetToSeq(S) = 1 .. Len(SetToSeq(S))
<1>1. IsFiniteSet(S)
  BY FS_Subset DEF FileOpsAssumption
<1>2. Cardinality(S) \in Nat /\ \E f \in [1 .. Cardinality(S) -> S] : IsInjective(f)
  BY <1>1, FS_CardinalityType, Zenon
     DEF ExistsBijection, Bijection, Injection, IsInjective
<1>3. SetToSeq(S) \in [1 .. Cardinality(S) -> S]
  BY <1>2 DEF SetToSeq
<1>4. SetToSeq(S) \in [1 .. Cardinality(S) -> Names]
  BY <1>3
<1>5. QED BY <1>2, <1>3, <1>4

LEMMA EntriesAreSeq ==
  ASSUME NEW p, FileOpsAssumption
  PROVE  Entries(p) \in Seq(Names) /\ DOMAIN Entries(p) = 1 .. Len(Entries(p))
BY NamesAreSeq DEF Entries

LEMMA BelowIsPath ==
  ASSUME NEW p \in Seq(Names), NEW q \in Seq(Names)
  PROVE  Below(p, q) \in Seq(Names)
<1>1. Len(p) \in Nat /\ Len(q) \in Nat /\ \A i \in 1 .. Len(p) : p[i] \in Names
  BY LenProperties, ElementOfSeq
<1> QED  BY <1>1, SubSeqProperties DEF Below

\* The rest of the calls is as it has to be if the new ones and the old ones are.
LEMMA MoreReads ==
  ASSUME NEW l, NEW m, NEW more \in Seq(Tasks), CheckFits(l), Reads(l), l.todo # <<>>,
         m.call = l.call, m.todo = more \o Tail(l.todo),
         \A i \in 1 .. Len(more) : ReadTask(more[i]),
         IsFiniteSet(DOMAIN m.snap), DOMAIN m.snap \subseteq Seq(Names)
  PROVE  CheckFits(m)
<1>1. m.todo \in Seq(Tasks)
  BY RestOf DEF CheckFits
<1>2. ASSUME NEW i \in 1 .. Len(m.todo)
      PROVE  \/ ReadTask(m.todo[i]) \/ m.todo[i].do = "matfile"
             \/ m.todo[i].do = "run" /\ i = Len(m.todo)
  <2>1. CASE i \in 1 .. Len(more) /\ m.todo[i] = more[i]
    BY <2>1
  <2>2. CASE \E j \in 2 .. Len(l.todo) : m.todo[i] = l.todo[j] /\ (j = Len(l.todo) => i = Len(m.todo))
    <3>1. PICK j \in 2 .. Len(l.todo) : m.todo[i] = l.todo[j] /\ (j = Len(l.todo) => i = Len(m.todo))
      BY <2>2
    <3>2. j \in 1 .. Len(l.todo)
      OBVIOUS
    <3> QED  BY <3>1, <3>2 DEF Reads
  <2> QED  BY <2>1, <2>2, RestOf DEF CheckFits
<1> QED  BY <1>1, <1>2 DEF CheckFits, Reads

LEMMA MoreWrites ==
  ASSUME NEW l, NEW m, NEW more \in Seq(Tasks), CheckFits(l), Writes(l), l.todo # <<>>,
         m.call = l.call, m.edited = l.edited, m.snap = l.snap, m.scratch = l.scratch,
         m.todo = more \o Tail(l.todo),
         \A i \in 1 .. Len(more) : WriteTask(l, more[i])
  PROVE  CheckFits(m)
<1>1. m.todo \in Seq(Tasks)
  BY RestOf DEF CheckFits
<1>3. ASSUME NEW t, WriteTask(l, t)
      PROVE  WriteTask(m, t)
  BY <1>3 DEF WriteTask
<1>2. ASSUME NEW i \in 1 .. Len(m.todo)
      PROVE  WriteTask(m, m.todo[i])
  <2>1. CASE i \in 1 .. Len(more) /\ m.todo[i] = more[i]
    BY <1>3, <2>1
  <2>2. CASE \E j \in 2 .. Len(l.todo) : m.todo[i] = l.todo[j] /\ (j = Len(l.todo) => i = Len(m.todo))
    <3>1. PICK j \in 2 .. Len(l.todo) : m.todo[i] = l.todo[j]
      BY <2>2
    <3>2. j \in 1 .. Len(l.todo)
      OBVIOUS
    <3>3. WriteTask(l, l.todo[j])
      BY <3>2 DEF Writes
    <3>4. WriteTask(m, l.todo[j])
      BY <1>3, <3>3, Zenon
    <3> QED  BY <3>1, <3>4, Zenon
  <2>3. \/ i \in 1 .. Len(more) /\ m.todo[i] = more[i]
        \/ \E j \in 2 .. Len(l.todo) : m.todo[i] = l.todo[j] /\ (j = Len(l.todo) => i = Len(m.todo))
    BY RestOf DEF CheckFits
  <2> QED  BY <2>1, <2>2, <2>3, Zenon
<1> QED  BY <1>1, <1>2 DEF CheckFits, Writes

-----------------------------------------------------------------------------
(* What a step leaves of the record of its actor.                          *)

\* m takes the place of a's record: about the same call, and with nothing left to do when
\* it says that it is done.
Becomes(a, m) ==
  /\ act' = [act EXCEPT ![a] = m]
  /\ Local(m) /\ m.call = act[a].call
  /\ m.res = "ok" => m.todo = <<>>

LEMMA GoesOn ==
  ASSUME ActFits, NEW a \in Actors, NEW local, NEW more, Local(local),
         local.call = act[a].call, Goes(a, local, more)
  PROVE  \E m : /\ Becomes(a, m)
                /\ m.todo = more \o Tail(act[a].todo)
                /\ m.edited = local.edited /\ m.snap = local.snap /\ m.scratch = local.scratch
<1> DEFINE rest == more \o Tail(act[a].todo)
           m == [local EXCEPT !.todo = rest, !.res = IF rest = <<>> THEN "ok" ELSE "none"]
<1>1. act' = [act EXCEPT ![a] = m]
  BY DEF Goes
<1>2. /\ Local(m) /\ m.call = local.call /\ m.todo = rest
      /\ m.edited = local.edited /\ m.snap = local.snap /\ m.scratch = local.scratch
  BY DEF Local, Fields
<1>3. m.res = "ok" => rest = <<>>
  BY DEF Local, Fields
<1> QED  BY <1>1, <1>2, <1>3 DEF Becomes

LEMMA Fails ==
  ASSUME ActFits, NEW a \in Actors, Fail(a)
  PROVE  \E m : Becomes(a, m) /\ m.todo = <<>> /\ m.snap = <<>>
<1>1. PICK res \in {"ok", "error"} : res = IF Forgives(a) THEN "ok" ELSE "error"
  OBVIOUS
<1> DEFINE m == [act[a] EXCEPT !.todo = <<>>, !.res = res, !.buf = <<>>, !.scratch = <<>>, !.snap = <<>>]
<1>2. Local(act[a])
  BY DEF ActFits, Fits
<1>3. Local(m) /\ m.call = act[a].call /\ m.todo = <<>> /\ m.snap = <<>>
  BY <1>2 DEF Local, Fields
<1>4. act' = [act EXCEPT ![a] = m]
  BY <1>1 DEF Fail
<1> QED  BY <1>3, <1>4 DEF Becomes

LEMMA EndedFits ==
  ASSUME NEW l, NEW m, CheckFits(l), m.call = l.call, m.todo = <<>>, m.snap = <<>>
  PROVE  CheckFits(m)
<1>1. DOMAIN <<>> = {} /\ Len(<<>>) = 0
  OBVIOUS
<1>2. Reads(m) /\ m.todo \in Seq(Tasks)
  BY <1>1, EmptySeq DEF Reads
<1>3. IsFiniteSet(DOMAIN m.snap) /\ DOMAIN m.snap \subseteq Seq(Names)
  BY <1>1, FS_EmptySet
<1> QED  BY <1>2, <1>3 DEF CheckFits

\* The record of one actor is replaced.
LEMMA OneReplaced ==
  ASSUME ActFits, NEW a \in Actors, NEW m, act' = [act EXCEPT ![a] = m], Fits(m)
  PROVE  ActFits'
<1>1. /\ DOMAIN act' = Actors /\ act'[a] = m
      /\ \A b \in Actors \ {a} : act'[b] = act[b]
  BY DEF ActFits
<1>2. act' = [b \in Actors |-> act'[b]]
  BY DEF ActFits
<1>3. ASSUME NEW b \in Actors PROVE Fits(act'[b])
  BY <1>1 DEF ActFits
<1> QED  BY <1>1, <1>2, <1>3 DEF ActFits

\* Every step of a call is about the same call before and after.
LEMMA CallStays ==
  ASSUME ActFits, NEW a \in Actors, Call(a)
  PROVE  \E m : Becomes(a, m)
<1>1. Local(act[a])
  BY DEF ActFits, Fits
<1>2. ASSUME Fail(a) PROVE \E m : Becomes(a, m)
  BY <1>2, Fails
<1>3. ASSUME NEW more, Goes(a, act[a], more) PROVE \E m : Becomes(a, m)
  BY <1>1, <1>3, GoesOn
<1>4. ASSUME NEW v, NEW w, NEW more,
             \/ Goes(a, [act[a] EXCEPT !.buf = v], more)
             \/ Goes(a, [act[a] EXCEPT !.at = v], more)
             \/ Goes(a, [act[a] EXCEPT !.out = v], more)
             \/ Goes(a, [act[a] EXCEPT !.scratch = v, !.snap = w], more)
             \/ Goes(a, [act[a] EXCEPT !.scratch = v, !.edited = w], more)
      PROVE  \E m : Becomes(a, m)
  <2>1. PICK local : /\ Goes(a, local, more)
                     /\ local \in {[act[a] EXCEPT !.buf = v], [act[a] EXCEPT !.at = v],
                                  [act[a] EXCEPT !.out = v],
                                  [act[a] EXCEPT !.scratch = v, !.snap = w],
                                  [act[a] EXCEPT !.scratch = v, !.edited = w]}
    BY <1>4, Zenon
  <2>2. Local(local) /\ local.call = act[a].call
    BY <1>1, <2>1 DEF Local, Fields
  <2> QED  BY <2>1, <2>2, GoesOn
<1>5. CASE Refuse(a) \/ ClosureFails(a)
  BY <1>2, <1>5 DEF Refuse, ClosureFails
<1>6. CASE Read(a) \/ Stat(a) \/ Ls(a) \/ Find(a) \/ MatFile(a)
  BY <1>2, <1>4, <1>6, Zenon DEF Read, Stat, Ls, Find, MatFile
<1>7. CASE MatEntry(a)
  BY <1>2, <1>3, <1>4, <1>7, Zenon DEF MatEntry
<1>8. CASE Seek(a) \/ Create(a) \/ Trunc(a) \/ Put(a) \/ RemoveEntry(a) \/ Rename(a) \/ Mkdir(a) \/ New(a)
  BY <1>2, <1>3, <1>8, Zenon DEF Seek, Create, Trunc, Put, RemoveEntry, Rename, Mkdir, New, Next1
<1>9. CASE CopyDir(a) \/ CopyEntry(a) \/ RemoveTree(a) \/ Slice(a) \/ MatDir(a)
  BY <1>2, <1>3, <1>9, Zenon DEF CopyDir, CopyEntry, RemoveTree, Slice, MatDir
<1>10. CASE Run(a)
  BY <1>4, <1>10, Zenon DEF Run
<1>11. CASE Back(a)
  BY <1>3, <1>4, <1>11, Zenon DEF Back, Next1
<1> QED
  BY <1>5, <1>6, <1>7, <1>8, <1>9, <1>10, <1>11 DEF Call

-----------------------------------------------------------------------------
(* A checkout, call by call.                                               *)

\* The call that is next.
LEMMA HeadFits ==
  ASSUME NEW l, CheckFits(l), l.todo # <<>>
  PROVE  /\ Head(l.todo) \in Tasks
         /\ \/ /\ Reads(l)
               /\ ReadTask(Head(l.todo)) \/ Head(l.todo).do \in {"matfile", "run"}
               /\ Head(l.todo).do = "run" => Tail(l.todo) = <<>>
            \/ Writes(l) /\ WriteTask(l, Head(l.todo))
<1>1. /\ Head(l.todo) = l.todo[1] /\ Head(l.todo) \in Tasks /\ 1 \in 1 .. Len(l.todo)
      /\ Tail(l.todo) \in Seq(Tasks) /\ Len(Tail(l.todo)) = Len(l.todo) - 1
  BY HeadTailProperties, EmptySeq DEF CheckFits
<1>2. CASE Reads(l)
  <2>1. ASSUME Head(l.todo).do = "run" PROVE Tail(l.todo) = <<>>
    <3>1. Len(l.todo) = 1
      BY <1>1, <1>2, <2>1 DEF Reads, ReadTask
    <3>2. Len(Tail(l.todo)) = 0
      BY <1>1, <3>1
    <3> QED  BY <1>1, <3>2, NothingIsEmpty
  <2> QED  BY <1>1, <1>2, <2>1 DEF Reads
<1>3. CASE Writes(l)
  <2>1. WriteTask(l, l.todo[1])
    BY <1>1, <1>3 DEF Writes
  <2> QED  BY <1>1, <1>3, <2>1, Zenon
<1> QED  BY <1>2, <1>3 DEF CheckFits

\* What is next of a checkout is one of these.
LEMMA CheckCalls ==
  ASSUME ActFits, NEW a \in Actors, act[a].call.op \in Checks, Call(a)
  PROVE  \/ Refuse(a) \/ Create(a) \/ Trunc(a) \/ Put(a) \/ MatFile(a) \/ MatDir(a) \/ MatEntry(a)
         \/ Run(a) \/ ClosureFails(a) \/ Back(a)
<1>1. act[a].todo # <<>> => \/ ReadTask(Head(act[a].todo)) \/ Head(act[a].todo).do \in {"matfile", "run"}
                            \/ WriteTask(act[a], Head(act[a].todo))
  BY HeadFits DEF ActFits, Fits
<1>2. act[a].todo # <<>> => Head(act[a].todo).do \in
        {"refuse", "matdir", "matent", "matfile", "run", "back", "create", "trunc", "put"}
  BY <1>1 DEF ReadTask, WriteTask
<1> QED
  BY <1>2 DEF Call, At, Read, Seek, Stat, RemoveEntry, Rename, Mkdir, CopyDir, CopyEntry, New,
              RemoveTree, Find, Ls, Slice

LEMMA ReadsOn ==
  ASSUME ActFits, NEW a \in Actors, act[a].call.op \in Checks,
         \/ MatFile(a) \/ MatDir(a) \/ MatEntry(a)
  PROVE  ActFits' /\ UNCHANGED tree
<1> DEFINE l == act[a]
<1>1. Local(l) /\ CheckFits(l) /\ l.todo # <<>> /\ l.call.src \in Seq(Names)
  BY DEF ActFits, Fits, MatFile, MatDir, MatEntry, At, CheckFits
<1>2. Head(l.todo) \in Tasks /\ Reads(l) /\ From(a) \in Seq(Names)
  BY <1>1, HeadFits DEF MatFile, MatDir, MatEntry, At, WriteTask, From, Tasks
<1>3. IsFiniteSet(DOMAIN l.snap) /\ DOMAIN l.snap \subseteq Seq(Names)
  BY <1>1 DEF CheckFits
<1>4. ASSUME Fail(a) PROVE ActFits' /\ UNCHANGED tree
  BY <1>1, <1>4, Fails, EndedFits, OneReplaced DEF Becomes, Fits, Fail
<1>5. ASSUME NEW local, NEW more \in Seq(Tasks), Goes(a, local, more), Local(local),
             local.call = l.call, \A i \in 1 .. Len(more) : ReadTask(more[i]),
             IsFiniteSet(DOMAIN local.snap), DOMAIN local.snap \subseteq Seq(Names)
      PROVE  ActFits'
  <2>1. PICK m : Becomes(a, m) /\ m.todo = more \o Tail(l.todo) /\ m.snap = local.snap
    BY <1>5, GoesOn, SMTT(30)
  <2>2. CheckFits(m)
    BY <1>1, <1>2, <1>5, <2>1, MoreReads DEF Becomes
  <2> QED  BY <2>1, <2>2, OneReplaced DEF Becomes, Fits
<1>6. ASSUME NEW snap, Goes(a, [l EXCEPT !.scratch = snap, !.snap = snap], <<>>),
             IsFiniteSet(DOMAIN snap), DOMAIN snap \subseteq Seq(Names)
      PROVE  ActFits'
  <2> DEFINE local == [l EXCEPT !.scratch = snap, !.snap = snap]
  <2>1. Local(local) /\ local.call = l.call /\ local.snap = snap
    BY <1>1 DEF Local, Fields
  <2>2. <<>> \in Seq(Tasks) /\ \A i \in 1 .. Len(<<>>) : ReadTask(<<>>[i])
    BY EmptySeq
  <2> QED  BY <1>5, <1>6, <2>1, <2>2
<1>7. CASE MatFile(a)
  <2> DEFINE copy == [r \in {<<>>} |-> Data(From(a))]
  <2>1. IsFiniteSet(DOMAIN copy) /\ DOMAIN copy \subseteq Seq(Names)
    BY FS_Singleton, EmptySeq, ZenonT(30)
  <2> QED  BY <1>4, <1>6, <1>7, <2>1 DEF MatFile
<1>8. CASE MatDir(a)
  <2> DEFINE names == Entries(From(a))
             more == [i \in DOMAIN names |-> On("matent", From(a) \o <<names[i]>>)]
  <2>1. names \in Seq(Names) /\ DOMAIN names = 1 .. Len(names) /\ Len(names) \in Nat
    BY EntriesAreSeq, FileOpsAssumption, LenProperties
  <2>2. \A i \in DOMAIN names : From(a) \o <<names[i]>> \in Seq(Names)
    BY <1>2, <2>1
  <2>a. \A i \in DOMAIN names : On("matent", From(a) \o <<names[i]>>) \in Tasks
    BY <2>2 DEF Tasks, Doings, On, Task
  <2>b. more \in [1 .. Len(names) -> Tasks]
    BY <2>1, <2>a
  <2>3. more \in Seq(Tasks) /\ Len(more) = Len(names)
    BY <2>1, <2>b, FunIsSeq
  <2>4. \A i \in 1 .. Len(more) : ReadTask(more[i])
    BY <2>1, <2>3 DEF ReadTask, On, Task
  <2> QED  BY <1>1, <1>3, <1>4, <1>5, <1>8, <2>3, <2>4 DEF MatDir
<1>9. CASE MatEntry(a)
  <2> DEFINE r == Below(From(a), l.call.src)
             Add(f) == [q \in DOMAIN f \cup {r} |-> IF q = r THEN Data(From(a)) ELSE f[q]]
  <2>1. r \in Seq(Names)
    BY <1>1, <1>2, BelowIsPath
  <2>2. CASE Goes(a, l, <<On("matdir", From(a))>>) /\ UNCHANGED tree
    <3>1. <<On("matdir", From(a))>> \in Seq(Tasks)
          /\ \A i \in 1 .. Len(<<On("matdir", From(a))>>) : ReadTask(<<On("matdir", From(a))>>[i])
      <4>1. On("matdir", From(a)) \in Tasks /\ ReadTask(On("matdir", From(a)))
        BY <1>2 DEF Tasks, Doings, On, Task, ReadTask
      <4> QED  BY <4>1, OneIsSeq
    <3> QED  BY <1>1, <1>3, <1>5, <2>2, <3>1
  <2>3. CASE Goes(a, [l EXCEPT !.scratch = Add(@), !.snap = Add(@)], <<>>) /\ UNCHANGED tree
    <3> DEFINE local == [l EXCEPT !.scratch = Add(@), !.snap = Add(@)]
    <3>1. Local(local) /\ local.call = l.call /\ local.snap = Add(l.snap)
      BY <1>1 DEF Local, Fields
    <3>2. IsFiniteSet(DOMAIN local.snap) /\ DOMAIN local.snap \subseteq Seq(Names)
      <4>1. DOMAIN local.snap = DOMAIN l.snap \cup {r}
        BY <3>1
      <4> QED  BY <1>3, <2>1, <4>1, FS_AddElement
    <3>3. <<>> \in Seq(Tasks) /\ \A i \in 1 .. Len(<<>>) : ReadTask(<<>>[i])
      BY EmptySeq
    <3> QED  BY <1>5, <2>3, <3>1, <3>2, <3>3
  <2> QED  BY <1>4, <1>9, <2>2, <2>3 DEF MatEntry
<1> QED  BY <1>7, <1>8, <1>9

LEMMA RunChanges ==
  ASSUME ActFits, NEW a \in Actors, act[a].call.op \in Checks, Run(a)
  PROVE  ActFits' /\ UNCHANGED tree
<1> DEFINE l == act[a]
<1>1. Local(l) /\ CheckFits(l) /\ l.todo # <<>> /\ l.call.src \in Seq(Names)
  BY DEF ActFits, Fits, Run, At, CheckFits
<1>2. Tail(l.todo) = <<>>
  BY <1>1, HeadFits DEF Run, At, WriteTask
<1>3. IsFiniteSet(DOMAIN l.snap) /\ DOMAIN l.snap \subseteq Seq(Names)
  BY <1>1 DEF CheckFits
<1>4. PICK edit \in SUBSET DOMAIN l.snap,
           new \in {{}} \cup {{<<n>>} : n \in Names} \cup {{<<n, n>>} : n \in Names} :
        LET files == DOMAIN l.snap \cup new
            text  == [r \in files |-> IF r \in edit \cup new THEN <<a>> ELSE l.snap[r]]
        IN \E backs \in Backs(a, files) :
             Goes(a, [l EXCEPT !.scratch = text, !.edited = edit \cup new], backs)
  BY DEF Run
<1> DEFINE files == DOMAIN l.snap \cup new
           text  == [r \in files |-> IF r \in edit \cup new THEN <<a>> ELSE l.snap[r]]
           local == [l EXCEPT !.scratch = text, !.edited = edit \cup new]
<1>5. PICK backs \in Backs(a, files) : Goes(a, local, backs)
  BY <1>4
<1>6. IsFiniteSet(files) /\ files \subseteq Seq(Names)
  <2>1. CASE new = {}
    BY <1>3, <2>1
  <2>2. CASE \E r \in Seq(Names) : new = {r}
    <3>1. PICK r \in Seq(Names) : new = {r}
      BY <2>2
    <3>2. IsFiniteSet(DOMAIN l.snap \cup {r})
      BY <1>3, FS_AddElement
    <3> QED  BY <1>3, <3>1, <3>2
  <2>3. new = {} \/ \E r \in Seq(Names) : new = {r}
    <3>1. \A n \in Names : <<n>> \in Seq(Names) /\ <<n, n>> \in Seq(Names)
      BY OneIsSeq, TwoAreSeq
    <3> QED  BY <3>1, Zenon
  <2> QED  BY <2>1, <2>2, <2>3
<1>7. PICK s \in SetToSeqs(files) :
        backs = [i \in DOMAIN s |-> Task("back", s[i], l.call.src \o s[i])]
  BY DEF Backs
<1>8. /\ Cardinality(files) \in Nat
      /\ DOMAIN s = 1 .. Cardinality(files) /\ \A i \in DOMAIN s : s[i] \in files
  BY <1>6, <1>7, FS_CardinalityType DEF SetToSeqs
<1>9. \A i \in DOMAIN s : Task("back", s[i], l.call.src \o s[i]) \in Tasks
  <2> TAKE i \in DOMAIN s
  <2>1. s[i] \in Seq(Names)
    BY <1>6, <1>8, Zenon
  <2>2. l.call.src \o s[i] \in Seq(Names)
    BY <1>1, <2>1, ConcatProperties
  <2> QED  BY <2>1, <2>2 DEF Task, Tasks, Doings
<1>10. backs \in Seq(Tasks) /\ Len(backs) = Cardinality(files)
  <2>1. backs \in [1 .. Cardinality(files) -> Tasks]
    BY <1>7, <1>8, <1>9
  <2> QED  BY <1>8, <2>1, FunIsSeq
<1>11. /\ Local(local) /\ local.call = l.call /\ local.snap = l.snap
       /\ local.scratch = text /\ local.edited = edit \cup new
  BY <1>1 DEF Local, Fields
<1>12. PICK m : /\ Becomes(a, m) /\ m.todo = backs \o Tail(l.todo)
                /\ m.edited = edit \cup new /\ m.snap = l.snap /\ m.scratch = text
  <2> HIDE DEF local, text
  <2> QED  BY <1>5, <1>11, GoesOn
<1>13. m.todo = backs
  BY <1>2, <1>10, <1>12, ConcatEmptySeq
<1>14. Writes(m)
  <2> SUFFICES ASSUME NEW i \in 1 .. Len(m.todo) PROVE WriteTask(m, m.todo[i])
    BY DEF Writes
  <2>1. i \in DOMAIN s /\ m.todo[i] = Task("back", s[i], l.call.src \o s[i]) /\ s[i] \in files
    BY <1>7, <1>8, <1>10, <1>13
  <2>2. s[i] \in m.edited \/ (s[i] \in DOMAIN m.snap /\ m.snap[s[i]] = m.scratch[s[i]])
    BY <1>12, <2>1
  <2>3. m.call = l.call
    BY <1>12 DEF Becomes
  <2> QED  BY <2>1, <2>2, <2>3 DEF WriteTask, Task
<1>15. CheckFits(m)
  BY <1>1, <1>3, <1>10, <1>12, <1>13, <1>14 DEF CheckFits, Becomes
<1>16. Local(m) /\ act' = [act EXCEPT ![a] = m] /\ UNCHANGED tree
  BY <1>12 DEF Becomes, Run
<1> QED  BY <1>15, <1>16, OneReplaced DEF Fits

\* The tree changes at one place at most.
LEMMA SetChanges ==
  ASSUME NEW p, NEW node, Set(p, node) \/ UNCHANGED tree
  PROVE  Changed \subseteq {Walk(p)}
<1>1. CASE UNCHANGED tree
  BY <1>1 DEF Changed, Node
<1>2. CASE Set(p, node)
  <2>1. DOMAIN tree' = {Walk(p)} \cup DOMAIN tree
    BY <1>2 DEF Set
  <2>2. \A q \in DOMAIN tree : q # Walk(p) => tree'[q] = tree[q]
    BY <1>2 DEF Set
  <2> QED  BY <2>1, <2>2 DEF Changed, Node
<1> QED  BY <1>1, <1>2

LEMMA WritesOn ==
  ASSUME ActFits, NEW a \in Actors, act[a].call.op \in Checks,
         Create(a) \/ Trunc(a) \/ Put(a) \/ Back(a)
  PROVE  ActFits' /\ \A p \in Changed : \E r \in act[a].edited : p = Walk(act[a].call.src \o r)
<1> DEFINE l == act[a]
           h == Head(l.todo)
<1>1. Local(l) /\ CheckFits(l) /\ l.todo # <<>> /\ l.call.src \in Seq(Names)
  BY DEF ActFits, Fits, Create, Trunc, Put, Back, At, CheckFits
<1>2. h \in Tasks /\ Writes(l) /\ WriteTask(l, h)
  BY <1>1, HeadFits DEF Create, Trunc, Put, Back, At, ReadTask
<1>3. ASSUME Fail(a) PROVE ActFits' /\ UNCHANGED tree
  BY <1>1, <1>3, Fails, EndedFits, OneReplaced DEF Becomes, Fits, Fail
<1>4. ASSUME NEW local, NEW more \in Seq(Tasks), Goes(a, local, more), Local(local),
             local.call = l.call, local.edited = l.edited, local.snap = l.snap,
             local.scratch = l.scratch, \A i \in 1 .. Len(more) : WriteTask(l, more[i])
      PROVE  ActFits'
  <2>1. PICK m : /\ Becomes(a, m) /\ m.todo = more \o Tail(l.todo) /\ m.edited = l.edited
                 /\ m.snap = l.snap /\ m.scratch = l.scratch
    BY <1>4, GoesOn
  <2>2. CheckFits(m)
    BY <1>1, <1>2, <1>4, <2>1, MoreWrites DEF Becomes
  <2> QED  BY <2>1, <2>2, OneReplaced DEF Becomes, Fits
<1>5. ASSUME Next1(a) PROVE ActFits'
  <2>1. <<>> \in Seq(Tasks) /\ \A i \in 1 .. Len(<<>>) : WriteTask(l, <<>>[i])
    BY EmptySeq
  <2> QED  BY <1>1, <1>4, <1>5, <2>1 DEF Next1
<1>6. CASE Create(a) \/ Trunc(a) \/ Put(a)
  <2>1. ActFits'
    BY <1>3, <1>5, <1>6 DEF Create, Trunc, Put
  <2>2. PICK r \in l.edited : h.d = l.call.src \o r
    BY <1>2, <1>6 DEF Create, Trunc, Put, At, WriteTask
  <2>3. \E node : Set(To(a), node) \/ UNCHANGED tree
    BY <1>6, Zenon DEF Create, Trunc, Put, Fail
  <2>4. Changed \subseteq {Walk(To(a))}
    BY <2>3, SetChanges
  <2> QED  BY <2>1, <2>2, <2>4 DEF To
<1>7. CASE Back(a)
  <2> DEFINE r == From(a)
             more == (IF r = <<>> THEN <<>> ELSE <<On("create", To(a))>>) \o <<On("trunc", To(a)), On("put", To(a))>>
             local == [l EXCEPT !.buf = l.scratch[r]]
  <2>1. Changed \subseteq {}
    BY <1>7 DEF Back, Changed, Node
  <2>2. CASE r \in DOMAIN l.snap /\ l.snap[r] = l.scratch[r]
    BY <1>5, <1>7, <2>1, <2>2 DEF Back
  <2>3. CASE ~(r \in DOMAIN l.snap /\ l.snap[r] = l.scratch[r])
    <3>1. r \in l.edited /\ To(a) = l.call.src \o r /\ To(a) \in Seq(Names)
      BY <1>2, <1>7, <2>3 DEF Back, At, WriteTask, From, To, Tasks
    <3>2. \A do \in {"create", "trunc", "put"} :
            On(do, To(a)) \in Tasks /\ WriteTask(l, On(do, To(a)))
      BY <3>1 DEF On, Task, Tasks, Doings, WriteTask
    <3>3. more \in Seq(Tasks) /\ \A i \in 1 .. Len(more) : WriteTask(l, more[i])
      <4> DEFINE W == {x \in Tasks : WriteTask(l, x)}
                 c == On("create", To(a))
                 t == On("trunc", To(a))
                 p == On("put", To(a))
      <4>1. c \in W /\ t \in W /\ p \in W
        BY <3>2
      <4>2. <<>> \in Seq(W) /\ <<c>> \in Seq(W) /\ <<t, p>> \in Seq(W)
        <5> HIDE DEF W, c, t, p
        <5> QED  BY <4>1, OneIsSeq, TwoAreSeq, EmptySeq
      <4>3. (IF r = <<>> THEN <<>> ELSE <<c>>) \in Seq(W)
        BY <4>2
      <4>4. more \in Seq(W)
        <5> HIDE DEF W, c, t, p
        <5>1. (IF r = <<>> THEN <<>> ELSE <<c>>) \o <<t, p>> \in Seq(W)
          BY <4>2, <4>3, ConcatProperties
        <5> QED  BY <5>1 DEF c, t, p
      <4> HIDE DEF more
      <4>5. more \in Seq(Tasks)
        BY <4>4, SeqMonotonic
      <4>6. \A i \in 1 .. Len(more) : more[i] \in W
        BY <4>4, ElementOfSeq
      <4> QED  BY <4>5, <4>6
    <3>4. /\ Local(local) /\ local.call = l.call /\ local.edited = l.edited
          /\ local.snap = l.snap /\ local.scratch = l.scratch
      BY <1>1 DEF Local, Fields
    <3>5. Goes(a, local, more)
      BY <1>7, <2>3 DEF Back
    <3> QED  BY <1>4, <2>1, <3>3, <3>4, <3>5
  <2> QED  BY <2>2, <2>3
<1> QED  BY <1>6, <1>7

-----------------------------------------------------------------------------
(* The specification.                                                      *)

LEMMA IdleFits == Local(Idle) /\ Idle.call.op \notin Checks
  BY DEF Idle, Local, Fields, Checks

LEMMA BeginFits ==
  ASSUME ActFits, FileOpsAssumption, NEW a \in Actors, NEW c \in Calls[a], Begin(a, c)
  PROVE  ActFits'
<1> DEFINE m == [Idle EXCEPT !.call = Resolved(c), !.todo = Script(c), !.buf = <<a>>]
<1>1. act' = [act EXCEPT ![a] = m]
  BY DEF Begin
<1>2. c \in [op : Ops, src : Seq(Names), dst : Seq(Names)]
  BY DEF FileOpsAssumption
<1>3. Local(m) /\ m.call = Resolved(c) /\ m.todo = Script(c) /\ m.snap = <<>>
  BY DEF Idle, Local, Fields
<1>4. ASSUME Resolved(c).op \in Checks PROVE CheckFits(m)
  <2>1. c.op \in Checks /\ Resolved(c) = c
    BY <1>2, <1>4 DEF Resolved, Checks
  <2>2. m.todo = CheckoutScript(c.src)
    BY <1>3, <2>1 DEF Script, Checks
  <2>3. DOMAIN <<>> = {}
    OBVIOUS
  <2>4. IsFiniteSet(DOMAIN m.snap) /\ DOMAIN m.snap \subseteq Seq(Names)
    BY <1>3, <2>3, FS_EmptySet
  <2>5. c.src \in Seq(Names) /\ <<>> \in Seq(Names)
    BY <1>2, EmptySeq
  <2>6. CASE m.todo = Refused
    <3>1. Task("refuse", <<>>, <<>>) \in Tasks /\ ReadTask(Task("refuse", <<>>, <<>>))
      BY <2>5 DEF Task, Tasks, Doings, ReadTask
    <3>2. \A t \in Tasks : <<t>> \in Seq(Tasks) /\ \A i \in 1 .. Len(<<t>>) : <<t>>[i] = t
      BY OneIsSeq
    <3>3. PICK t \in Tasks : ReadTask(t) /\ m.todo = <<t>>
      BY <2>6, <3>1, Zenon DEF Refused
    <3> HIDE DEF m
    <3>4. m.todo \in Seq(Tasks) /\ \A i \in 1 .. Len(m.todo) : ReadTask(m.todo[i])
      BY <3>2, <3>3
    <3> QED  BY <1>3, <2>1, <2>4, <2>5, <3>4 DEF CheckFits, Reads
  <2>7. ASSUME NEW do \in {"matdir", "matfile"}, m.todo = <<On(do, c.src), On("run", c.src)>>
        PROVE  CheckFits(m)
    <3>1. On(do, c.src) \in Tasks /\ On("run", c.src) \in Tasks
      BY <2>5 DEF On, Task, Tasks, Doings
    <3>2. <<On(do, c.src), On("run", c.src)>> \in Seq(Tasks)
      BY <3>1, TwoAreSeq
    <3> HIDE DEF m
    <3>3. Len(m.todo) = 2 /\ m.todo[1].do = do /\ m.todo[2].do = "run"
      BY <2>7 DEF On, Task
    <3>4. m.todo \in Seq(Tasks) /\ Reads(m)
      BY <2>7, <3>2, <3>3 DEF Reads, ReadTask
    <3> QED  BY <1>3, <2>1, <2>4, <2>5, <3>4 DEF CheckFits
  <2> QED  BY <2>2, <2>6, <2>7 DEF CheckoutScript
<1> QED  BY <1>1, <1>3, <1>4, OneReplaced DEF Fits

LEMMA FitsInit == Init => ActFits
  BY IdleFits DEF Init, ActFits, Fits

\* One call of a checkout.
LEMMA CheckStep ==
  ASSUME ActFits, NEW a \in Actors, act[a].call.op \in Checks, Call(a)
  PROVE  ActFits' /\ \A p \in Changed : \E r \in act[a].edited : p = Walk(act[a].call.src \o r)
<1>1. ASSUME UNCHANGED tree PROVE Changed = {}
  BY <1>1 DEF Changed, Node
<1>2. ASSUME Fail(a) PROVE ActFits' /\ UNCHANGED tree
  BY <1>2, Fails, EndedFits, OneReplaced DEF ActFits, Becomes, Fits, Fail
<1>3. CASE Refuse(a) \/ ClosureFails(a)
  BY <1>1, <1>2, <1>3 DEF Refuse, ClosureFails
<1>4. CASE MatFile(a) \/ MatDir(a) \/ MatEntry(a)
  BY <1>1, <1>4, ReadsOn
<1>5. CASE Run(a)
  BY <1>1, <1>5, RunChanges
<1>6. CASE Create(a) \/ Trunc(a) \/ Put(a) \/ Back(a)
  BY <1>6, WritesOn
<1> QED  BY <1>3, <1>4, <1>5, <1>6, CheckCalls

LEMMA FitsNext ==
  ASSUME ActFits, FileOpsAssumption, [Next]_vars
  PROVE  ActFits'
<1>1. CASE UNCHANGED vars
  BY <1>1 DEF vars, ActFits
<1>2. CASE Next
  <2>1. PICK a \in Actors : Step(a)
    BY <1>2 DEF Next
  <2>2. CASE \E c \in Calls[a] : Begin(a, c)
    BY <2>2, BeginFits
  <2>3. ASSUME NEW m, Becomes(a, m), act[a].call.op \notin Checks PROVE ActFits'
    BY <2>3, OneReplaced DEF Becomes, Fits
  <2>4. CASE Call(a)
    BY <2>3, <2>4, CallStays, CheckStep
  <2>5. CASE Breaks(a)
    <3>1. PICK m : Becomes(a, m) /\ m.todo = <<>> /\ m.snap = <<>>
      BY <2>5, Fails DEF Breaks
    <3>2. CASE act[a].call.op \in Checks
      BY <3>1, <3>2, EndedFits, OneReplaced DEF ActFits, Becomes, Fits
    <3> QED  BY <2>3, <3>1, <3>2
  <2> QED  BY <2>1, <2>2, <2>4, <2>5 DEF Step
<1> QED  BY <1>1, <1>2

\* A checkout writes back what its closure has changed and nothing else, on any tree,
\* with any calls of any other actors, and whichever calls fail.
THEOREM CheckoutKeepsTheRest == Spec => OnlyEditsWrittenBack
<1> DEFINE Only ==
      \A a \in Actors :
        act[a] # act'[a] /\ act[a].call.op \in {"checkout", "screen"} /\ act[a].todo # <<>> =>
          \A p \in Changed : \E r \in act[a].edited : p = Walk(act[a].call.src \o r)
<1>1. ASSUME ActFits, [Next]_vars PROVE [Only]_vars
  <2> SUFFICES ASSUME Next, NEW a \in Actors, act[a] # act'[a],
                      act[a].call.op \in Checks, act[a].todo # <<>>
               PROVE  \A p \in Changed : \E r \in act[a].edited : p = Walk(act[a].call.src \o r)
    BY <1>1 DEF Checks
  <2>1. PICK b \in Actors : Step(b)
    BY DEF Next
  <2>2. CASE b # a
    <3>1. \E m : act' = [act EXCEPT ![b] = m]
      <4>1. CASE \E c \in Calls[b] : Begin(b, c)
        BY <4>1 DEF Begin
      <4>2. CASE Call(b)
        BY <1>1, <4>2, CallStays DEF Becomes
      <4>3. CASE Breaks(b)
        BY <1>1, <4>3, Fails DEF Breaks, Becomes
      <4> QED  BY <2>1, <4>1, <4>2, <4>3 DEF Step
    <3> QED  BY <1>1, <2>2, <3>1 DEF ActFits
  <2>3. CASE b = a
    <3>1. CASE Call(a)
      BY <1>1, <3>1, CheckStep
    <3>2. CASE Breaks(a)
      BY <3>2 DEF Breaks, Fail, Changed, Node
    <3> QED  BY <2>1, <2>3, <3>1, <3>2 DEF Step, Begin
  <2> QED  BY <2>2, <2>3
<1>2. Spec => []ActFits
  BY FitsInit, FitsNext, FileOpsAssumption, PTL DEF Spec
<1>3. Spec => [][Only]_vars
  BY <1>1, <1>2, PTL DEF Spec
<1> QED  BY <1>3 DEF OnlyEditsWrittenBack

-----------------------------------------------------------------------------
\* Induction over the naturals, from the existence of a least element.
LEMMA NatInd ==
  ASSUME NEW S, 0 \in S, \A n \in Nat : n \in S => n + 1 \in S
  PROVE  Nat \subseteq S
<1> DEFINE R == {p \in Nat \X Nat : p[1] < p[2]}
           T == {n \in Nat : n \notin S}
<1>1. IsWellFoundedOn(R, Nat)
  BY NatLessThanWellFounded DEF OpToRel
<1>2. \A x, y \in Nat : x < y => <<x, y>> \in R
  OBVIOUS
<1>3. SUFFICES ASSUME T # {} PROVE FALSE
  OBVIOUS
<1>4. PICK x \in T : \A y \in T : <<y, x>> \notin R
  <2>1. T \subseteq Nat
    OBVIOUS
  <2> HIDE DEF R, T
  <2>2. QED BY <1>1, <1>3, <2>1, WFMin
<1> HIDE DEF R
<1>5. x # 0 /\ x - 1 \in Nat /\ x - 1 \notin T
  <2>1. x # 0 /\ x - 1 \in Nat
    OBVIOUS
  <2>2. <<x - 1, x>> \in R
    BY <2>1, <1>2
  <2>3. QED BY <2>1, <2>2, <1>4
<1>6. QED BY <1>5

-----------------------------------------------------------------------------
(* Paths.                                                                  *)

LEMMA PrefixIff ==
  ASSUME NEW s \in Seq(Names), NEW t \in Seq(Names)
  PROVE  IsPrefix(s, t) <=> Len(s) <= Len(t) /\ \A i \in 1 .. Len(s) : s[i] = t[i]
<1>1. Len(s) \in Nat /\ Len(t) \in Nat
  BY LenProperties
<1>2. CASE Len(s) > Len(t)
  BY <1>1, <1>2 DEF IsPrefix
<1>3. CASE Len(s) <= Len(t)
  <2>1. SubSeq(s, 1, Len(s)) = s
    BY SubSeqFull
  <2>2. /\ SubSeq(t, 1, Len(s)) \in Seq(Names) /\ Len(SubSeq(t, 1, Len(s))) = Len(s)
        /\ \A i \in 1 .. Len(s) : SubSeq(t, 1, Len(s))[i] = t[i]
    <3>1. \A i \in 1 .. Len(s) : t[i] \in Names
      BY <1>1, <1>3, ElementOfSeq
    <3>2. QED BY <1>1, <1>3, <3>1, SubSeqProperties
  <2>3. IsPrefix(s, t) <=> s = SubSeq(t, 1, Len(s))
    BY <1>3, <2>1 DEF IsPrefix
  <2>4. s = SubSeq(t, 1, Len(s)) <=> \A i \in 1 .. Len(s) : s[i] = SubSeq(t, 1, Len(s))[i]
    BY <2>2, SeqEqual
  <2>5. QED BY <1>3, <2>2, <2>3, <2>4
<1>4. QED BY <1>1, <1>2, <1>3

LEMMA PrefixOfConcat ==
  ASSUME NEW s \in Seq(Names), NEW r \in Seq(Names)
  PROVE  IsPrefix(s, s \o r) /\ Below(s \o r, s) = r
<1>1. /\ Len(s) \in Nat /\ Len(r) \in Nat
      /\ s \o r \in Seq(Names) /\ Len(s \o r) = Len(s) + Len(r)
      /\ \A i \in 1 .. Len(s) + Len(r) : (s \o r)[i] = IF i <= Len(s) THEN s[i] ELSE r[i - Len(s)]
  BY LenProperties, ConcatProperties
<1>2. IsPrefix(s, s \o r)
  <2>1. Len(s) <= Len(s \o r) /\ \A i \in 1 .. Len(s) : s[i] = (s \o r)[i]
    BY <1>1
  <2>2. QED BY <1>1, <2>1, PrefixIff
<1> DEFINE b == Below(s \o r, s)
<1>3. b \in Seq(Names)
  BY <1>1, BelowIsPath
<1>4. \A i \in Len(s) + 1 .. Len(s) + Len(r) : (s \o r)[i] \in Names
  BY <1>1, ElementOfSeq
<1>5. Len(b) = Len(r) /\ \A i \in 1 .. Len(r) : b[i] = (s \o r)[Len(s) + 1 + i - 1]
  <2>1. /\ Len(b) = IF Len(s) + 1 <= Len(s) + Len(r) THEN Len(s) + Len(r) - (Len(s) + 1) + 1 ELSE 0
        /\ \A i \in 1 .. Len(s) + Len(r) - (Len(s) + 1) + 1 : b[i] = (s \o r)[Len(s) + 1 + i - 1]
    BY <1>1, <1>4, SubSeqProperties DEF Below
  <2>2. QED BY <1>1, <2>1
<1> HIDE DEF b
<1>6. \A i \in 1 .. Len(r) : b[i] = r[i]
  <2> SUFFICES ASSUME NEW i \in 1 .. Len(r) PROVE b[i] = r[i]
    OBVIOUS
  <2>1. Len(s) + 1 + i - 1 = Len(s) + i /\ Len(s) + i \in 1 .. Len(s) + Len(r) /\ ~(Len(s) + i <= Len(s))
        /\ Len(s) + i - Len(s) = i
    BY <1>1
  <2>2. b[i] = (s \o r)[Len(s) + i]
    BY <1>5, <2>1
  <2>3. QED BY <1>1, <2>1, <2>2
<1>7. b = r
  BY <1>3, <1>5, <1>6, SeqEqual
<1>8. QED BY <1>2, <1>7 DEF b

LEMMA PrefixSplits ==
  ASSUME NEW s \in Seq(Names), NEW t \in Seq(Names), IsPrefix(s, t)
  PROVE  Below(t, s) \in Seq(Names) /\ t = s \o Below(t, s)
<1>1. /\ Len(s) \in Nat /\ Len(t) \in Nat /\ Len(s) <= Len(t)
      /\ \A i \in 1 .. Len(s) : s[i] = t[i]
  BY LenProperties, PrefixIff
<1> DEFINE b == Below(t, s)
<1>2. b \in Seq(Names)
  BY BelowIsPath
<1>3. Len(b) = Len(t) - Len(s) /\ \A i \in 1 .. Len(t) - Len(s) : b[i] = t[Len(s) + 1 + i - 1]
  <2>1. \A i \in Len(s) + 1 .. Len(t) : t[i] \in Names
    BY <1>1, ElementOfSeq
  <2>2. /\ Len(b) = IF Len(s) + 1 <= Len(t) THEN Len(t) - (Len(s) + 1) + 1 ELSE 0
        /\ \A i \in 1 .. Len(t) - (Len(s) + 1) + 1 : b[i] = t[Len(s) + 1 + i - 1]
    BY <1>1, <2>1, SubSeqProperties DEF Below
  <2>3. QED BY <1>1, <2>2
<1> HIDE DEF b
<1>4. /\ s \o b \in Seq(Names) /\ Len(s \o b) = Len(t)
      /\ \A i \in 1 .. Len(t) : (s \o b)[i] = IF i <= Len(s) THEN s[i] ELSE b[i - Len(s)]
  BY <1>1, <1>2, <1>3, ConcatProperties
<1>5. \A i \in 1 .. Len(t) : (s \o b)[i] = t[i]
  <2> SUFFICES ASSUME NEW i \in 1 .. Len(t) PROVE (s \o b)[i] = t[i]
    OBVIOUS
  <2>1. CASE i <= Len(s)
    BY <1>1, <1>4, <2>1
  <2>2. CASE ~(i <= Len(s))
    <3>1. i - Len(s) \in 1 .. Len(t) - Len(s) /\ Len(s) + 1 + (i - Len(s)) - 1 = i
      BY <1>1, <2>2
    <3>2. b[i - Len(s)] = t[i]
      BY <1>3, <3>1
    <3>3. QED BY <1>4, <2>2, <3>2
  <2>3. QED BY <2>1, <2>2
<1>6. s \o b = t
  BY <1>4, <1>5, SeqEqual
<1>7. QED BY <1>2, <1>6 DEF b

\* Two beginnings of one path.
LEMMA Comparable ==
  ASSUME NEW s \in Seq(Names), NEW t \in Seq(Names), NEW u \in Seq(Names),
         IsPrefix(s, u), IsPrefix(t, u)
  PROVE  IsPrefix(s, t) \/ IsPrefix(t, s)
<1>1. /\ Len(s) \in Nat /\ Len(t) \in Nat /\ Len(s) <= Len(u) /\ Len(t) <= Len(u)
      /\ \A i \in 1 .. Len(s) : s[i] = u[i]
      /\ \A i \in 1 .. Len(t) : t[i] = u[i]
  BY LenProperties, PrefixIff
<1>2. CASE Len(s) <= Len(t)
  BY <1>1, <1>2, PrefixIff
<1>3. CASE Len(t) <= Len(s)
  BY <1>1, <1>3, PrefixIff
<1>4. QED BY <1>1, <1>2, <1>3

LEMMA PrefixTrans ==
  ASSUME NEW s \in Seq(Names), NEW t \in Seq(Names), NEW u \in Seq(Names),
         IsPrefix(s, t), IsPrefix(t, u)
  PROVE  IsPrefix(s, u)
<1>1. /\ Len(s) \in Nat /\ Len(t) \in Nat /\ Len(u) \in Nat
      /\ Len(s) <= Len(t) /\ Len(t) <= Len(u)
      /\ \A i \in 1 .. Len(s) : s[i] = t[i]
      /\ \A i \in 1 .. Len(t) : t[i] = u[i]
  BY LenProperties, PrefixIff
<1>2. QED BY <1>1, PrefixIff

\* A path that is not empty, and the directory its entry is in.
LEMMA FrontLast ==
  ASSUME NEW p \in Seq(Names), p # <<>>
  PROVE  /\ Front(p) \in Seq(Names) /\ Last(p) \in Names
         /\ p = Front(p) \o <<Last(p)>> /\ Len(Front(p)) = Len(p) - 1
<1>1. PICK s \in Seq(Names), n \in Names : p = Append(s, n)
  BY SequenceEmptyOrAppend
<1>2. Len(p) = Len(s) + 1 /\ Len(s) \in Nat /\ p[Len(p)] = n /\ \A i \in 1 .. Len(s) : p[i] = s[i]
  BY <1>1, AppendProperties, LenProperties
<1>3. Front(p) = s
  <2>1. \A i \in 1 .. Len(s) : p[i] \in Names
    BY <1>2, ElementOfSeq
  <2>2. /\ SubSeq(p, 1, Len(s)) \in Seq(Names) /\ Len(SubSeq(p, 1, Len(s))) = Len(s)
        /\ \A i \in 1 .. Len(s) : SubSeq(p, 1, Len(s))[i] = p[i]
    BY <1>2, <2>1, SubSeqProperties
  <2>3. SubSeq(p, 1, Len(s)) = s
    BY <1>2, <2>2, SeqEqual
  <2>4. Len(p) - 1 = Len(s)
    BY <1>2
  <2>5. QED BY <2>3, <2>4 DEF Front
<1>4. QED BY <1>1, <1>2, <1>3, AppendIsConcat DEF Last

LEMMA FrontOfConcat ==
  ASSUME NEW s \in Seq(Names), NEW n \in Names
  PROVE  /\ s \o <<n>> \in Seq(Names) /\ s \o <<n>> # <<>>
         /\ Front(s \o <<n>>) = s /\ Last(s \o <<n>>) = n
<1>1. s \o <<n>> = Append(s, n) /\ Append(s, n) \in Seq(Names) /\ Append(s, n) # <<>>
  BY AppendIsConcat, AppendProperties
<1> DEFINE p == Append(s, n)
<1>2. /\ Front(p) \in Seq(Names) /\ Last(p) \in Names /\ p = Front(p) \o <<Last(p)>>
  BY <1>1, FrontLast
<1>3. p = Append(Front(p), Last(p))
  BY <1>2, AppendIsConcat
<1> HIDE DEF p
<1>4. Front(p) = s /\ Last(p) = n
  BY <1>2, <1>3, AppendInjective DEF p
<1>5. QED BY <1>1, <1>4 DEF p

LEMMA PathsAre ==
  ASSUME NEW p
  PROVE  /\ p \in Paths <=> p \in Seq(Names) /\ Len(p) \in 1 .. MaxDepth
         /\ p \in Paths => p # <<>>
<1>1. ASSUME p \in Paths PROVE p \in Seq(Names) /\ Len(p) \in 1 .. MaxDepth
  <2>1. PICK n \in 1 .. MaxDepth : p \in [1 .. n -> Names]
    BY <1>1 DEF Paths
  <2>2. QED BY <2>1, FunIsSeq
<1>2. ASSUME p \in Seq(Names), Len(p) \in 1 .. MaxDepth PROVE p \in Paths
  BY <1>2, LenProperties DEF Paths
<1>3. ASSUME p \in Paths PROVE p # <<>>
  BY <1>1, <1>3, EmptySeq
<1>4. QED BY <1>1, <1>2, <1>3

LEMMA WalkIsPath ==
  ASSUME FileOpsAssumption, NEW p \in Seq(Names)
  PROVE  Walk(p) \in Seq(Names) /\ (Walk(p) = <<>> <=> p = <<>>)
<1>1. BindAt \in Seq(Names) /\ BindTo \in Seq(Names) /\ BindAt # <<>> /\ BindTo # <<>>
  BY PathsAre DEF FileOpsAssumption
<1>2. CASE IsWithin(p, BindAt)
  <2>1. Walk(p) = BindTo \o Below(p, BindAt) /\ Below(p, BindAt) \in Seq(Names)
    BY <1>1, <1>2, BelowIsPath DEF Walk
  <2>2. Walk(p) \in Seq(Names) /\ Walk(p) # <<>>
    BY <1>1, <2>1, ConcatProperties, ConcatEqualIffEmpty
  <2>3. p # <<>>
    <3>1. Len(BindAt) \in Nat \ {0} /\ Len(BindAt) <= Len(p)
      BY <1>1, <1>2, EmptySeq, PrefixIff DEF IsWithin
    <3>2. QED BY <3>1, EmptySeq
  <2>4. QED BY <2>2, <2>3
<1>3. CASE ~IsWithin(p, BindAt)
  BY <1>3 DEF Walk
<1>4. QED BY <1>2, <1>3

\* What lies beneath p is found beneath the place of p, unless the bind is beneath p.
LEMMA WalkConcat ==
  ASSUME FileOpsAssumption, NEW p \in Seq(Names), NEW r \in Seq(Names), p # <<>>, ~Grafted(p)
  PROVE  Walk(p \o r) = Walk(p) \o r
<1>1. BindAt \in Seq(Names) /\ BindTo \in Seq(Names)
  BY PathsAre DEF FileOpsAssumption
<1>2. p \o r \in Seq(Names) /\ IsPrefix(p, p \o r)
  BY ConcatProperties, PrefixOfConcat
<1>3. CASE IsPrefix(BindAt, p)
  <2>1. IsPrefix(BindAt, p \o r)
    BY <1>1, <1>2, <1>3, PrefixTrans
  <2> DEFINE b == Below(p, BindAt)
  <2>2. b \in Seq(Names) /\ p = BindAt \o b
    BY <1>1, <1>3, PrefixSplits
  <2> HIDE DEF b
  <2>3. p \o r = BindAt \o (b \o r) /\ b \o r \in Seq(Names)
    <3>1. BindAt \in Seq(Names) /\ b \in Seq(Names) /\ r \in Seq(Names)
      BY <1>1, <2>2
    <3>2. (BindAt \o b) \o r = BindAt \o (b \o r)
      BY <3>1, ConcatAssociative, SMTT(60)
    <3>3. QED BY <2>2, <3>1, <3>2, ConcatProperties
  <2>4. Below(p \o r, BindAt) = b \o r
    <3>1. \A u \in Seq(Names) : Below(BindAt \o u, BindAt) = u
      BY <1>1, PrefixOfConcat
    <3>2. QED BY <2>3, <3>1
  <2>8. (BindTo \o b) \o r = BindTo \o (b \o r)
    <3>1. BindTo \in Seq(Names) /\ b \in Seq(Names) /\ r \in Seq(Names)
      BY <1>1, <2>2
    <3>2. QED BY <3>1, ConcatAssociative, SMTT(60)
  <2>5. Walk(p \o r) = BindTo \o (b \o r)
    BY <2>1, <2>4 DEF Walk, IsWithin
  <2>6. Walk(p) = BindTo \o b
    BY <1>3 DEF Walk, IsWithin, b
  <2>7. QED BY <2>5, <2>6, <2>8
<1>4. CASE ~IsPrefix(BindAt, p)
  <2>1. Walk(p) = p
    BY <1>4 DEF Walk, IsWithin
  <2>2. ASSUME IsPrefix(BindAt, p \o r) PROVE FALSE
    <3>1. IsPrefix(p, BindAt)
      BY <1>1, <1>2, <1>4, <2>2, Comparable
    <3>2. p # BindAt
      BY <1>1, <1>4, PrefixIff
    <3>3. QED BY <3>1, <3>2 DEF Grafted, IsWithin
  <2>3. Walk(p \o r) = p \o r
    BY <2>2 DEF Walk, IsWithin
  <2>4. QED BY <2>1, <2>3
<1>5. QED BY <1>3, <1>4

\* The directory of an entry that is not the mount point.
LEMMA WalkEntry ==
  ASSUME FileOpsAssumption, NEW p \in Seq(Names), NEW n \in Names, p \o <<n>> # BindAt
  PROVE  Walk(p \o <<n>>) = Walk(p) \o <<n>>
<1>1. BindAt \in Seq(Names) /\ BindTo \in Seq(Names) /\ BindAt # <<>>
  BY PathsAre DEF FileOpsAssumption
<1>2. p \o <<n>> \in Seq(Names) /\ <<n>> \in Seq(Names) /\ Len(<<n>>) = 1
  BY FrontOfConcat, OneIsSeq
<1>3. CASE IsPrefix(BindAt, p)
  <2>1. p # <<>> /\ ~Grafted(p)
    <3>1. p # <<>>
      <4>1. Len(BindAt) \in Nat \ {0} /\ Len(BindAt) <= Len(p)
        BY <1>1, <1>3, EmptySeq, PrefixIff
      <4>2. QED BY <4>1, EmptySeq
    <3>2. IsPrefix(p, BindAt) => p = BindAt
      <4>1. Len(p) \in Nat /\ Len(BindAt) \in Nat
        BY <1>1, LenProperties
      <4>2. ASSUME IsPrefix(p, BindAt) PROVE Len(p) = Len(BindAt) /\ \A i \in 1 .. Len(p) : p[i] = BindAt[i]
        BY <1>1, <1>3, <4>1, <4>2, PrefixIff
      <4>3. QED BY <1>1, <4>2, SeqEqual
    <3>3. QED BY <3>1, <3>2 DEF Grafted, IsWithin
  <2>2. QED BY <1>2, <2>1, WalkConcat
<1>4. CASE ~IsPrefix(BindAt, p)
  <2>1. Walk(p) = p
    BY <1>4 DEF Walk, IsWithin
  <2>2. ASSUME IsPrefix(BindAt, p \o <<n>>) PROVE FALSE
    <3> DEFINE q == p \o <<n>>
    <3>1. /\ Len(q) = Len(p) + 1 /\ Len(p) \in Nat /\ Len(BindAt) \in Nat /\ Len(BindAt) <= Len(q)
          /\ \A i \in 1 .. Len(BindAt) : BindAt[i] = q[i]
          /\ \A i \in 1 .. Len(p) : q[i] = p[i]
      <4>1. /\ Len(q) = Len(p) + 1 /\ Len(p) \in Nat /\ Len(BindAt) \in Nat
            /\ \A i \in 1 .. Len(p) : q[i] = p[i]
        BY <1>1, <1>2, LenProperties, ConcatProperties
      <4>2. Len(BindAt) <= Len(q) /\ \A i \in 1 .. Len(BindAt) : BindAt[i] = q[i]
        BY <1>1, <1>2, <2>2, PrefixIff
      <4>3. QED BY <4>1, <4>2
    <3>2. CASE Len(BindAt) = Len(q)
      <4> HIDE DEF q
      <4>1. BindAt = q
        BY <1>1, <1>2, <3>1, <3>2, SeqEqual DEF q
      <4>2. QED BY <4>1 DEF q
    <3>3. CASE Len(BindAt) <= Len(p)
      <4>1. \A i \in 1 .. Len(BindAt) : BindAt[i] = p[i]
        BY <3>1, <3>3
      <4>2. QED BY <1>1, <1>4, <3>3, <4>1, PrefixIff
    <3>4. QED BY <3>1, <3>2, <3>3
  <2>3. Walk(p \o <<n>>) = p \o <<n>>
    BY <2>2 DEF Walk, IsWithin
  <2>4. QED BY <2>1, <2>3
<1>5. QED BY <1>3, <1>4

-----------------------------------------------------------------------------
(* Trees.                                                                  *)

LEMMA NodesOf ==
  ASSUME NEW t, WellFormed(t), NEW p \in Seq(Names)
  PROVE  /\ Node(t, p) \in {Dir, Absent} \/ (Node(t, p) = File(Node(t, p).data) /\ Node(t, p).data \in Seq(Chunks))
         /\ Node(t, p).kind \in {"dir", "file", "absent"}
         /\ Node(t, p).kind = "file" => p # <<>> /\ Node(t, p) = File(Node(t, p).data) /\ Node(t, p).data \in Seq(Chunks)
         /\ Node(t, p).kind = "dir" <=> Node(t, p) = Dir
         /\ Node(t, p).kind = "absent" <=> p # <<>> /\ p \notin DOMAIN t
<1>1. CASE p = <<>>
  BY <1>1 DEF Node, Dir, Absent
<1>2. CASE p # <<>> /\ p \notin DOMAIN t
  BY <1>2 DEF Node, Dir, Absent
<1>3. CASE p # <<>> /\ p \in DOMAIN t
  <2>1. Node(t, p) = t[p]
    BY <1>3 DEF Node
  <2>2. t[p] = Dir \/ (t[p] = File(t[p].data) /\ t[p].data \in Seq(Chunks))
    BY <1>3 DEF WellFormed
  <2>3. CASE t[p] = Dir
    BY <1>3, <2>1, <2>3 DEF Dir
  <2>4. CASE t[p] = File(t[p].data) /\ t[p].data \in Seq(Chunks)
    <3>1. t[p].kind = "file" /\ Dir.kind = "dir"
      BY <2>4 DEF File, Dir
    <3>2. QED BY <1>3, <2>1, <2>4, <3>1
  <2>5. QED BY <2>2, <2>3, <2>4
<1>4. QED BY <1>1, <1>2, <1>3

\* What has something beneath it is a directory.
LEMMA Ancestors ==
  ASSUME NEW t, WellFormed(t), NEW p \in Seq(Names), NEW r \in Seq(Names), r # <<>>,
         Node(t, p \o r).kind # "absent"
  PROVE  Node(t, p).kind = "dir"
<1> DEFINE Up(s) == Node(t, p \o s).kind # "absent" => Node(t, p).kind = "dir"
           S == {n \in Nat : \A s \in Seq(Names) : Len(s) = n + 1 => Up(s)}
<1>1. ASSUME NEW s \in Seq(Names), s # <<>>, Node(t, p \o s).kind # "absent"
      PROVE  Node(t, p \o Front(s)).kind = "dir"
  <2>1. Front(s) \in Seq(Names) /\ Last(s) \in Names /\ s = Front(s) \o <<Last(s)>> /\ <<Last(s)>> \in Seq(Names)
    BY <1>1, FrontLast, OneIsSeq
  <2>2. p \o Front(s) \in Seq(Names) /\ p \o s \in Seq(Names)
    BY <1>1, <2>1, ConcatProperties
  <2>3. (p \o Front(s)) \o <<Last(s)>> = p \o (Front(s) \o <<Last(s)>>)
    <3> HIDE <1>1
    <3>1. Front(s) \in Seq(Names) /\ <<Last(s)>> \in Seq(Names)
      BY <2>1
    <3>2. QED BY <3>1, ConcatAssociative, SMTT(60)
  <2>4. p \o s = (p \o Front(s)) \o <<Last(s)>>
    BY <2>1, <2>3
  <2>5. Front(p \o s) = p \o Front(s) /\ p \o s # <<>>
    BY <2>1, <2>2, <2>4, FrontOfConcat
  <2>6. p \o s \in DOMAIN t
    BY <1>1, <2>2, <2>5, NodesOf
  <2>7. QED BY <2>5, <2>6 DEF WellFormed
<1>2. 0 \in S
  <2> SUFFICES ASSUME NEW s \in Seq(Names), Len(s) = 1, Node(t, p \o s).kind # "absent"
               PROVE  Node(t, p).kind = "dir"
    OBVIOUS
  <2> HIDE DEF S
  <2>1. s # <<>>
    <3>1. Len(<<>>) # 1
      OBVIOUS
    <3>2. QED BY <3>1, Zenon
  <2>2. Node(t, p \o Front(s)).kind = "dir"
    BY <1>1, <2>1
  <2>3. Front(s) = <<>>
    <3>1. Front(s) \in Seq(Names) /\ Len(Front(s)) = 1 - 1
      BY <2>1, FrontLast
    <3>2. QED BY <3>1, NothingIsEmpty
  <2>4. p \o Front(s) = p
    BY <2>3, ConcatEmptySeq
  <2>5. QED BY <2>2, <2>4
<1>3. ASSUME NEW n \in Nat, n \in S PROVE n + 1 \in S
  <2> SUFFICES ASSUME NEW s \in Seq(Names), Len(s) = n + 2, Node(t, p \o s).kind # "absent"
               PROVE  Node(t, p).kind = "dir"
    OBVIOUS
  <2> HIDE DEF S
  <2>1. s # <<>>
    <3>1. Len(<<>>) = 0
      OBVIOUS
    <3>2. QED BY <3>1
  <2>2. Node(t, p \o Front(s)).kind = "dir"
    BY <1>1, <2>1
  <2>3. Front(s) \in Seq(Names) /\ Len(Front(s)) = n + 1
    <3>1. Front(s) \in Seq(Names) /\ Len(Front(s)) = (n + 2) - 1
      BY <2>1, FrontLast
    <3>2. QED BY <3>1
  <2>4. QED BY <1>3, <2>2, <2>3 DEF S
<1>4. Nat \subseteq S
  <2> HIDE DEF S
  <2>1. QED BY <1>2, <1>3, NatInd
<1>5. Len(r) \in Nat \ {0}
  BY EmptySeq
<1>6. Len(r) - 1 \in Nat /\ Len(r) = (Len(r) - 1) + 1
  BY <1>5
<1>7. Len(r) - 1 \in S
  BY <1>4, <1>6
<1>8. QED BY <1>6, <1>7

\* A node is made where there is a directory for it, or in the place of a file.
LEMMA PutKeeps ==
  ASSUME NEW t, WellFormed(t), NEW w \in Paths, NEW node, NEW u,
         node = Dir \/ \E d \in Seq(Chunks) : Len(d) <= MaxLen /\ node = File(d),
         Node(t, w).kind # "dir", Node(t, Front(w)).kind = "dir",
         u = [q \in DOMAIN t \cup {w} |-> IF q = w THEN node ELSE t[q]]
  PROVE  WellFormed(u)
<1>1. w \in Seq(Names) /\ w # <<>>
  BY PathsAre
<1>2. DOMAIN u = DOMAIN t \cup {w} /\ DOMAIN u \subseteq Paths /\ DOMAIN t \subseteq Paths
  BY DEF WellFormed
<1>3. ASSUME NEW q, Node(t, q).kind = "dir" PROVE Node(u, q).kind = "dir"
  <2>1. q # w
    BY <1>3
  <2>2. QED BY <1>3, <2>1 DEF Node
<1>4. ASSUME NEW p \in DOMAIN u
      PROVE  u[p] = Dir \/ (u[p] = File(u[p].data) /\ u[p].data \in Seq(Chunks) /\ Len(u[p].data) <= MaxLen)
  <2>1. CASE p = w
    <3>1. u[p] = node
      BY <2>1
    <3>2. \A d : File(d).data = d
      BY DEF File
    <3>3. QED BY <3>1, <3>2
  <2>2. CASE p # w
    BY <2>2 DEF WellFormed
  <2>3. QED BY <2>1, <2>2
<1>5. ASSUME NEW p \in DOMAIN u PROVE Node(u, Front(p)).kind = "dir"
  <2>1. Node(t, Front(p)).kind = "dir"
    BY DEF WellFormed
  <2>2. QED BY <1>3, <2>1
<1>6. QED BY <1>2, <1>4, <1>5 DEF WellFormed

\* A file goes, or a directory with nothing in it.
LEMMA CutKeeps ==
  ASSUME NEW t, WellFormed(t), NEW w \in Seq(Names), NEW u,
         \A q \in DOMAIN t : IsPrefix(w, q) => q = w,
         u = [q \in DOMAIN t \ {w} |-> t[q]]
  PROVE  WellFormed(u)
<1>1. DOMAIN u = DOMAIN t \ {w} /\ DOMAIN t \subseteq Paths
  BY DEF WellFormed
<1>2. ASSUME NEW p \in DOMAIN u PROVE Node(u, Front(p)).kind = "dir"
  <2>1. p \in DOMAIN t /\ p # w /\ p \in Seq(Names) /\ p # <<>>
    BY <1>1, PathsAre
  <2>2. Node(t, Front(p)).kind = "dir"
    BY <2>1 DEF WellFormed
  <2>3. Front(p) # w
    <3>1. Front(p) \in Seq(Names) /\ Last(p) \in Names /\ p = Front(p) \o <<Last(p)>> /\ <<Last(p)>> \in Seq(Names)
      BY <2>1, FrontLast, OneIsSeq
    <3>2. IsPrefix(Front(p), Front(p) \o <<Last(p)>>)
      BY <3>1, PrefixOfConcat
    <3>3. QED BY <2>1, <3>1, <3>2
  <2>4. QED BY <2>2, <2>3 DEF Node
<1>3. QED BY <1>1, <1>2 DEF WellFormed

LEMMA FileHasNothingBeneath ==
  ASSUME NEW t, WellFormed(t), NEW w \in Seq(Names), Node(t, w).kind # "dir",
         NEW q \in DOMAIN t, IsPrefix(w, q)
  PROVE  q = w
<1>1. q \in Seq(Names)
  BY PathsAre DEF WellFormed
<1> DEFINE r == Below(q, w)
<1>2. r \in Seq(Names) /\ q = w \o r
  BY <1>1, PrefixSplits
<1>3. Node(t, q).kind # "absent"
  BY <1>1, NodesOf
<1> HIDE DEF r
<1>4. r = <<>>
  BY <1>2, <1>3, Ancestors
<1>5. QED BY <1>2, <1>4, ConcatEmptySeq

\* What u has at d and beneath it is what t has at s.
SameBeneath(u, d, t, s) == \A r \in Seq(Names) : Node(u, d \o r) = Node(t, s \o r)

\* The tree t after the subtree at s has become the one at d.
Moved(t, s, d) ==
  LET moved == {q \in DOMAIN t : IsWithin(q, s)} IN
  [p \in (DOMAIN t \ moved) \cup {d \o Below(q, s) : q \in moved} |->
     IF IsWithin(p, d) THEN t[s \o Below(p, d)] ELSE t[p]]

\* The subtree at s becomes the one at d, in the same directory, where there is no more
\* than one node to be replaced.
LEMMA MoveKeeps ==
  ASSUME NEW t, WellFormed(t), NEW s \in Seq(Names), s # <<>>, NEW n \in Names,
         NEW d, d = Front(s) \o <<n>>, Node(t, s).kind # "absent",
         s = d \/ \A q \in DOMAIN t : IsPrefix(d, q) => q = d,
         NEW u, u = Moved(t, s, d)
  PROVE  WellFormed(u) /\ SameBeneath(u, d, t, s)
<1> DEFINE moved == {q \in DOMAIN t : IsWithin(q, s)}
           dest  == {d \o Below(q, s) : q \in moved}
<1>1. /\ Front(s) \in Seq(Names) /\ Last(s) \in Names /\ s = Front(s) \o <<Last(s)>>
      /\ d \in Seq(Names) /\ d # <<>> /\ Front(d) = Front(s) /\ Len(d) = Len(s)
      /\ Len(s) \in Nat
  <2>1. /\ Front(s) \in Seq(Names) /\ Last(s) \in Names /\ s = Front(s) \o <<Last(s)>>
        /\ Len(Front(s)) = Len(s) - 1 /\ Len(s) \in Nat
    BY FrontLast, LenProperties
  <2>2. d \in Seq(Names) /\ d # <<>> /\ Front(d) = Front(s)
    BY <2>1, FrontOfConcat
  <2>3. Len(Front(d)) = Len(d) - 1 /\ Len(d) \in Nat
    BY <2>2, FrontLast, LenProperties
  <2>4. QED BY <2>1, <2>2, <2>3, SMTT(30)
<1>2. \A q \in DOMAIN t : q \in Seq(Names) /\ q # <<>> /\ Len(q) \in 1 .. MaxDepth
  BY PathsAre DEF WellFormed
<1>3. s \in DOMAIN t
  BY NodesOf
<1>4. ASSUME NEW r \in Seq(Names)
      PROVE  /\ s \o r \in Seq(Names) /\ d \o r \in Seq(Names)
             /\ IsWithin(s \o r, s) /\ Below(s \o r, s) = r
             /\ IsWithin(d \o r, d) /\ Below(d \o r, d) = r
             /\ Len(s \o r) = Len(d \o r)
             /\ s \o r # <<>> /\ d \o r # <<>>
  <2>1. s \o r \in Seq(Names) /\ d \o r \in Seq(Names)
    BY <1>1, ConcatProperties
  <2>2. Len(s \o r) = Len(d \o r)
    <3>1. Len(s \o r) = Len(s) + Len(r) /\ Len(d \o r) = Len(d) + Len(r)
      BY <1>1, ConcatProperties
    <3>2. QED BY <1>1, <3>1
  <2>3. s \o r # <<>> /\ d \o r # <<>>
    BY <1>1, ConcatEqualIffEmpty
  <2>4. /\ IsWithin(s \o r, s) /\ Below(s \o r, s) = r
        /\ IsWithin(d \o r, d) /\ Below(d \o r, d) = r
    BY <1>1, PrefixOfConcat DEF IsWithin
  <2>5. QED BY <2>1, <2>2, <2>3, <2>4
<1>5. ASSUME NEW q \in Seq(Names), IsWithin(q, s)
      PROVE  Below(q, s) \in Seq(Names) /\ q = s \o Below(q, s)
  BY <1>5, PrefixSplits DEF IsWithin
<1>6. ASSUME NEW q \in Seq(Names), IsWithin(q, d)
      PROVE  Below(q, d) \in Seq(Names) /\ q = d \o Below(q, d)
  BY <1>1, <1>6, PrefixSplits DEF IsWithin
<1>7. /\ DOMAIN u = (DOMAIN t \ moved) \cup dest
      /\ \A p \in DOMAIN u : u[p] = IF IsWithin(p, d) THEN t[s \o Below(p, d)] ELSE t[p]
  BY DEF Moved
<1>8. ASSUME NEW r \in Seq(Names)
      PROVE  d \o r \in DOMAIN u <=> s \o r \in DOMAIN t
  <2>1. ASSUME s \o r \in DOMAIN t PROVE d \o r \in DOMAIN u
    <3>1. s \o r \in moved
      BY <1>4, <2>1
    <3>2. d \o Below(s \o r, s) \in dest
      BY <3>1
    <3>3. QED BY <1>4, <1>7, <3>2
  <2>2. ASSUME d \o r \in dest PROVE s \o r \in DOMAIN t
    <3>1. PICK q \in moved : d \o r = d \o Below(q, s)
      BY <2>2
    <3>2. Below(q, s) \in Seq(Names) /\ q = s \o Below(q, s)
      BY <1>2, <1>5, <3>1
    <3>3. Below(q, s) = r
      <4>1. Below(d \o Below(q, s), d) = Below(q, s)
        BY <1>4, <3>2
      <4>2. QED BY <1>4, <3>1, <4>1
    <3>4. QED BY <3>1, <3>2, <3>3
  <2>3. ASSUME d \o r \in DOMAIN t, d \o r \notin moved PROVE s \o r \in DOMAIN t
    <3>1. CASE s = d
      BY <2>3, <3>1
    <3>2. CASE s # d
      <4>1. IsPrefix(d, d \o r)
        BY <1>4 DEF IsWithin
      <4>2. d \o r = d
        BY <2>3, <3>2, <4>1
      <4>3. r = <<>>
        BY <1>1, <4>2, ConcatEqualIffEmpty
      <4>4. s \o r = s
        BY <4>3, ConcatEmptySeq
      <4>5. QED BY <1>3, <4>4
    <3>3. QED BY <3>1, <3>2
  <2>4. QED BY <1>7, <2>1, <2>2, <2>3
<1>9. \A r \in Seq(Names) : Node(u, d \o r) = Node(t, s \o r)
  <2> SUFFICES ASSUME NEW r \in Seq(Names) PROVE Node(u, d \o r) = Node(t, s \o r)
    OBVIOUS
  <2>1. d \o r \in DOMAIN u => u[d \o r] = t[s \o r]
    BY <1>4, <1>7
  <2>2. QED BY <1>4, <1>8, <2>1 DEF Node
<1>10. ASSUME NEW q \in Seq(Names), ~IsWithin(q, s), ~IsWithin(q, d)
       PROVE  Node(u, q) = Node(t, q)
  <2>1. q \notin moved /\ q \notin dest
    BY <1>2, <1>4, <1>5, <1>10, ZenonT(30)
  <2>2. q \in DOMAIN u <=> q \in DOMAIN t
    BY <1>7, <2>1
  <2>3. q \in DOMAIN u => u[q] = t[q]
    BY <1>7, <1>10
  <2>4. QED BY <2>2, <2>3 DEF Node
<1>11. ASSUME NEW p \in DOMAIN u PROVE p \in Seq(Names) /\ (IsWithin(p, d) \/ (p \in DOMAIN t /\ ~IsWithin(p, s)))
  <2>1. CASE p \in dest
    BY <1>2, <1>4, <1>5, <2>1, ZenonT(30)
  <2>2. CASE p \in DOMAIN t \ moved
    BY <1>2, <2>2
  <2>3. QED BY <1>7, <2>1, <2>2
<1> HIDE DEF moved, dest
<1>12. ASSUME NEW p \in DOMAIN u, IsWithin(p, d)
       PROVE  /\ s \o Below(p, d) \in DOMAIN t /\ Len(p) = Len(s \o Below(p, d))
              /\ u[p] = t[s \o Below(p, d)] /\ Below(p, d) \in Seq(Names) /\ p = d \o Below(p, d)
  <2>1. Below(p, d) \in Seq(Names) /\ p = d \o Below(p, d)
    BY <1>6, <1>11, <1>12
  <2>2. d \o Below(p, d) \in DOMAIN u
    BY <2>1
  <2>3. s \o Below(p, d) \in DOMAIN t
    BY <1>8, <2>1, <2>2
  <2>4. Len(d \o Below(p, d)) = Len(s \o Below(p, d))
    BY <1>4, <2>1
  <2>5. QED BY <1>7, <1>12, <2>1, <2>3, <2>4
<1>13. DOMAIN u \subseteq Paths
  <2> SUFFICES ASSUME NEW p \in DOMAIN u PROVE p \in Paths
    OBVIOUS
  <2>1. CASE IsWithin(p, d)
    BY <1>2, <1>11, <1>12, <2>1, PathsAre
  <2>2. CASE ~IsWithin(p, d)
    BY <1>11, <2>2 DEF WellFormed
  <2>3. QED BY <2>1, <2>2
<1>14. ASSUME NEW p \in DOMAIN u
       PROVE  u[p] = Dir \/ (u[p] = File(u[p].data) /\ u[p].data \in Seq(Chunks) /\ Len(u[p].data) <= MaxLen)
  <2>1. PICK q \in DOMAIN t : u[p] = t[q]
    <3>1. CASE IsWithin(p, d)
      BY <1>12, <3>1
    <3>2. CASE ~IsWithin(p, d)
      BY <1>7, <1>11, <3>2
    <3>3. QED BY <3>1, <3>2
  <2>2. QED BY <2>1 DEF WellFormed
<1>15. Node(u, Front(s)).kind = "dir"
  <2>1. Node(t, Front(s)).kind = "dir"
    BY <1>3 DEF WellFormed
  <2>2. \A x \in Seq(Names) : Len(x) = Len(s) => ~IsWithin(Front(s), x)
    <3>1. Len(Front(s)) = Len(s) - 1
      BY FrontLast
    <3>2. QED BY <1>1, <3>1, PrefixIff DEF IsWithin
  <2>3. QED BY <1>1, <1>10, <2>1, <2>2
<1>16. ASSUME NEW p \in DOMAIN u PROVE Node(u, Front(p)).kind = "dir"
  <2>1. CASE IsWithin(p, d)
    <3> DEFINE r == Below(p, d)
    <3>1. r \in Seq(Names) /\ p = d \o r /\ s \o r \in DOMAIN t
      BY <1>12, <2>1
    <3> HIDE DEF r
    <3>2. CASE r = <<>>
      <4>1. p = d
        BY <1>1, <3>1, <3>2, ConcatEmptySeq
      <4>2. QED BY <1>1, <1>15, <4>1
    <3>3. CASE r # <<>>
      <4>1. /\ Front(r) \in Seq(Names) /\ Last(r) \in Names /\ r = Front(r) \o <<Last(r)>>
            /\ <<Last(r)>> \in Seq(Names)
        BY <3>1, <3>3, FrontLast, OneIsSeq
      <4>2. ASSUME NEW x \in Seq(Names) PROVE Front(x \o r) = x \o Front(r)
        <5>1. (x \o Front(r)) \o <<Last(r)>> = x \o (Front(r) \o <<Last(r)>>)
          <6>1. Front(r) \in Seq(Names) /\ <<Last(r)>> \in Seq(Names)
            BY <4>1
          <6>2. QED BY <6>1, ConcatAssociative, SMTT(60)
        <5>2. x \o Front(r) \in Seq(Names)
          BY <4>1, ConcatProperties
        <5>3. Front((x \o Front(r)) \o <<Last(r)>>) = x \o Front(r)
          BY <4>1, <5>2, FrontOfConcat
        <5>4. QED BY <4>1, <5>1, <5>3
      <4>3. Node(t, Front(s \o r)).kind = "dir"
        BY <3>1 DEF WellFormed
      <4>4. Node(u, d \o Front(r)) = Node(t, s \o Front(r))
        BY <1>9, <4>1
      <4>5. Front(d \o r) = d \o Front(r) /\ Front(s \o r) = s \o Front(r)
        BY <1>1, <4>2
      <4>6. QED BY <3>1, <4>3, <4>4, <4>5
    <3>4. QED BY <3>2, <3>3
  <2>2. CASE ~IsWithin(p, d)
    <3>1. p \in DOMAIN t /\ ~IsWithin(p, s) /\ p \in Seq(Names) /\ p # <<>>
      BY <1>2, <1>11, <2>2
    <3>2. Front(p) \in Seq(Names) /\ IsPrefix(Front(p), p)
      <4>1. Front(p) \in Seq(Names) /\ Last(p) \in Names /\ p = Front(p) \o <<Last(p)>> /\ <<Last(p)>> \in Seq(Names)
        BY <3>1, FrontLast, OneIsSeq
      <4>2. IsPrefix(Front(p), Front(p) \o <<Last(p)>>)
        BY <4>1, PrefixOfConcat
      <4>3. QED BY <4>1, <4>2
    <3>3. ~IsWithin(Front(p), s) /\ ~IsWithin(Front(p), d)
      BY <1>1, <2>2, <3>1, <3>2, PrefixTrans DEF IsWithin
    <3>4. Node(t, Front(p)).kind = "dir"
      BY <3>1 DEF WellFormed
    <3>5. QED BY <1>10, <3>2, <3>3, <3>4
  <2>3. QED BY <2>1, <2>2
<1>17. WellFormed(u)
  BY <1>13, <1>14, <1>16 DEF WellFormed
<1>18. QED BY <1>9, <1>17 DEF SameBeneath

-----------------------------------------------------------------------------
(* The kinds of the locals.                                                *)

CheckDo == {"matfile", "matdir", "matent", "run", "back"}
AnyDo   == CheckDo \cup
  {"refuse", "read", "create", "trunc", "stat", "put", "remove", "rename", "mkdir", "copydir",
   "copyent", "new", "rmtree", "find", "ls", "slice", "seek"}
AnyTask == [do : AnyDo, s : Seq(Names), d : Seq(Names)]

\* The tasks that may be left to the actor with record l.
TaskOf(l) ==
  {t \in AnyTask :
     /\ t.do \in CheckDo => l.call.op \in Checks
     /\ t.do = "back" => t.s \in DOMAIN l.scratch
     /\ t.do = "rename" => t.s # <<>> /\ t.d # <<>>}

Texts(f) == \A r \in DOMAIN f : f[r] \in Seq(Chunks)

Typed(l) ==
  /\ Local(l)
  /\ l.call.src \in Seq(Names) /\ l.call.dst \in Seq(Names)
  /\ l.todo \in Seq(TaskOf(l))
  /\ l.buf \in Seq(Chunks) /\ l.at \in Nat
  /\ Texts(l.scratch) /\ Texts(l.snap)
  /\ l.res \in {"none", "ok", "error"}

AllTyped ==
  /\ WellFormed(tree)
  /\ DOMAIN before = Actors /\ before = [a \in Actors |-> before[a]]
  /\ \A a \in Actors : Typed(act[a]) /\ WellFormed(before[a])

LEMMA SameTasks ==
  ASSUME NEW l, NEW m, m.call = l.call, m.scratch = l.scratch
  PROVE  TaskOf(m) = TaskOf(l)
BY DEF TaskOf

LEMMA MakeTask ==
  ASSUME NEW do \in AnyDo, NEW s \in Seq(Names), NEW d \in Seq(Names), NEW l,
         do \in CheckDo => l.call.op \in Checks,
         do = "back" => s \in DOMAIN l.scratch,
         do = "rename" => s # <<>> /\ d # <<>>
  PROVE  Task(do, s, d) \in TaskOf(l)
BY DEF Task, TaskOf, AnyTask

LEMMA TypedHead ==
  ASSUME NEW l, Typed(l), l.todo # <<>>
  PROVE  /\ Head(l.todo) \in TaskOf(l) /\ Tail(l.todo) \in Seq(TaskOf(l))
         /\ Head(l.todo).s \in Seq(Names) /\ Head(l.todo).d \in Seq(Names)
<1>1. Head(l.todo) \in TaskOf(l) /\ Tail(l.todo) \in Seq(TaskOf(l))
  BY HeadTailProperties DEF Typed
<1>2. QED BY <1>1 DEF TaskOf, AnyTask

LEMMA EmptyTexts == Texts(<<>>)
<1>1. DOMAIN <<>> = {}
  OBVIOUS
<1>2. QED BY <1>1 DEF Texts

\* The call goes on with a record of the same kind.
LEMMA TypedGoes ==
  ASSUME ActFits, NEW a \in Actors, Typed(act[a]), act[a].todo # <<>>,
         NEW local, Local(local), local.call = act[a].call,
         local.buf \in Seq(Chunks), local.at \in Nat, Texts(local.scratch), Texts(local.snap),
         NEW more \in Seq(TaskOf(local)), Tail(act[a].todo) \in Seq(TaskOf(local)),
         Goes(a, local, more)
  PROVE  \A b \in Actors : Typed(act[b]) => Typed(act'[b])
<1> DEFINE rest == more \o Tail(act[a].todo)
           m == [local EXCEPT !.todo = rest, !.res = IF rest = <<>> THEN "ok" ELSE "none"]
<1>1. act' = [act EXCEPT ![a] = m]
  BY DEF Goes
<1>2. rest \in Seq(TaskOf(local))
  BY ConcatProperties
<1>3. /\ Local(m) /\ m.call = local.call /\ m.todo = rest /\ m.buf = local.buf /\ m.at = local.at
      /\ m.snap = local.snap /\ m.scratch = local.scratch /\ m.res \in {"ok", "none"}
  BY DEF Local, Fields
<1> HIDE DEF m, rest
<1>4. TaskOf(m) = TaskOf(local)
  BY <1>3, SameTasks
<1>5. Typed(m)
  BY <1>2, <1>3, <1>4 DEF Typed
<1>6. QED BY <1>1, <1>5 DEF ActFits

LEMMA TypedFails ==
  ASSUME ActFits, NEW a \in Actors, Typed(act[a]), Fail(a)
  PROVE  \A b \in Actors : Typed(act[b]) => Typed(act'[b])
<1>0. PICK res \in {"ok", "error"} : res = IF Forgives(a) THEN "ok" ELSE "error"
  OBVIOUS
<1> DEFINE m == [act[a] EXCEPT !.todo = <<>>, !.res = res, !.buf = <<>>, !.scratch = <<>>, !.snap = <<>>]
<1>1. act' = [act EXCEPT ![a] = m]
  BY <1>0 DEF Fail
<1>2. /\ Local(m) /\ m.call = act[a].call /\ m.todo = <<>> /\ m.buf = <<>> /\ m.at = act[a].at
      /\ m.snap = <<>> /\ m.scratch = <<>> /\ m.res \in {"ok", "error"}
  BY DEF Typed, Local, Fields
<1> HIDE DEF m
<1>3. <<>> \in Seq(TaskOf(m)) /\ <<>> \in Seq(Chunks)
  BY EmptySeq
<1>4. Typed(m)
  BY <1>2, <1>3, EmptyTexts DEF Typed
<1>5. QED BY <1>1, <1>4 DEF ActFits

\* With the same locals, but for what it has read.
LEMMA TypedSame ==
  ASSUME ActFits, NEW a \in Actors, Typed(act[a]), act[a].todo # <<>>,
         NEW more \in Seq(TaskOf(act[a])), NEW buf, NEW at, NEW out,
         \/ Goes(a, act[a], more)
         \/ Goes(a, [act[a] EXCEPT !.buf = buf], more) /\ buf \in Seq(Chunks)
         \/ Goes(a, [act[a] EXCEPT !.at = at], more) /\ at \in Nat
         \/ Goes(a, [act[a] EXCEPT !.out = out], more)
  PROVE  \A b \in Actors : Typed(act[b]) => Typed(act'[b])
<1>1. PICK local : /\ Goes(a, local, more)
                   /\ \/ local = act[a]
                      \/ local = [act[a] EXCEPT !.buf = buf] /\ buf \in Seq(Chunks)
                      \/ local = [act[a] EXCEPT !.at = at] /\ at \in Nat
                      \/ local = [act[a] EXCEPT !.out = out]
  BY Zenon
<1>2. /\ Local(local) /\ local.call = act[a].call /\ local.buf \in Seq(Chunks) /\ local.at \in Nat
      /\ local.scratch = act[a].scratch /\ local.snap = act[a].snap
  BY <1>1 DEF Typed, Local, Fields
<1>3. TaskOf(local) = TaskOf(act[a])
  BY <1>2, SameTasks
<1>4. Tail(act[a].todo) \in Seq(TaskOf(local))
  BY <1>3, TypedHead
<1>5. Texts(local.scratch) /\ Texts(local.snap)
  BY <1>2 DEF Typed
<1>6. QED BY <1>1, <1>2, <1>3, <1>4, <1>5, TypedGoes

LEMMA TypedNext1 ==
  ASSUME ActFits, NEW a \in Actors, Typed(act[a]), act[a].todo # <<>>, Next1(a)
  PROVE  \A b \in Actors : Typed(act[b]) => Typed(act'[b])
<1>1. <<>> \in Seq(TaskOf(act[a]))
  BY EmptySeq
<1>2. Goes(a, act[a], <<>>)
  BY DEF Next1
<1>3. QED BY <1>1, <1>2, TypedSame

LEMMA DataTyped ==
  ASSUME FileOpsAssumption, WellFormed(tree), NEW p \in Seq(Names)
  PROVE  Data(p) \in Seq(Chunks)
<1>1. Walk(p) \in Seq(Names)
  BY WalkIsPath
<1>2. <<>> \in Seq(Chunks)
  BY EmptySeq
<1>3. Dir.data = <<>> /\ Absent.data = <<>>
  BY DEF Dir, Absent
<1>4. QED BY <1>1, <1>2, <1>3, NodesOf DEF Data

LEMMA WrittenTyped ==
  ASSUME NEW old \in Seq(Chunks), NEW new \in Seq(Chunks), NEW at \in Nat
  PROVE  Written(old, new, at) \in Seq(Chunks)
<1> DEFINE n == IF at + Len(new) > Len(old) THEN at + Len(new) ELSE Len(old)
           e(i) == IF i > at /\ i <= at + Len(new) THEN new[i - at]
                   ELSE IF i <= Len(old) THEN old[i] ELSE "other"
<1>1. Len(old) \in Nat /\ Len(new) \in Nat /\ n \in Nat
  BY LenProperties
<1>2. ASSUME NEW i \in 1 .. n PROVE e(i) \in Chunks
  <2>1. i > at /\ i <= at + Len(new) => i - at \in 1 .. Len(new)
    BY <1>1
  <2>2. i <= Len(old) => i \in 1 .. Len(old)
    BY <1>1
  <2>3. "other" \in Chunks
    BY DEF Chunks
  <2>4. QED BY <2>1, <2>2, <2>3, ElementOfSeq
<1>3. Written(old, new, at) = [i \in 1 .. n |-> e(i)]
  BY DEF Written
<1>4. [i \in 1 .. n |-> e(i)] \in [1 .. n -> Chunks]
  <2> HIDE DEF n, e
  <2>1. QED BY <1>2
<1>5. QED
  <2> HIDE DEF n, e
  <2>1. QED BY <1>1, <1>3, <1>4, FunIsSeq

-----------------------------------------------------------------------------
(* The tree, call by call.                                                 *)

LEMMA PlaceOf ==
  ASSUME FileOpsAssumption, WellFormed(tree), NEW p \in Seq(Names), CanCreate(p)
  PROVE  /\ p # <<>> /\ Walk(p) \in Paths /\ Node(tree, Walk(p)) = Absent
         /\ Front(Walk(p)) = Walk(Front(p)) /\ Node(tree, Front(Walk(p))).kind = "dir"
<1>1. Walk(p) \in Seq(Names) /\ Node(tree, Walk(p)).kind = "absent"
  BY WalkIsPath, NodesOf DEF CanCreate, Exists, Kind
<1>2. Walk(p) # <<>> /\ Walk(p) \notin DOMAIN tree
  BY <1>1, NodesOf
<1>3. p # <<>>
  BY <1>2, WalkIsPath
<1>4. Front(p) \in Seq(Names) /\ Last(p) \in Names /\ p = Front(p) \o <<Last(p)>>
  BY <1>3, FrontLast
<1>5. Walk(Front(p) \o <<Last(p)>>) = Walk(Front(p)) \o <<Last(p)>>
  BY <1>4, WalkEntry DEF CanCreate
<1>6. Front(Walk(p)) = Walk(Front(p))
  <2>1. Walk(Front(p)) \in Seq(Names)
    BY <1>4, WalkIsPath
  <2>2. Front(Walk(Front(p)) \o <<Last(p)>>) = Walk(Front(p))
    BY <1>4, <2>1, FrontOfConcat
  <2>3. QED BY <1>4, <1>5, <2>2
<1>7. Node(tree, Walk(p)) = Absent
  BY <1>2 DEF Node
<1>8. QED BY <1>3, <1>6, <1>7 DEF CanCreate, Kind

LEMMA CreateKeeps ==
  ASSUME FileOpsAssumption, WellFormed(tree), NEW p \in Seq(Names), CanCreate(p),
         NEW node \in {Dir, File(<<>>)}, Set(p, node)
  PROVE  WellFormed(tree')
<1>1. /\ Walk(p) \in Paths /\ Node(tree, Walk(p)).kind # "dir"
      /\ Node(tree, Front(Walk(p))).kind = "dir"
  BY PlaceOf DEF Absent
<1>2. node = Dir \/ \E d \in Seq(Chunks) : Len(d) <= MaxLen /\ node = File(d)
  <2>1. <<>> \in Seq(Chunks) /\ Len(<<>>) <= MaxLen
    BY EmptySeq DEF FileOpsAssumption
  <2>2. QED BY <2>1
<1>3. QED BY <1>1, <1>2, PutKeeps DEF Set

LEMMA OverwriteKeeps ==
  ASSUME FileOpsAssumption, WellFormed(tree), NEW p \in Seq(Names), Kind(p) = "file",
         NEW d \in Seq(Chunks), Len(d) <= MaxLen, Set(p, File(d))
  PROVE  WellFormed(tree')
<1>1. Walk(p) \in Seq(Names) /\ Node(tree, Walk(p)).kind = "file"
  BY WalkIsPath DEF Kind
<1>2. Walk(p) \in DOMAIN tree
  BY <1>1, NodesOf
<1>3. Walk(p) \in Paths /\ Node(tree, Front(Walk(p))).kind = "dir"
  BY <1>2 DEF WellFormed
<1>4. QED BY <1>1, <1>3, PutKeeps DEF Set

LEMMA UnsetKeeps ==
  ASSUME FileOpsAssumption, WellFormed(tree), NEW p \in Seq(Names), Unset(p),
         Kind(p) = "file" \/ EmptyAt(Walk(p))
  PROVE  WellFormed(tree')
<1>1. Walk(p) \in Seq(Names)
  BY WalkIsPath
<1>2. \A q \in DOMAIN tree : IsPrefix(Walk(p), q) => q = Walk(p)
  BY <1>1, FileHasNothingBeneath DEF EmptyAt, IsWithin, Kind
<1>3. QED BY <1>1, <1>2, CutKeeps DEF Unset

\* Where a rename takes what is at s.
Renamed(s, p) == Front(s) \o <<Last(p)>>

LEMMA RenameMoves ==
  ASSUME FileOpsAssumption, WellFormed(tree), NEW p \in Seq(Names), NEW q \in Seq(Names),
         p # <<>>, q # <<>>, Exists(p), CanReplace(Walk(p), Renamed(Walk(p), q)),
         tree' = Moved(tree, Walk(p), Renamed(Walk(p), q))
  PROVE  WellFormed(tree') /\ SameBeneath(tree', Renamed(Walk(p), q), tree, Walk(p))
<1> DEFINE s == Walk(p)
           d == Renamed(s, q)
<1>1. s \in Seq(Names) /\ s # <<>> /\ Last(q) \in Names /\ Node(tree, s).kind # "absent"
  BY WalkIsPath, FrontLast DEF Exists, Kind
<1>2. d = Front(s) \o <<Last(q)>>
  BY DEF Renamed
<1>3. s = d \/ \A x \in DOMAIN tree : IsPrefix(d, x) => x = d
  BY DEF CanReplace, EmptyAt, IsWithin
<1> HIDE DEF s, d
<1>4. tree' = Moved(tree, s, d)
  BY DEF s, d
<1>5. WellFormed(tree') /\ SameBeneath(tree', d, tree, s)
  <2>1. s \in Seq(Names) /\ Last(q) \in Names
    BY <1>1
  <2>2. s # <<>> /\ Node(tree, s).kind # "absent"
    BY <1>1
  <2>3. QED BY <1>2, <1>3, <1>4, <2>1, <2>2, MoveKeeps, Zenon
<1>6. QED BY <1>5 DEF s, d

\* A task for each of the names.
LEMMA EachName ==
  ASSUME FileOpsAssumption, NEW S \in SUBSET Names, NEW T, NEW f,
         f = [i \in DOMAIN SetToSeq(S) |-> f[i]],
         \A i \in DOMAIN SetToSeq(S) : SetToSeq(S)[i] \in S => f[i] \in T
  PROVE  f \in Seq(T)
<1> DEFINE s == SetToSeq(S)
<1>1. s \in Seq(S) /\ DOMAIN s = 1 .. Len(s) /\ Len(s) \in Nat
  BY NamesAreSeq, LenProperties
<1>2. \A i \in 1 .. Len(s) : s[i] \in S
  BY <1>1, ElementOfSeq
<1> HIDE DEF s
<1>3. f = [i \in 1 .. Len(s) |-> f[i]] /\ \A i \in 1 .. Len(s) : f[i] \in T
  BY <1>1, <1>2 DEF s
<1>4. f \in [1 .. Len(s) -> T]
  BY <1>3
<1>5. QED BY <1>1, <1>4, FunIsSeq

LEMMA EntryPath ==
  ASSUME NEW p \in Seq(Names), NEW n \in Names
  PROVE  p \o <<n>> \in Seq(Names) /\ p \o <<n>> # <<>>
BY FrontOfConcat

\* The tasks of a script.
LEMMA OneTask ==
  ASSUME NEW l, NEW do \in AnyDo, NEW s \in Seq(Names), NEW d \in Seq(Names),
         do \in CheckDo => l.call.op \in Checks, do # "back",
         do = "rename" => s # <<>> /\ d # <<>>
  PROVE  <<Task(do, s, d)>> \in Seq(TaskOf(l))
BY MakeTask, OneIsSeq

LEMMA OverwriteTyped ==
  ASSUME NEW l, NEW p \in Seq(Names)
  PROVE  Overwrite(p) \in Seq(TaskOf(l))
<1>1. /\ Task("create", p, p) \in TaskOf(l) /\ Task("trunc", p, p) \in TaskOf(l)
      /\ Task("put", p, p) \in TaskOf(l)
  BY MakeTask DEF AnyDo, CheckDo
<1>2. \A x, y, z : x \in TaskOf(l) /\ y \in TaskOf(l) /\ z \in TaskOf(l) => <<x, y, z>> \in Seq(TaskOf(l))
  OBVIOUS
<1>3. QED BY <1>1, <1>2 DEF Overwrite, On

LEMMA IntoDirIsPath ==
  ASSUME NEW src \in Seq(Names), NEW dst \in Seq(Names)
  PROVE  IntoDir(src, dst) \in Seq(Names) /\ (dst # <<>> => IntoDir(src, dst) # <<>>)
BY FrontLast, EntryPath DEF IntoDir

LEMMA RefusedTyped ==
  ASSUME NEW l
  PROVE  Refused \in Seq(TaskOf(l))
<1>1. <<>> \in Seq(Names)
  BY EmptySeq
<1>2. QED BY <1>1, OneTask DEF Refused, AnyDo, CheckDo

LEMMA TransferTyped ==
  ASSUME NEW l, NEW src \in Seq(Names), NEW dst \in Seq(Names)
  PROVE  CpScript(src, dst) \in Seq(TaskOf(l)) /\ MvScript(src, dst) \in Seq(TaskOf(l))
<1> DEFINE into == IntoDir(src, dst)
<1>1. into \in Seq(Names) /\ (dst # <<>> => into # <<>>)
  BY IntoDirIsPath
<1>2. Refused \in Seq(TaskOf(l))
  BY RefusedTyped
<1>3. <<Task("copydir", src, into)>> \in Seq(TaskOf(l))
  BY <1>1, OneTask DEF AnyDo, CheckDo
<1>4. src # <<>> /\ dst # <<>> => <<Task("rename", src, into)>> \in Seq(TaskOf(l))
  BY <1>1, OneTask DEF AnyDo, CheckDo
<1>5. /\ <<On("read", src)>> \in Seq(TaskOf(l)) /\ <<On("remove", src)>> \in Seq(TaskOf(l))
      /\ Overwrite(into) \in Seq(TaskOf(l))
  BY <1>1, OneTask, OverwriteTyped DEF AnyDo, CheckDo, On
<1>6. <<Task("copydir", src, into), On("rmtree", src)>> \in Seq(TaskOf(l))
  <2>1. Task("copydir", src, into) \in TaskOf(l) /\ On("rmtree", src) \in TaskOf(l)
    BY <1>1, MakeTask DEF AnyDo, CheckDo, On
  <2>2. QED BY <2>1, TwoAreSeq
<1> HIDE DEF into
<1>7. /\ <<On("read", src)>> \o Overwrite(into) \in Seq(TaskOf(l))
      /\ (<<On("read", src)>> \o Overwrite(into)) \o <<On("remove", src)>> \in Seq(TaskOf(l))
  BY <1>5, ConcatProperties
<1>8. CpScript(src, dst) \in Seq(TaskOf(l))
  BY <1>2, <1>3, <1>7 DEF CpScript, into
<1>9. MvScript(src, dst) \in Seq(TaskOf(l))
  BY <1>2, <1>4, <1>6, <1>7 DEF MvScript, into
<1>10. QED BY <1>8, <1>9

LEMMA ScriptTyped ==
  ASSUME NEW c \in [op : Ops, src : Seq(Names), dst : Seq(Names)], NEW l, l.call.op = c.op
  PROVE  Script(c) \in Seq(TaskOf(l))
<1> DEFINE p == c.src
<1>1. p \in Seq(Names) /\ c.dst \in Seq(Names) /\ c.op \in Ops
  OBVIOUS
<1>2. Refused \in Seq(TaskOf(l)) /\ <<>> \in Seq(TaskOf(l))
  BY RefusedTyped, EmptySeq
<1>3. \A do \in AnyDo \ (CheckDo \cup {"rename"}) : <<On(do, p)>> \in Seq(TaskOf(l))
  BY <1>1, OneTask DEF On, CheckDo
<1>4. /\ <<On("remove", p)>> \in Seq(TaskOf(l)) /\ <<On("rmtree", p)>> \in Seq(TaskOf(l))
      /\ <<On("read", p)>> \in Seq(TaskOf(l)) /\ <<On("slice", p)>> \in Seq(TaskOf(l))
      /\ <<On("find", p)>> \in Seq(TaskOf(l)) /\ <<On("ls", p)>> \in Seq(TaskOf(l))
      /\ <<On("seek", p), On("remove", p)>> \in Seq(TaskOf(l))
      /\ <<On("seek", p), On("slice", p)>> \in Seq(TaskOf(l))
  <2>1. {"remove", "rmtree", "read", "slice", "find", "ls"} \subseteq AnyDo \ (CheckDo \cup {"rename"})
    BY DEF AnyDo, CheckDo
  <2>2. On("seek", p) \in TaskOf(l) /\ On("remove", p) \in TaskOf(l) /\ On("slice", p) \in TaskOf(l)
    BY <1>1, MakeTask DEF On, AnyDo, CheckDo
  <2>3. QED BY <1>3, <2>1, <2>2, TwoAreSeq
<1>5. MkdirScript(p) \in Seq(TaskOf(l))
  <2> DEFINE f == [i \in 1 .. Len(p) |-> On("mkdir", SubSeq(p, 1, i))]
  <2>1. Len(p) \in Nat /\ \A i \in 1 .. Len(p) : p[i] \in Names
    BY <1>1, LenProperties, ElementOfSeq
  <2>2. ASSUME NEW i \in 1 .. Len(p) PROVE On("mkdir", SubSeq(p, 1, i)) \in TaskOf(l)
    <3>1. SubSeq(p, 1, i) \in Seq(Names)
      BY <1>1, <2>1, SubSeqProperties
    <3>2. QED BY <3>1, MakeTask DEF On, AnyDo, CheckDo
  <2>3. f \in [1 .. Len(p) -> TaskOf(l)]
    BY <2>2
  <2> HIDE DEF f
  <2>4. f \in Seq(TaskOf(l))
    BY <2>1, <2>3, FunIsSeq
  <2>5. QED BY <1>2, <2>4 DEF MkdirScript, f
<1>6. /\ WriteScript(p) \in Seq(TaskOf(l)) /\ AppendScript(p) \in Seq(TaskOf(l))
  <2>1. /\ On("create", p) \in TaskOf(l) /\ On("trunc", p) \in TaskOf(l)
        /\ On("put", p) \in TaskOf(l) /\ On("stat", p) \in TaskOf(l)
    BY <1>1, MakeTask DEF On, AnyDo, CheckDo
  <2>2. \A x, y, z : x \in TaskOf(l) /\ y \in TaskOf(l) /\ z \in TaskOf(l) => <<x, y, z>> \in Seq(TaskOf(l))
    OBVIOUS
  <2>3. QED BY <1>2, <2>1, <2>2 DEF WriteScript, AppendScript
<1>7. c.op \in Checks => CheckoutScript(p) \in Seq(TaskOf(l))
  <2> SUFFICES ASSUME c.op \in Checks PROVE CheckoutScript(p) \in Seq(TaskOf(l))
    OBVIOUS
  <2>1. On("matdir", p) \in TaskOf(l) /\ On("matfile", p) \in TaskOf(l) /\ On("run", p) \in TaskOf(l)
    BY <1>1, MakeTask DEF On, AnyDo, CheckDo
  <2>2. \A x \in TaskOf(l) : <<x, On("run", p)>> \in Seq(TaskOf(l))
    BY <2>1, TwoAreSeq
  <2>3. QED BY <1>2, <2>1, <2>2 DEF CheckoutScript
<1>8. MvScript(p, c.dst) \in Seq(TaskOf(l)) /\ CpScript(p, c.dst) \in Seq(TaskOf(l))
  BY <1>1, TransferTyped
<1>9. /\ RmScript(p) \in Seq(TaskOf(l)) /\ UnsetenvScript(p) \in Seq(TaskOf(l))
      /\ RmdirScript(p, TRUE) \in Seq(TaskOf(l)) /\ RmdirScript(p, FALSE) \in Seq(TaskOf(l))
  BY <1>2, <1>4 DEF RmScript, UnsetenvScript, RmdirScript
<1>10. /\ CatScript(p) \in Seq(TaskOf(l)) /\ GetenvScript(p) \in Seq(TaskOf(l))
       /\ EnvSliceScript(p) \in Seq(TaskOf(l)) /\ FindScript(p) \in Seq(TaskOf(l))
       /\ LsScript(p) \in Seq(TaskOf(l))
  BY <1>2, <1>4 DEF CatScript, GetenvScript, EnvSliceScript, FindScript, LsScript
<1> HIDE DEF p
<1>11. QED
  BY <1>1, <1>5, <1>6, <1>7, <1>8, <1>9, <1>10 DEF Script, Ops, Checks, p

\* What a's step keeps.
Kept == WellFormed(tree') /\ \A b \in Actors : Typed(act[b]) => Typed(act'[b])

LEMMA ReadCallsTyped ==
  ASSUME ActFits, FileOpsAssumption, AllTyped, NEW a \in Actors,
         \/ Refuse(a) \/ ClosureFails(a) \/ Read(a) \/ Seek(a) \/ Stat(a) \/ Find(a) \/ Ls(a) \/ Slice(a)
  PROVE  Kept
<1>1. Typed(act[a]) /\ WellFormed(tree)
  BY DEF AllTyped
<1>2. act[a].todo # <<>> /\ UNCHANGED tree
  BY DEF Refuse, ClosureFails, Read, Seek, Stat, Find, Ls, Slice, At, Fail, Next1
<1>3. From(a) \in Seq(Names) /\ To(a) \in Seq(Names)
  BY <1>1, <1>2, TypedHead DEF From, To
<1>4. SUFFICES \A b \in Actors : Typed(act[b]) => Typed(act'[b])
  BY <1>1, <1>2 DEF Kept
<1>5. ASSUME Fail(a) PROVE \A b \in Actors : Typed(act[b]) => Typed(act'[b])
  BY <1>1, <1>5, TypedFails
<1>6. ASSUME NEW more \in Seq(TaskOf(act[a])), NEW out,
             Goes(a, act[a], more) \/ Goes(a, [act[a] EXCEPT !.out = out], more)
      PROVE  \A b \in Actors : Typed(act[b]) => Typed(act'[b])
  BY <1>1, <1>2, <1>6, TypedSame
<1>7. <<>> \in Seq(TaskOf(act[a]))
  BY EmptySeq
<1>8. ASSUME NEW S \in SUBSET Names, NEW do \in {"find", "read"}
      PROVE  [i \in DOMAIN SetToSeq(S) |-> On(do, From(a) \o <<SetToSeq(S)[i]>>)] \in Seq(TaskOf(act[a]))
  <2>1. \A n \in Names : On(do, From(a) \o <<n>>) \in TaskOf(act[a])
    BY <1>3, EntryPath, MakeTask DEF On, AnyDo, CheckDo
  <2> DEFINE f == [i \in DOMAIN SetToSeq(S) |-> On(do, From(a) \o <<SetToSeq(S)[i]>>)]
  <2>2. f = [i \in DOMAIN SetToSeq(S) |-> f[i]]
    OBVIOUS
  <2>3. \A i \in DOMAIN SetToSeq(S) : SetToSeq(S)[i] \in S => f[i] \in TaskOf(act[a])
    BY <2>1
  <2> HIDE DEF f
  <2>4. f \in Seq(TaskOf(act[a]))
    BY <2>2, <2>3, EachName
  <2>5. QED BY <2>4 DEF f
<1>9. CASE Refuse(a) \/ ClosureFails(a)
  BY <1>5, <1>9 DEF Refuse, ClosureFails
<1>10. CASE Read(a)
  <2>1. Data(From(a)) \in Seq(Chunks)
    BY <1>1, <1>3, DataTyped
  <2>2. CASE Goes(a, [act[a] EXCEPT !.buf = Data(From(a))], <<>>)
    BY <1>1, <1>2, <1>7, <2>1, <2>2, TypedSame
  <2>3. QED BY <1>5, <1>10, <2>2 DEF Read
<1>11. CASE Stat(a)
  <2>1. Len(Data(To(a))) \in Nat
    BY <1>1, <1>3, DataTyped, LenProperties
  <2>2. CASE Goes(a, [act[a] EXCEPT !.at = Len(Data(To(a)))], <<>>)
    BY <1>1, <1>2, <1>7, <2>1, <2>2, TypedSame
  <2>3. QED BY <1>5, <1>11, <2>2 DEF Stat
<1>12. CASE Find(a)
  <2> DEFINE S == {n \in Names : Kind(From(a) \o <<n>>) = "dir"}
             out == act[a].out \cup {From(a) \o <<n>> : n \in ToSet(Entries(From(a)))}
             more == [i \in DOMAIN SetToSeq(S) |-> On("find", From(a) \o <<SetToSeq(S)[i]>>)]
  <2>1. CASE Goes(a, [act[a] EXCEPT !.out = out], more)
    <3>1. more \in Seq(TaskOf(act[a]))
      BY <1>8
    <3> HIDE DEF more, out
    <3>2. QED BY <1>6, <2>1, <3>1
  <2>2. QED BY <1>5, <1>12, <2>1 DEF Find
<1>13. CASE Ls(a)
  BY <1>5, <1>6, <1>7, <1>13 DEF Ls
<1>14. CASE Slice(a)
  <2> DEFINE S == {n \in Names : Exists(From(a) \o <<n>>)}
             more == [i \in DOMAIN SetToSeq(S) |-> On("read", From(a) \o <<SetToSeq(S)[i]>>)]
  <2>1. more \in Seq(TaskOf(act[a]))
    BY <1>8
  <2>2. Goes(a, act[a], more) \/ Fail(a)
    BY <1>14 DEF Slice, Entries
  <2> HIDE DEF more
  <2>3. QED BY <1>5, <1>6, <2>1, <2>2
<1>15. CASE Seek(a)
  <2>1. Goes(a, act[a], <<>>) \/ Fail(a)
    BY <1>15 DEF Seek, Next1
  <2>2. QED BY <1>5, <1>6, <1>7, <2>1
<1>16. QED BY <1>9, <1>10, <1>11, <1>12, <1>13, <1>14, <1>15

LEMMA WriteCallsTyped ==
  ASSUME ActFits, FileOpsAssumption, AllTyped, NEW a \in Actors,
         \/ Create(a) \/ Trunc(a) \/ Put(a) \/ RemoveEntry(a) \/ Rename(a) \/ Mkdir(a) \/ New(a)
  PROVE  Kept
<1>1. Typed(act[a]) /\ WellFormed(tree)
  BY DEF AllTyped
<1>2. act[a].todo # <<>>
  BY DEF Create, Trunc, Put, RemoveEntry, Rename, Mkdir, New, At
<1>3. From(a) \in Seq(Names) /\ To(a) \in Seq(Names)
  BY <1>1, <1>2, TypedHead DEF From, To
<1>4. ASSUME Fail(a) PROVE Kept
  <2>1. UNCHANGED tree
    BY <1>4 DEF Fail
  <2>2. QED BY <1>1, <1>4, <2>1, TypedFails DEF Kept
<1>5. ASSUME Next1(a), WellFormed(tree') PROVE Kept
  BY <1>1, <1>2, <1>5, TypedNext1 DEF Kept
<1>6. ASSUME Next1(a), UNCHANGED tree PROVE Kept
  BY <1>1, <1>5, <1>6
<1>7. ASSUME NEW node \in {Dir, File(<<>>)}, CanCreate(To(a)), Set(To(a), node), Next1(a)
      PROVE  Kept
  BY <1>1, <1>3, <1>5, <1>7, CreateKeeps
<1>8. ASSUME NEW d \in Seq(Chunks), Len(d) <= MaxLen, Kind(To(a)) = "file", Set(To(a), File(d)), Next1(a)
      PROVE  Kept
  BY <1>1, <1>3, <1>5, <1>8, OverwriteKeeps
<1>9. <<>> \in Seq(Chunks) /\ Len(<<>>) <= MaxLen
  BY EmptySeq DEF FileOpsAssumption
<1>10. CASE Create(a)
  BY <1>4, <1>6, <1>7, <1>10 DEF Create
<1>11. CASE Trunc(a)
  BY <1>4, <1>8, <1>9, <1>11 DEF Trunc
<1>12. CASE Put(a)
  <2> DEFINE w == Written(Data(To(a)), act[a].buf, act[a].at)
  <2>1. Len(w) <= MaxLen /\ Next1(a)
    BY <1>12 DEF Put
  <2>2. w \in Seq(Chunks)
    BY <1>1, <1>3, DataTyped, WrittenTyped DEF Typed
  <2>3. CASE Kind(To(a)) = "file"
    <3>1. Set(To(a), File(w))
      BY <1>12, <2>3 DEF Put
    <3> HIDE DEF w
    <3>2. QED BY <1>8, <2>1, <2>2, <2>3, <3>1
  <2>4. CASE UNCHANGED tree
    BY <1>6, <2>1, <2>4
  <2>5. QED BY <1>12, <2>3, <2>4 DEF Put
<1>13. CASE RemoveEntry(a)
  <2>1. CASE /\ Unset(From(a)) /\ Next1(a)
             /\ Kind(From(a)) = "file" \/ EmptyAt(Walk(From(a)))
    BY <1>1, <1>3, <1>5, <2>1, UnsetKeeps
  <2>2. QED BY <1>4, <1>13, <2>1 DEF RemoveEntry
<1>14. CASE Rename(a)
  <2>1. CASE /\ tree' = Moved(tree, Walk(From(a)), Renamed(Walk(From(a)), To(a))) /\ Next1(a)
             /\ Exists(From(a)) /\ CanReplace(Walk(From(a)), Renamed(Walk(From(a)), To(a)))
    <3>1. From(a) # <<>> /\ To(a) # <<>>
      BY <1>1, <1>2, <1>14, TypedHead DEF Rename, At, From, To, TaskOf
    <3>2. WellFormed(tree')
      BY <1>1, <1>3, <2>1, <3>1, RenameMoves
    <3>3. QED BY <1>5, <2>1, <3>2
  <2>2. QED BY <1>4, <1>14, <2>1, Zenon DEF Rename, Renamed, Moved
<1>15. CASE Mkdir(a)
  BY <1>4, <1>6, <1>7, <1>15 DEF Mkdir
<1>16. CASE New(a)
  BY <1>4, <1>7, <1>16 DEF New
<1>17. QED BY <1>10, <1>11, <1>12, <1>13, <1>14, <1>15, <1>16

LEMMA TreeCallsTyped ==
  ASSUME ActFits, FileOpsAssumption, AllTyped, NEW a \in Actors,
         CopyDir(a) \/ CopyEntry(a) \/ RemoveTree(a) \/ MatDir(a)
  PROVE  Kept
<1> DEFINE l == act[a]
           T == TaskOf(act[a])
<1>1. Typed(l) /\ WellFormed(tree)
  BY DEF AllTyped
<1>2. l.todo # <<>>
  BY DEF CopyDir, CopyEntry, RemoveTree, MatDir, At
<1>3. From(a) \in Seq(Names) /\ To(a) \in Seq(Names) /\ Head(l.todo) \in T
  BY <1>1, <1>2, TypedHead DEF From, To
<1>4. ASSUME Fail(a) PROVE Kept
  <2>1. UNCHANGED tree
    BY <1>4 DEF Fail
  <2>2. QED BY <1>1, <1>4, <2>1, TypedFails DEF Kept
<1>5. ASSUME NEW more \in Seq(T), Goes(a, l, more), WellFormed(tree') PROVE Kept
  BY <1>1, <1>2, <1>5, TypedSame DEF Kept
<1>6. ASSUME UNCHANGED tree PROVE WellFormed(tree')
  BY <1>1, <1>6
<1>7. ASSUME NEW p, NEW f, f = [i \in DOMAIN Entries(p) |-> f[i]],
             \A i \in DOMAIN Entries(p) : Entries(p)[i] \in Names => f[i] \in T
      PROVE  f \in Seq(T)
  <2> DEFINE S == {n \in Names : Exists(p \o <<n>>)}
  <2>1. S \in SUBSET Names /\ Entries(p) = SetToSeq(S)
    BY DEF Entries
  <2> HIDE DEF S
  <2>2. f = [i \in DOMAIN SetToSeq(S) |-> f[i]]
    BY <1>7, <2>1
  <2>3. \A i \in DOMAIN SetToSeq(S) : SetToSeq(S)[i] \in S => f[i] \in T
    BY <1>7, <2>1
  <2> HIDE DEF T
  <2>4. QED BY <2>1, <2>2, <2>3, EachName
<1>8. CASE CopyDir(a)
  <2> DEFINE names == Entries(From(a))
             more == [i \in DOMAIN names |-> Task("copyent", From(a) \o <<names[i]>>, To(a) \o <<names[i]>>)]
  <2>1. CASE CanCreate(To(a)) /\ Set(To(a), Dir) /\ Goes(a, l, more)
    <3>1. WellFormed(tree')
      BY <1>1, <1>3, <2>1, CreateKeeps
    <3>2. \A n \in Names : Task("copyent", From(a) \o <<n>>, To(a) \o <<n>>) \in T
      BY <1>3, EntryPath, MakeTask DEF AnyDo, CheckDo
    <3>3. more \in Seq(T)
      <4>1. /\ more = [i \in DOMAIN names |-> more[i]]
            /\ \A i \in DOMAIN names : names[i] \in Names => more[i] \in T
        BY <3>2
      <4> HIDE DEF more, T
      <4>2. QED BY <1>7, <4>1
    <3> HIDE DEF more, T
    <3>4. QED BY <1>5, <2>1, <3>1, <3>3
  <2>2. QED BY <1>4, <1>8, <2>1 DEF CopyDir
<1>9. CASE CopyEntry(a)
  <2> DEFINE more == IF Kind(From(a)) = "dir" THEN <<Task("copydir", From(a), To(a))>>
                     ELSE <<On("read", From(a)), On("new", To(a)), On("put", To(a))>>
  <2>1. CASE Goes(a, l, more) /\ UNCHANGED tree
    <3>1. <<Task("copydir", From(a), To(a))>> \in Seq(T)
      BY <1>3, OneTask DEF AnyDo, CheckDo
    <3>2. <<On("read", From(a)), On("new", To(a)), On("put", To(a))>> \in Seq(T)
      <4>1. On("read", From(a)) \in T /\ On("new", To(a)) \in T /\ On("put", To(a)) \in T
        BY <1>3, MakeTask DEF On, AnyDo, CheckDo
      <4>2. \A x, y, z : x \in T /\ y \in T /\ z \in T => <<x, y, z>> \in Seq(T)
        OBVIOUS
      <4>3. QED BY <4>1, <4>2
    <3>3. more \in Seq(T)
      BY <3>1, <3>2
    <3> HIDE DEF more, T
    <3>4. QED BY <1>5, <1>6, <2>1, <3>3
  <2>2. QED BY <1>4, <1>9, <2>1 DEF CopyEntry
<1>10. CASE RemoveTree(a)
  <2> DEFINE names == Entries(From(a))
             Each(n) == LET p == From(a) \o <<n>> IN On(IF Kind(p) = "dir" THEN "rmtree" ELSE "remove", p)
             f == [i \in DOMAIN names |-> Each(names[i])]
  <2>1. CASE Goes(a, l, f \o <<On("remove", From(a))>>) /\ UNCHANGED tree
    <3>1. \A n \in Names : Each(n) \in T
      <4>1. \A n \in Names : On("rmtree", From(a) \o <<n>>) \in T /\ On("remove", From(a) \o <<n>>) \in T
        BY <1>3, EntryPath, MakeTask DEF On, AnyDo, CheckDo
      <4>2. QED BY <4>1
    <3>2. f \in Seq(T)
      <4>1. /\ f = [i \in DOMAIN names |-> f[i]]
            /\ \A i \in DOMAIN names : names[i] \in Names => f[i] \in T
        BY <3>1
      <4> HIDE DEF f, T
      <4>2. QED BY <1>7, <4>1
    <3>3. <<On("remove", From(a))>> \in Seq(T)
      BY <1>3, OneTask DEF On, AnyDo, CheckDo
    <3> HIDE DEF f, T
    <3>4. f \o <<On("remove", From(a))>> \in Seq(T)
      BY <3>2, <3>3, ConcatProperties
    <3>5. QED BY <1>5, <1>6, <2>1, <3>4
  <2>2. QED BY <1>4, <1>10, <2>1 DEF RemoveTree
<1>11. CASE MatDir(a)
  <2> DEFINE names == Entries(From(a))
             more == [i \in DOMAIN names |-> On("matent", From(a) \o <<names[i]>>)]
  <2>1. CASE Goes(a, l, more) /\ UNCHANGED tree
    <3>1. l.call.op \in Checks
      BY <1>3, <1>11 DEF MatDir, At, TaskOf, CheckDo
    <3>2. \A n \in Names : On("matent", From(a) \o <<n>>) \in T
      BY <1>3, <3>1, EntryPath, MakeTask DEF On, AnyDo, CheckDo
    <3>3. more \in Seq(T)
      <4>1. /\ more = [i \in DOMAIN names |-> more[i]]
            /\ \A i \in DOMAIN names : names[i] \in Names => more[i] \in T
        BY <3>2
      <4> HIDE DEF more, T
      <4>2. QED BY <1>7, <4>1
    <3> HIDE DEF more, T
    <3>4. QED BY <1>5, <1>6, <2>1, <3>3
  <2>2. QED BY <1>4, <1>11, <2>1 DEF MatDir
<1>12. QED BY <1>8, <1>9, <1>10, <1>11

\* Until the closure has run, no file waits to be written back.
LEMMA NoBacks ==
  ASSUME NEW l, CheckFits(l), Reads(l), Typed(l), l.todo # <<>>, NEW m, m.call = l.call
  PROVE  Tail(l.todo) \in Seq(TaskOf(m))
<1>1. /\ Tail(l.todo) \in Seq(TaskOf(l)) /\ Len(Tail(l.todo)) = Len(l.todo) - 1 /\ Len(l.todo) \in Nat
      /\ \A i \in 1 .. Len(Tail(l.todo)) : Tail(l.todo)[i] = l.todo[i + 1]
  BY HeadTailProperties, LenProperties, TypedHead DEF Typed
<1>2. ASSUME NEW i \in 1 .. Len(Tail(l.todo)) PROVE Tail(l.todo)[i] \in TaskOf(m)
  <2>1. i + 1 \in 1 .. Len(l.todo)
    BY <1>1
  <2>2. l.todo[i + 1].do # "back"
    BY <2>1 DEF Reads, ReadTask
  <2>3. Tail(l.todo)[i] \in TaskOf(l)
    BY <1>1, ElementOfSeq
  <2>4. QED BY <1>1, <2>2, <2>3 DEF TaskOf
<1>3. Tail(l.todo) = [i \in 1 .. Len(Tail(l.todo)) |-> Tail(l.todo)[i]] /\ Len(Tail(l.todo)) \in Nat
  BY <1>1, LenProperties
<1>4. Tail(l.todo) \in [1 .. Len(Tail(l.todo)) -> TaskOf(m)]
  BY <1>2, <1>3
<1>5. QED BY <1>3, <1>4, FunIsSeq

LEMMA CheckCallsTyped ==
  ASSUME ActFits, FileOpsAssumption, AllTyped, NEW a \in Actors,
         MatFile(a) \/ MatEntry(a) \/ Run(a) \/ Back(a)
  PROVE  Kept
<1> DEFINE l == act[a]
<1>1. Typed(l) /\ WellFormed(tree) /\ Local(l) /\ Texts(l.scratch) /\ Texts(l.snap)
      /\ l.buf \in Seq(Chunks) /\ l.at \in Nat /\ l.call.src \in Seq(Names)
  BY DEF AllTyped, Typed
<1>2. l.todo # <<>>
  BY DEF MatFile, MatEntry, Run, Back, At
<1>3. /\ From(a) \in Seq(Names) /\ To(a) \in Seq(Names)
      /\ Head(l.todo) \in TaskOf(l) /\ Tail(l.todo) \in Seq(TaskOf(l))
  BY <1>1, <1>2, TypedHead DEF From, To
<1>4. l.call.op \in Checks /\ CheckFits(l)
  <2>1. l.call.op \in Checks
    BY <1>3 DEF MatFile, MatEntry, Run, Back, At, TaskOf, CheckDo
  <2>2. QED BY <2>1 DEF ActFits, Fits
<1>5. ASSUME Fail(a) PROVE Kept
  <2>1. UNCHANGED tree
    BY <1>5 DEF Fail
  <2>2. QED BY <1>1, <1>5, <2>1, TypedFails DEF Kept
<1>6. Data(From(a)) \in Seq(Chunks) /\ <<>> \in Seq(TaskOf(l))
  BY <1>1, <1>3, DataTyped, EmptySeq
<1>7. ASSUME NEW local, Local(local), local.call = l.call, local.buf = l.buf, local.at = l.at,
             Texts(local.scratch), Texts(local.snap), UNCHANGED tree,
             NEW more \in Seq(TaskOf(local)), Tail(l.todo) \in Seq(TaskOf(local)),
             Goes(a, local, more)
      PROVE  Kept
  BY <1>1, <1>2, <1>7, TypedGoes DEF Kept
<1>8. MatFile(a) \/ MatEntry(a) => Reads(l)
  BY <1>2, <1>4, HeadFits DEF MatFile, MatEntry, At, WriteTask
<1>9. CASE MatFile(a)
  <2> DEFINE copy == [r \in {<<>>} |-> Data(From(a))]
             local == [l EXCEPT !.scratch = copy, !.snap = copy]
  <2>1. CASE Goes(a, local, <<>>) /\ UNCHANGED tree
    <3>1. Texts(copy)
      BY <1>6 DEF Texts
    <3>2. /\ Local(local) /\ local.call = l.call /\ local.buf = l.buf /\ local.at = l.at
          /\ local.scratch = copy /\ local.snap = copy
      BY <1>1 DEF Local, Fields
    <3> HIDE DEF local, copy
    <3>3. Tail(l.todo) \in Seq(TaskOf(local)) /\ <<>> \in Seq(TaskOf(local))
      BY <1>1, <1>2, <1>4, <1>8, <1>9, <3>2, NoBacks, EmptySeq
    <3>4. QED BY <1>7, <2>1, <3>1, <3>2, <3>3
  <2>2. QED BY <1>5, <1>9, <2>1 DEF MatFile
<1>10. CASE MatEntry(a)
  <2> DEFINE r == Below(From(a), l.call.src)
             Add(f) == [q \in DOMAIN f \cup {r} |-> IF q = r THEN Data(From(a)) ELSE f[q]]
             local == [l EXCEPT !.scratch = Add(@), !.snap = Add(@)]
  <2>1. CASE Goes(a, local, <<>>) /\ UNCHANGED tree
    <3>1. Texts(Add(l.scratch)) /\ Texts(Add(l.snap))
      BY <1>1, <1>6 DEF Texts
    <3>2. /\ Local(local) /\ local.call = l.call /\ local.buf = l.buf /\ local.at = l.at
          /\ local.scratch = Add(l.scratch) /\ local.snap = Add(l.snap)
      BY <1>1 DEF Local, Fields
    <3> HIDE DEF local, Add
    <3>3. Tail(l.todo) \in Seq(TaskOf(local)) /\ <<>> \in Seq(TaskOf(local))
      BY <1>1, <1>2, <1>4, <1>8, <1>10, <3>2, NoBacks, EmptySeq
    <3>4. Texts(local.scratch) /\ Texts(local.snap)
      BY <3>1, <3>2
    <3>5. QED BY <1>7, <2>1, <3>2, <3>3, <3>4
  <2>2. CASE Goes(a, l, <<On("matdir", From(a))>>) /\ UNCHANGED tree
    <3>1. <<On("matdir", From(a))>> \in Seq(TaskOf(l))
      BY <1>3, <1>4, OneTask DEF On, AnyDo, CheckDo
    <3>2. QED BY <1>1, <1>3, <1>7, <2>2, <3>1
  <2>3. QED BY <1>5, <1>10, <2>1, <2>2 DEF MatEntry
<1>11. CASE Run(a)
  <2>1. Tail(l.todo) = <<>>
    BY <1>2, <1>4, <1>11, HeadFits DEF Run, At, WriteTask
  <2>2. PICK edit \in SUBSET DOMAIN l.snap,
             new \in {{}} \cup {{<<n>>} : n \in Names} \cup {{<<n, n>>} : n \in Names} :
          LET files == DOMAIN l.snap \cup new
              text  == [r \in files |-> IF r \in edit \cup new THEN <<a>> ELSE l.snap[r]]
          IN \E backs \in Backs(a, files) :
               Goes(a, [l EXCEPT !.scratch = text, !.edited = edit \cup new], backs)
    BY <1>11 DEF Run
  <2> DEFINE files == DOMAIN l.snap \cup new
             text  == [r \in files |-> IF r \in edit \cup new THEN <<a>> ELSE l.snap[r]]
             local == [l EXCEPT !.scratch = text, !.edited = edit \cup new]
  <2>3. PICK backs \in Backs(a, files) : Goes(a, local, backs)
    BY <2>2
  <2>4. IsFiniteSet(files) /\ files \subseteq Seq(Names)
    <3>1. IsFiniteSet(DOMAIN l.snap) /\ DOMAIN l.snap \subseteq Seq(Names)
      BY <1>4 DEF CheckFits
    <3>2. new = {} \/ \E r \in Seq(Names) : new = {r}
      <4>1. \A n \in Names : <<n>> \in Seq(Names) /\ <<n, n>> \in Seq(Names)
        BY OneIsSeq, TwoAreSeq
      <4> QED  BY <4>1, Zenon
    <3>3. CASE new = {}
      BY <3>1, <3>3
    <3>4. CASE \E r \in Seq(Names) : new = {r}
      <4>1. PICK r \in Seq(Names) : new = {r}
        BY <3>4
      <4>2. IsFiniteSet(DOMAIN l.snap \cup {r})
        BY <3>1, FS_AddElement
      <4> QED  BY <3>1, <4>1, <4>2
    <3> QED  BY <3>2, <3>3, <3>4
  <2>5. Texts(text)
    <3>1. <<a>> \in Seq(Chunks)
      BY OneIsSeq DEF Chunks
    <3>2. QED BY <1>1, <3>1 DEF Texts
  <2>6. /\ Local(local) /\ local.call = l.call /\ local.buf = l.buf /\ local.at = l.at
        /\ local.scratch = text /\ local.snap = l.snap
    BY <1>1 DEF Local, Fields
  <2>7. DOMAIN text = files
    OBVIOUS
  <2> HIDE DEF local, text, files
  <2>8. PICK s \in SetToSeqs(files) :
          backs = [i \in DOMAIN s |-> Task("back", s[i], l.call.src \o s[i])]
    BY <2>3 DEF Backs
  <2>9. /\ Cardinality(files) \in Nat
        /\ DOMAIN s = 1 .. Cardinality(files) /\ \A i \in DOMAIN s : s[i] \in files
    BY <2>4, <2>8, FS_CardinalityType DEF SetToSeqs
  <2>10. \A i \in DOMAIN s : Task("back", s[i], l.call.src \o s[i]) \in TaskOf(local)
    <3> TAKE i \in DOMAIN s
    <3>1. s[i] \in Seq(Names) /\ s[i] \in DOMAIN local.scratch
      BY <2>4, <2>6, <2>7, <2>9
    <3>2. l.call.src \o s[i] \in Seq(Names)
      BY <1>1, <3>1, ConcatProperties
    <3>3. local.call.op \in Checks
      BY <1>4, <2>6
    <3> QED  BY <3>1, <3>2, <3>3, MakeTask DEF AnyDo, CheckDo
  <2>11. backs \in Seq(TaskOf(local))
    <3>1. backs \in [1 .. Cardinality(files) -> TaskOf(local)]
      BY <2>8, <2>9, <2>10
    <3> QED  BY <2>9, <3>1, FunIsSeq
  <2>12. Tail(l.todo) \in Seq(TaskOf(local))
    BY <2>1, EmptySeq
  <2>13. UNCHANGED tree
    BY <1>11 DEF Run
  <2>14. Texts(local.scratch) /\ Texts(local.snap)
    BY <1>1, <2>5, <2>6
  <2>15. QED BY <1>7, <2>3, <2>6, <2>11, <2>12, <2>13, <2>14
<1>12. CASE Back(a)
  <2> DEFINE r == From(a)
             more == (IF r = <<>> THEN <<>> ELSE <<On("create", To(a))>>) \o <<On("trunc", To(a)), On("put", To(a))>>
  <2>1. UNCHANGED tree
    BY <1>12 DEF Back
  <2>2. CASE Next1(a)
    BY <1>1, <1>2, <2>1, <2>2, TypedNext1 DEF Kept
  <2>3. CASE Goes(a, [l EXCEPT !.buf = l.scratch[r]], more)
    <3>1. l.scratch[r] \in Seq(Chunks)
      BY <1>1, <1>3, <1>12 DEF Back, At, TaskOf, Texts, From
    <3>2. /\ On("create", To(a)) \in TaskOf(l) /\ On("trunc", To(a)) \in TaskOf(l)
          /\ On("put", To(a)) \in TaskOf(l)
      BY <1>3, MakeTask DEF On, AnyDo, CheckDo
    <3>3. /\ (IF r = <<>> THEN <<>> ELSE <<On("create", To(a))>>) \in Seq(TaskOf(l))
          /\ <<On("trunc", To(a)), On("put", To(a))>> \in Seq(TaskOf(l))
      BY <1>6, <3>2, OneIsSeq, TwoAreSeq
    <3>4. more \in Seq(TaskOf(l))
      BY <3>3, ConcatProperties
    <3> HIDE DEF more
    <3>5. QED BY <1>1, <1>2, <2>1, <2>3, <3>1, <3>4, TypedSame DEF Kept
  <2>4. QED BY <1>12, <2>2, <2>3 DEF Back
<1>13. QED BY <1>9, <1>10, <1>11, <1>12

LEMMA CallTyped ==
  ASSUME ActFits, FileOpsAssumption, AllTyped, NEW a \in Actors, Call(a)
  PROVE  Kept
BY ReadCallsTyped, WriteCallsTyped, TreeCallsTyped, CheckCallsTyped DEF Call

LEMMA BeginTyped ==
  ASSUME ActFits, FileOpsAssumption, AllTyped, NEW a \in Actors, NEW c \in Calls[a], Begin(a, c)
  PROVE  \A b \in Actors : Typed(act[b]) => Typed(act'[b])
<1> DEFINE m == [Idle EXCEPT !.call = Resolved(c), !.todo = Script(c), !.buf = <<a>>]
<1>1. act' = [act EXCEPT ![a] = m]
  BY DEF Begin
<1>2. c \in [op : Ops, src : Seq(Names), dst : Seq(Names)]
  BY DEF FileOpsAssumption
<1>3. /\ Local(m) /\ m.call = Resolved(c) /\ m.todo = Script(c) /\ m.buf = <<a>> /\ m.at = 0
      /\ m.snap = <<>> /\ m.scratch = <<>> /\ m.res = "none"
  BY DEF Idle, Local, Fields
<1>4. /\ Resolved(c).op = c.op /\ Resolved(c).src = c.src
      /\ Resolved(c).dst \in {c.dst, IntoDir(c.src, c.dst)}
  BY <1>2 DEF Resolved
<1>5. <<a>> \in Seq(Chunks)
  BY OneIsSeq DEF Chunks
<1> HIDE DEF m
<1>6. Script(c) \in Seq(TaskOf(m))
  BY <1>2, <1>3, <1>4, ScriptTyped
<1>7. IntoDir(c.src, c.dst) \in Seq(Names)
  BY <1>2, IntoDirIsPath
<1>8. Typed(m)
  BY <1>2, <1>3, <1>4, <1>5, <1>6, <1>7, EmptyTexts DEF Typed
<1>9. QED BY <1>1, <1>8 DEF ActFits

LEMMA TypedInit == FileOpsAssumption /\ Init => AllTyped
<1> SUFFICES ASSUME FileOpsAssumption, Init PROVE AllTyped
  OBVIOUS
<1>1. WellFormed(tree)
  BY DEF Init, FileOpsAssumption
<1>2. Typed(Idle)
  <2>1. /\ Local(Idle) /\ Idle.call.src = <<>> /\ Idle.call.dst = <<>> /\ Idle.todo = <<>>
        /\ Idle.buf = <<>> /\ Idle.at = 0 /\ Idle.snap = <<>> /\ Idle.scratch = <<>> /\ Idle.res = "none"
    BY DEF Idle, Local, Fields
  <2>2. <<>> \in Seq(Names) /\ <<>> \in Seq(Chunks) /\ <<>> \in Seq(TaskOf(Idle))
    BY EmptySeq
  <2>3. QED BY <2>1, <2>2, EmptyTexts DEF Typed
<1>3. QED BY <1>1, <1>2 DEF AllTyped, Init

LEMMA TypedNext ==
  ASSUME ActFits, FileOpsAssumption, AllTyped, [Next]_vars
  PROVE  AllTyped'
<1>1. CASE UNCHANGED vars
  BY <1>1 DEF vars, AllTyped
<1>2. CASE Next
  <2>1. PICK a \in Actors : Step(a)
    BY <1>2 DEF Next
  <2>2. CASE \E c \in Calls[a] : Begin(a, c)
    <3>1. PICK c \in Calls[a] : Begin(a, c)
      BY <2>2
    <3>2. \A b \in Actors : Typed(act'[b])
      BY <3>1, BeginTyped DEF AllTyped
    <3>3. tree' = tree /\ before' = [before EXCEPT ![a] = tree]
      BY <3>1 DEF Begin
    <3>4. QED BY <3>2, <3>3 DEF AllTyped
  <2>3. ASSUME Kept, UNCHANGED before PROVE AllTyped'
    BY <2>3 DEF AllTyped, Kept
  <2>4. CASE Call(a) /\ UNCHANGED before
    BY <2>3, <2>4, CallTyped
  <2>5. CASE Breaks(a) /\ UNCHANGED before
    <3>1. Fail(a) /\ Typed(act[a])
      BY <2>5 DEF Breaks, AllTyped
    <3>2. UNCHANGED tree
      BY <3>1 DEF Fail
    <3>3. Kept
      BY <3>1, <3>2, TypedFails DEF Kept, AllTyped
    <3>4. QED BY <2>3, <2>5, <3>3
  <2>6. QED BY <2>1, <2>2, <2>4, <2>5 DEF Step
<1>3. QED BY <1>1, <1>2

LEMMA AlwaysTyped == Spec => [](ActFits /\ AllTyped)
<1>1. Init => ActFits /\ AllTyped
  BY FitsInit, TypedInit, FileOpsAssumption
<1>2. ActFits /\ AllTyped /\ [Next]_vars => ActFits' /\ AllTyped'
  BY FitsNext, TypedNext, FileOpsAssumption
<1>3. QED BY <1>1, <1>2, PTL DEF Spec

\* Whatever the calls are, however they interleave and wherever they fail, the tree is
\* a tree: no call leaves an entry under a path that is no directory.
THEOREM TreeStaysATree == Spec => []TypeOK
<1>1. ActFits /\ AllTyped => TypeOK
  BY DEF AllTyped, Typed, TypeOK
<1>2. QED BY <1>1, AlwaysTyped, PTL
===============================================================================
