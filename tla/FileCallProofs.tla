---------------------------- MODULE FileCallProofs ----------------------------
(***************************************************************************)
(* Two theorems about FileOps: that mv and cp lose no file of their        *)
(* source, wherever they fail (NothingIsLost), and that a call of any kind *)
(* that returns without an error has had its whole effect                  *)
(* (CallsTakeEffect).                                                      *)
(*                                                                         *)
(* A mv or a cp is in one of seven phases (Phase), told by the tasks it    *)
(* has left.  In all but the last the source is as the call found it; in   *)
(* the last, Removing, every node has arrived.  What has to be carried     *)
(* from one to the other is which node of the source has arrived and for   *)
(* which a task still waits (Copying): a directory that is listed hands    *)
(* what waits for it on to its entries, and a file is done once its read,  *)
(* its new and its put are (InHand).  The copy cannot write to the source, *)
(* nor to what has arrived, since source and destination are apart.        *)
(*                                                                         *)
(* Of every other call the tasks that are left say what has been done so   *)
(* far (Stage).  A removal or a mkdir ends with the task about the very    *)
(* path it was given (Closing); a write, an append and a look have a       *)
(* script of at most three calls (Filling, Appending, Looking); find has   *)
(* found each descendant or has still to list a directory it is in         *)
(* (Finding); a checkout has copied what is there (CheckingOut), and of    *)
(* the files it then writes back each is as it was, or as the closure left *)
(* it, or the one in hand, or waits (WritingBack).  While nobody else      *)
(* touches what the call is about, no step of another disturbs this, and   *)
(* with no task left it is what the call promises.                         *)
(***************************************************************************)
EXTENDS FileProofs

-----------------------------------------------------------------------------
(* What a mv or a cp still has to do, task by task.                        *)

LEMMA HeadOfCons ==
  ASSUME NEW S, NEW x \in S, NEW s \in Seq(S)
  PROVE  /\ <<x>> \o s \in Seq(S) /\ <<x>> \o s # <<>>
         /\ Head(<<x>> \o s) = x /\ Tail(<<x>> \o s) = s
<1>1. <<x>> \in Seq(S) /\ Len(<<x>>) = 1 /\ <<x>>[1] = x
  BY OneIsSeq
<1>2. /\ <<x>> \o s \in Seq(S) /\ Len(<<x>> \o s) = 1 + Len(s) /\ Len(s) \in Nat
      /\ \A i \in 1 .. 1 + Len(s) : (<<x>> \o s)[i] = IF i <= 1 THEN <<x>>[i] ELSE s[i - 1]
  BY <1>1, ConcatProperties, LenProperties
<1> DEFINE t == <<x>> \o s
<1>3. t # <<>>
  <2>1. Len(t) # 0
    BY <1>2
  <2>2. Len(<<>>) = 0
    OBVIOUS
  <2> HIDE DEF t
  <2>3. QED BY <2>1, <2>2, Zenon
<1>4. t[1] = x /\ \A i \in 1 .. Len(s) : t[i + 1] = s[i]
  BY <1>1, <1>2
<1>5. t \in Seq(S) /\ Len(t) = 1 + Len(s)
  BY <1>2
<1> HIDE DEF t
<1>6. Head(t) = x
  BY <1>3, <1>4, <1>5, HeadTailProperties
<1>7. /\ Tail(t) \in Seq(S) /\ Len(Tail(t)) = Len(s)
      /\ \A i \in 1 .. Len(s) : Tail(t)[i] = t[i + 1]
  <2>1. /\ Tail(t) \in Seq(S) /\ Len(Tail(t)) = Len(t) - 1
        /\ \A i \in 1 .. Len(Tail(t)) : Tail(t)[i] = t[i + 1]
    BY <1>3, <1>5, HeadTailProperties
  <2>2. QED BY <1>2, <1>5, <2>1
<1>8. Tail(t) = s
  BY <1>4, <1>7, SeqEqual
<1>9. QED BY <1>3, <1>5, <1>6, <1>8 DEF t

LEMMA ConsOfHead ==
  ASSUME NEW S, NEW s \in Seq(S), s # <<>>
  PROVE  /\ Head(s) = s[1] /\ Head(s) \in S /\ Tail(s) \in Seq(S) /\ s = <<Head(s)>> \o Tail(s)
         /\ \A i \in 2 .. Len(s) : i - 1 \in 1 .. Len(Tail(s)) /\ Tail(s)[i - 1] = s[i]
<1>1. /\ Head(s) = s[1] /\ Head(s) \in S /\ Tail(s) \in Seq(S) /\ Len(Tail(s)) = Len(s) - 1
      /\ Len(s) \in Nat /\ Len(s) # 0
      /\ \A i \in 1 .. Len(Tail(s)) : Tail(s)[i] = s[i + 1]
  BY HeadTailProperties, LenProperties, EmptySeq
<1> DEFINE h == Head(s)
           u == Tail(s)
<1>2. <<h>> \in Seq(S) /\ Len(<<h>>) = 1 /\ <<h>>[1] = h
  BY <1>1, OneIsSeq
<1>3. /\ <<h>> \o u \in Seq(S) /\ Len(<<h>> \o u) = 1 + Len(u)
      /\ \A i \in 1 .. 1 + Len(u) : (<<h>> \o u)[i] = IF i <= 1 THEN <<h>>[i] ELSE u[i - 1]
  BY <1>1, <1>2, ConcatProperties
<1> DEFINE t == <<h>> \o u
<1>4. t \in Seq(S) /\ Len(t) = Len(s)
  BY <1>1, <1>3
<1>5. \A i \in 1 .. Len(s) : t[i] = s[i]
  BY <1>1, <1>2, <1>3
<1> HIDE DEF t
<1>6. t = s
  BY <1>4, <1>5, SeqEqual
<1>7. QED BY <1>1, <1>6 DEF t

\* Every member of the set is in the sequence.
LEMMA AllAreListed ==
  ASSUME FileOpsAssumption, NEW S \in SUBSET Names, NEW n \in S
  PROVE  \E i \in DOMAIN SetToSeq(S) : SetToSeq(S)[i] = n
<1>1. IsFiniteSet(S)
  BY FS_Subset DEF FileOpsAssumption
<1>2. Cardinality(S) \in Nat /\ \E f \in [1 .. Cardinality(S) -> S] : IsInjective(f)
  BY <1>1, FS_CardinalityType, Zenon
     DEF ExistsBijection, Bijection, Injection, IsInjective
<1> DEFINE k == Cardinality(S)
           f == SetToSeq(S)
<1>3. f \in [1 .. k -> S] /\ IsInjective(f)
  BY <1>2 DEF SetToSeq
<1> HIDE DEF f
<1>4. f \in Injection(1 .. k, S)
  BY <1>3 DEF Injection, IsInjective
<1>5. Cardinality(1 .. k) = k
  BY <1>2, FS_Interval
<1>6. f \in Surjection(1 .. k, S)
  BY <1>1, <1>4, <1>5, FS_Injection
<1>7. QED BY <1>3, <1>6 DEF Surjection, f

\* The last task stays the last.
LEMMA LastOfRest ==
  ASSUME NEW S, NEW more \in Seq(S), NEW todo \in Seq(S), todo # <<>>
  PROVE  /\ more \o Tail(todo) \in Seq(S)
         /\ Tail(todo) # <<>> => more \o Tail(todo) # <<>> /\ Last(more \o Tail(todo)) = Last(todo)
         /\ Tail(todo) = <<>> => more \o Tail(todo) = more /\ Last(todo) = Head(todo)
<1>1. Tail(todo) \in Seq(S) /\ Len(Tail(todo)) = Len(todo) - 1 /\ Len(todo) \in Nat /\ Len(todo) > 0
  BY HeadTailProperties, LenProperties, EmptySeq
<1>2. more \o Tail(todo) \in Seq(S)
  BY <1>1, ConcatProperties
<1>3. CASE Tail(todo) = <<>>
  <2>1. Len(todo) = 1 /\ Head(todo) = todo[1]
    <3>1. PICK z : z = Tail(todo)
      OBVIOUS
    <3>2. Len(z) = 0
      BY <1>3, <3>1
    <3>3. Head(todo) = todo[1]
      BY ConsOfHead, Zenon
    <3>4. QED BY <1>1, <3>1, <3>2, <3>3
  <2>2. more \o Tail(todo) = more
    BY <1>3, ConcatEmptySeq
  <2>3. QED BY <1>2, <1>3, <2>1, <2>2 DEF Last
<1>4. CASE Tail(todo) # <<>>
  <2> DEFINE z == Tail(todo)
  <2>1. z \in Seq(S) /\ Len(z) \in Nat /\ Len(z) # 0 /\ Len(more) \in Nat
    BY <1>1, <1>4, NothingIsEmpty, LenProperties
  <2>2. Last(todo) = z[Len(z)]
    <3>1. Len(todo) \in 2 .. Len(todo) /\ Len(todo) - 1 = Len(z)
      BY <1>1, <2>1
    <3>2. z[Len(todo) - 1] = todo[Len(todo)]
      BY <3>1, ConsOfHead
    <3>3. QED BY <3>1, <3>2 DEF Last
  <2> HIDE DEF z
  <2>3. Len(more \o z) = Len(more) + Len(z) /\ (more \o z)[Len(more) + Len(z)] = z[Len(z)]
    <3>1. /\ Len(more \o z) = Len(more) + Len(z)
          /\ \A i \in 1 .. Len(more) + Len(z) :
               (more \o z)[i] = IF i <= Len(more) THEN more[i] ELSE z[i - Len(more)]
      BY <2>1, ConcatProperties
    <3>2. /\ Len(more) + Len(z) \in 1 .. Len(more) + Len(z) /\ ~(Len(more) + Len(z) <= Len(more))
          /\ (Len(more) + Len(z)) - Len(more) = Len(z)
      BY <2>1
    <3>3. QED BY <3>1, <3>2
  <2>4. more \o z # <<>> /\ Last(more \o z) = Last(todo)
    BY <2>1, <2>2, <2>3 DEF Last
  <2>5. QED BY <1>2, <1>4, <2>4 DEF z
<1>5. QED BY <1>3, <1>4

LEMMA LastOfTail ==
  ASSUME NEW S, NEW todo \in Seq(S), todo # <<>>
  PROVE  /\ Head(todo) \in S /\ Tail(todo) \in Seq(S)
         /\ Tail(todo) # <<>> => Last(Tail(todo)) = Last(todo)
         /\ Tail(todo) = <<>> => Last(todo) = Head(todo)
<1>1. Head(todo) \in S /\ Tail(todo) \in Seq(S)
  BY HeadTailProperties
<1>2. PICK e \in Seq(S) : e = <<>>
  BY EmptySeq
<1>3. e \o Tail(todo) = Tail(todo)
  BY <1>1, <1>2, ConcatEmptySeq
<1>4. /\ Tail(todo) # <<>> => Last(e \o Tail(todo)) = Last(todo)
      /\ Tail(todo) = <<>> => Last(todo) = Head(todo)
  BY LastOfRest, Zenon
<1>5. QED BY <1>1, <1>3, <1>4

LEMMA LastIs ==
  ASSUME NEW S, NEW f \in Seq(S), NEW x \in S
  PROVE  /\ f \o <<x>> \in Seq(S) /\ f \o <<x>> # <<>> /\ Last(f \o <<x>>) = x
         /\ Last(<<x>>) = x
<1>1. PICK e : e = <<x>>
  OBVIOUS
<1>2. e \in Seq(S) /\ Len(e) = 1 /\ e[1] = x /\ Len(f) \in Nat
  BY <1>1, OneIsSeq, LenProperties
<1>3. /\ f \o e \in Seq(S) /\ Len(f \o e) = Len(f) + 1 /\ (f \o e)[Len(f) + 1] = x
  <2>1. /\ f \o e \in Seq(S) /\ Len(f \o e) = Len(f) + 1
        /\ \A i \in 1 .. Len(f) + 1 : (f \o e)[i] = IF i <= Len(f) THEN f[i] ELSE e[i - Len(f)]
    BY <1>2, ConcatProperties
  <2>2. Len(f) + 1 \in 1 .. Len(f) + 1 /\ ~(Len(f) + 1 <= Len(f)) /\ (Len(f) + 1) - Len(f) = 1
    BY <1>2
  <2>3. QED BY <1>2, <2>1, <2>2
<1>4. f \o e # <<>> /\ Last(f \o e) = x /\ Last(e) = x
  BY <1>2, <1>3 DEF Last
<1>5. QED BY <1>1, <1>3, <1>4

-----------------------------------------------------------------------------
(* One step on the tree and on the record of its actor.                    *)

LEMMA SetIs ==
  ASSUME NEW p, NEW node, Set(p, node)
  PROVE  /\ Walk(p) # <<>> => Node(tree', Walk(p)) = node
         /\ \A q : q # Walk(p) => Node(tree', q) = Node(tree, q)
<1>1. /\ DOMAIN tree' = DOMAIN tree \cup {Walk(p)}
      /\ \A q \in DOMAIN tree' : tree'[q] = IF q = Walk(p) THEN node ELSE tree[q]
  BY DEF Set
<1>2. QED BY <1>1 DEF Node

LEMMA UnsetIs ==
  ASSUME NEW p, Unset(p)
  PROVE  \A q : q # Walk(p) => Node(tree', q) = Node(tree, q)
<1>1. /\ DOMAIN tree' = DOMAIN tree \ {Walk(p)}
      /\ \A q \in DOMAIN tree' : tree'[q] = tree[q]
  BY DEF Unset
<1>2. QED BY <1>1 DEF Node

\* The record of an actor whose call goes on, or is done.
LEMMA RecordAfter ==
  ASSUME ActFits, NEW a \in Actors, NEW local, Local(local), NEW more, Goes(a, local, more)
  PROVE  LET l == act'[a]
             rest == more \o Tail(act[a].todo)
         IN /\ l.call = local.call /\ l.todo = rest
            /\ l.buf = local.buf /\ l.at = local.at /\ l.out = local.out
            /\ l.scratch = local.scratch /\ l.snap = local.snap /\ l.edited = local.edited
            /\ l.res = IF rest = <<>> THEN "ok" ELSE "none"
<1> DEFINE rest == more \o Tail(act[a].todo)
<1>1. PICK res : res = IF rest = <<>> THEN "ok" ELSE "none"
  OBVIOUS
<1> DEFINE m == [local EXCEPT !.todo = rest, !.res = res]
<1>2. act' = [act EXCEPT ![a] = m]
  BY <1>1 DEF Goes
<1> HIDE DEF rest
<1>3. /\ m.call = local.call /\ m.todo = rest
      /\ m.buf = local.buf /\ m.at = local.at /\ m.out = local.out
      /\ m.scratch = local.scratch /\ m.snap = local.snap /\ m.edited = local.edited
      /\ m.res = res
  BY DEF Local, Fields
<1> HIDE DEF m
<1>4. act'[a] = m
  BY <1>2 DEF ActFits
<1>5. QED BY <1>1, <1>3, <1>4 DEF rest

LEMMA WentOn ==
  ASSUME ActFits, NEW a \in Actors, Local(act[a]), NEW more, NEW buf,
         \/ (Goes(a, act[a], more) /\ buf = act[a].buf)
         \/ Goes(a, [act[a] EXCEPT !.buf = buf], more)
  PROVE  /\ act'[a].call = act[a].call /\ act'[a].todo = more \o Tail(act[a].todo)
         /\ act'[a].buf = buf /\ act'[a].at = act[a].at
<1>1. PICK local : /\ Goes(a, local, more)
                   /\ (local = act[a] /\ buf = act[a].buf) \/ local = [act[a] EXCEPT !.buf = buf]
  BY Zenon
<1>2. Local(local) /\ local.call = act[a].call /\ local.buf = buf /\ local.at = act[a].at
  BY <1>1 DEF Local, Fields
<1>3. QED BY <1>1, <1>2, RecordAfter

LEMMA NextOn ==
  ASSUME ActFits, NEW a \in Actors, Typed(act[a]), act[a].todo # <<>>, Next1(a)
  PROVE  /\ act'[a].call = act[a].call /\ act'[a].todo = Tail(act[a].todo)
         /\ act'[a].buf = act[a].buf /\ act'[a].at = act[a].at
<1>1. /\ act'[a].call = act[a].call /\ act'[a].todo = <<>> \o Tail(act[a].todo)
      /\ act'[a].buf = act[a].buf /\ act'[a].at = act[a].at
  BY WentOn DEF Next1, Typed
<1>2. <<>> \o Tail(act[a].todo) = Tail(act[a].todo)
  BY TypedHead, ConcatEmptySeq
<1>3. QED BY <1>1, <1>2

LEMMA FailedIs ==
  ASSUME ActFits, NEW a \in Actors, Typed(act[a]), Fail(a)
  PROVE  /\ act'[a].call = act[a].call /\ act'[a].todo = <<>> /\ act'[a].at = act[a].at
         /\ act'[a].res = (IF Forgives(a) THEN "ok" ELSE "error") /\ act'[a].buf = <<>> /\ tree' = tree
<1>0. PICK res : res = IF Forgives(a) THEN "ok" ELSE "error"
  OBVIOUS
<1> DEFINE m == [act[a] EXCEPT !.todo = <<>>, !.res = res, !.buf = <<>>, !.scratch = <<>>, !.snap = <<>>]
<1>1. act' = [act EXCEPT ![a] = m] /\ tree' = tree
  BY <1>0 DEF Fail
<1>2. m.call = act[a].call /\ m.todo = <<>> /\ m.at = act[a].at /\ m.res = res /\ m.buf = <<>>
  BY DEF Typed, Local, Fields
<1> HIDE DEF m
<1>3. act'[a] = m
  BY <1>1 DEF ActFits
<1>4. QED BY <1>0, <1>1, <1>2, <1>3

\* The task at the head says which call is next.
LEMMA CallIs ==
  ASSUME NEW a \in Actors, Call(a)
  PROVE  LET do == Head(act[a].todo).do IN
         /\ act[a].todo # <<>>
         /\ do = "refuse"  => Refuse(a)
         /\ do = "read"    => Read(a)
         /\ do = "seek"    => Seek(a)
         /\ do = "create"  => Create(a)
         /\ do = "trunc"   => Trunc(a)
         /\ do = "put"     => Put(a)
         /\ do = "remove"  => RemoveEntry(a)
         /\ do = "rename"  => Rename(a)
         /\ do = "copydir" => CopyDir(a)
         /\ do = "copyent" => CopyEntry(a)
         /\ do = "new"     => New(a)
         /\ do = "rmtree"  => RemoveTree(a)
         /\ do = "stat"    => Stat(a)
         /\ do = "mkdir"   => Mkdir(a)
         /\ do = "find"    => Find(a)
         /\ do = "ls"      => Ls(a)
         /\ do = "matfile" => MatFile(a)
         /\ do = "matdir"  => MatDir(a)
         /\ do = "matent"  => MatEntry(a)
         /\ do = "run"     => Run(a) \/ ClosureFails(a)
         /\ do = "back"    => Back(a)
BY DEF Call, At, Refuse, Read, Seek, Create, Trunc, Stat, Put, RemoveEntry, Rename, Mkdir, CopyDir,
       CopyEntry, New, RemoveTree, Find, Ls, Slice, MatFile, MatDir, MatEntry, Run, ClosureFails, Back

LEMMA OnIs ==
  ASSUME NEW do, NEW p
  PROVE  On(do, p).do = do /\ On(do, p).s = p /\ On(do, p).d = p
BY DEF On, Task

\* What another actor's step leaves of what a's call is about.
LEMMA OthersKeep ==
  ASSUME NEW a \in Actors, NEW b \in Actors, b # a, Meddle(b), ~meddled'[a],
         NEW q \in {Walk(act[a].call.src), Walk(act[a].call.dst)} \ {<<>>},
         q \in Seq(Names), NEW r \in Seq(Names)
  PROVE  ~meddled[a] /\ Node(tree', q \o r) = Node(tree, q \o r)
<1>1. ~meddled[a] /\ \A p \in Changed : ~Touches(a, p)
  BY DEF Meddle
<1>2. IsPrefix(q, q \o r)
  BY PrefixOfConcat
<1>3. Touches(a, q \o r)
  BY <1>2 DEF Touches
<1>4. q \o r \notin Changed
  BY <1>1, <1>3
<1>5. QED BY <1>1, <1>4 DEF Changed, Node

\* A file written from its beginning holds what was written.
LEMMA WrittenWhole ==
  ASSUME NEW new \in Seq(Chunks)
  PROVE  Written(<<>>, new, 0) = new
<1>1. Len(<<>>) = 0 /\ Len(new) \in Nat
  BY LenProperties
<1>2. Written(<<>>, new, 0) \in Seq(Chunks)
  BY WrittenTyped, EmptySeq
<1> DEFINE n == IF 0 + Len(new) > Len(<<>>) THEN 0 + Len(new) ELSE Len(<<>>)
           e(i) == IF i > 0 /\ i <= 0 + Len(new) THEN new[i - 0]
                   ELSE IF i <= Len(<<>>) THEN <<>>[i] ELSE "other"
<1>3. n = Len(new)
  BY <1>1
<1>4. Written(<<>>, new, 0) = [i \in 1 .. n |-> e(i)]
  BY DEF Written
<1>5. \A i \in 1 .. Len(new) : e(i) = new[i]
  BY <1>1
<1> HIDE DEF n, e
<1>6. Written(<<>>, new, 0) = [i \in 1 .. Len(new) |-> new[i]]
  BY <1>3, <1>4, <1>5
<1>7. new = [i \in 1 .. Len(new) |-> new[i]]
  BY LenProperties
<1>8. QED BY <1>6, <1>7

-----------------------------------------------------------------------------
(* How far a mv or a cp has got.  t is the tree, l the record of the actor *)
(* and old the tree its call found.                                        *)

\* The call is one that NothingLost speaks of.
Plain(c) ==
  /\ c.op \in {"mv", "cp"} /\ c.src \in Seq(Names) /\ c.dst \in Seq(Names)
  /\ ~IsPrefix(Walk(c.src), Walk(c.dst))
  /\ ~Grafted(c.src) /\ ~Grafted(c.dst)
  /\ ~(c.op = "mv" /\ Front(c.src) = Front(c.dst) /\ BindAt \in {c.src, c.dst})

Apart(c) == ~IsPrefix(Walk(c.src), Walk(c.dst)) /\ ~IsPrefix(Walk(c.dst), Walk(c.src))

\* The source is as it was.
Intact(t, c, old) == SameBeneath(t, Walk(c.src), old, Walk(c.src))

IsFile(old, c, r)  == Node(old, Walk(c.src) \o r).kind = "file"
IsThere(old, c, r) == Node(old, Walk(c.src) \o r).kind # "absent"

Arrived(t, c, old, r) == Node(t, Walk(c.dst) \o r) = Node(old, Walk(c.src) \o r)

\* All of the source is at the destination.
Brought(t, c, old) ==
  c.dst # <<>> /\ \A r \in Seq(Names) : IsThere(old, c, r) => Arrived(t, c, old, r)

\* Nothing is at the source.
Gone(t, c) == \A r \in Seq(Names) : Node(t, Walk(c.src) \o r) = Absent

\* At no point is a file at neither place.
InOnePlace(t, c, old) == Intact(t, c, old) \/ (c.op = "mv" /\ Brought(t, c, old))

\* What a call that ends well has done.
Transferred(t, c, old) ==
  Brought(t, c, old) /\ IF c.op = "mv" THEN Gone(t, c) ELSE Intact(t, c, old)

Ended(t, l, old) ==
  /\ l.todo = <<>> /\ InOnePlace(t, l.call, old)
  /\ l.res = "ok" => Transferred(t, l.call, old)

Refusing(t, l, old) == l.todo = Refused /\ Intact(t, l.call, old)

Renaming(t, l, old) ==
  LET c == l.call IN
  /\ l.todo = <<Task("rename", c.src, c.dst)>> /\ Intact(t, c, old)
  /\ c.op = "mv" /\ c.dst # <<>> /\ Front(c.src) = Front(c.dst)

\* A single file is copied, and for mv the source goes then.
FileLast(c)   == IF c.op = "mv" THEN <<On("remove", c.src)>> ELSE <<>>
PutThen(c)    == <<On("put", c.dst)>> \o FileLast(c)
TruncThen(c)  == <<On("trunc", c.dst)>> \o PutThen(c)
CreateThen(c) == <<On("create", c.dst)>> \o TruncThen(c)
ReadThen(c)   == <<On("read", c.src)>> \o CreateThen(c)

Filing(t, l, old) ==
  LET c == l.call IN
  /\ Intact(t, c, old) /\ c.dst # <<>> /\ Node(old, Walk(c.src)).kind = "file"
  /\ \/ l.todo = ReadThen(c)
     \/ /\ Node(old, Walk(c.src)) = File(l.buf)
        /\ \/ l.todo \in {CreateThen(c), TruncThen(c)}
           \/ l.todo = PutThen(c) /\ Apart(c) /\ Node(t, Walk(c.dst)) = File(<<>>)

\* A directory is copied entry by entry.
DirLast(c) == IF c.op = "mv" THEN <<On("rmtree", c.src)>> ELSE <<>>

CopyTasks(c) ==
  {x \in AnyTask : /\ x.do \in {"copydir", "copyent"}
                   /\ \E r \in Seq(Names) : x.s = c.src \o r /\ x.d = c.dst \o r}

Leads(c, x, u) == \E v \in Seq(Names) : x.s = c.src \o v /\ IsPrefix(v, u)

\* One of the tasks later will come to u.
Waits(c, later, u) == \E i \in 1 .. Len(later) : Leads(c, later[i], u)

Copying(t, l, old) ==
  LET c == l.call IN
  /\ Intact(t, c, old) /\ Apart(c) /\ c.dst # <<>>
  /\ \E later \in Seq(CopyTasks(c)) :
       /\ l.todo = later \o DirLast(c)
       /\ \A u \in Seq(Names) : IsThere(old, c, u) => Arrived(t, c, old, u) \/ Waits(c, later, u)

\* One file of it, r, is being copied.
HandPut(c, r, rest)  == <<On("put", c.dst \o r)>> \o rest
HandNew(c, r, rest)  == <<On("new", c.dst \o r)>> \o HandPut(c, r, rest)
HandRead(c, r, rest) == <<On("read", c.src \o r)>> \o HandNew(c, r, rest)

InHand(t, l, old) ==
  LET c == l.call IN
  /\ Intact(t, c, old) /\ Apart(c) /\ c.dst # <<>>
  /\ \E later \in Seq(CopyTasks(c)), r \in Seq(Names) :
       /\ IsFile(old, c, r)
       /\ \A u \in Seq(Names) :
            IsThere(old, c, u) => u = r \/ Arrived(t, c, old, u) \/ Waits(c, later, u)
       /\ \/ l.todo = HandRead(c, r, later \o DirLast(c))
          \/ /\ Node(old, Walk(c.src) \o r) = File(l.buf)
             /\ \/ l.todo = HandNew(c, r, later \o DirLast(c))
                \/ /\ l.todo = HandPut(c, r, later \o DirLast(c))
                   /\ Node(t, Walk(c.dst) \o r) = File(<<>>)

\* The source goes, once everything has been brought.
RemoveTasks(c) ==
  {x \in AnyTask : x.do \in {"rmtree", "remove"} /\ \E r \in Seq(Names) : x.s = c.src \o r}

Removing(t, l, old) ==
  /\ l.call.op = "mv" /\ Brought(t, l.call, old) /\ Apart(l.call)
  /\ l.todo \in Seq(RemoveTasks(l.call)) /\ l.todo # <<>> /\ Last(l.todo).s = l.call.src

Phase(t, l, old) ==
  /\ l.at = 0
  /\ \/ Ended(t, l, old) \/ Refusing(t, l, old) \/ Renaming(t, l, old) \/ Filing(t, l, old)
     \/ Copying(t, l, old) \/ InHand(t, l, old) \/ Removing(t, l, old)

Moves ==
  \A a \in Actors :
    Plain(act[a].call) /\ ~meddled[a] => Phase(tree, act[a], before[a])

-----------------------------------------------------------------------------
(* Its paths.                                                              *)

LEMMA Places ==
  ASSUME FileOpsAssumption, NEW c, Plain(c)
  PROVE  /\ c.src \in Seq(Names) /\ c.src # <<>> /\ Walk(c.src) \in Seq(Names) /\ Walk(c.src) # <<>>
         /\ c.dst \in Seq(Names) /\ Walk(c.dst) \in Seq(Names) /\ (c.dst # <<>> => Walk(c.dst) # <<>>)
<1>1. c.src \in Seq(Names) /\ c.dst \in Seq(Names)
  BY DEF Plain
<1>2. Walk(c.src) \in Seq(Names) /\ Walk(c.dst) \in Seq(Names)
  BY <1>1, WalkIsPath
<1>3. Walk(c.src) # <<>>
  <2>1. \A w \in Seq(Names) : IsPrefix(<<>>, w)
    <3> TAKE w \in Seq(Names)
    <3>1. <<>> \in Seq(Names) /\ <<>> \o w = w
      BY EmptySeq, ConcatEmptySeq
    <3>2. QED BY <3>1, PrefixOfConcat
  <2>2. QED BY <1>2, <2>1 DEF Plain
<1>4. QED BY <1>1, <1>2, <1>3, WalkIsPath

LEMMA PlacesBeneath ==
  ASSUME FileOpsAssumption, NEW c, Plain(c), NEW r \in Seq(Names)
  PROVE  /\ c.src \o r \in Seq(Names) /\ Walk(c.src \o r) = Walk(c.src) \o r
         /\ Walk(c.src) \o r \in Seq(Names)
         /\ c.dst \o r \in Seq(Names) /\ Walk(c.dst) \o r \in Seq(Names)
         /\ c.dst # <<>> => Walk(c.dst \o r) = Walk(c.dst) \o r
         /\ Walk(c.dst) # Walk(c.src) \o r
<1>1. /\ c.src \in Seq(Names) /\ c.src # <<>> /\ Walk(c.src) \in Seq(Names)
      /\ c.dst \in Seq(Names) /\ Walk(c.dst) \in Seq(Names)
  BY Places
<1>2. /\ c.src \o r \in Seq(Names) /\ Walk(c.src) \o r \in Seq(Names)
      /\ c.dst \o r \in Seq(Names) /\ Walk(c.dst) \o r \in Seq(Names)
  BY <1>1, ConcatProperties
<1>3. Walk(c.src \o r) = Walk(c.src) \o r
  BY <1>1, WalkConcat DEF Plain
<1>4. c.dst # <<>> => Walk(c.dst \o r) = Walk(c.dst) \o r
  BY <1>1, WalkConcat DEF Plain
<1>5. Walk(c.dst) # Walk(c.src) \o r
  BY <1>1, PrefixOfConcat DEF Plain
<1>6. QED BY <1>2, <1>3, <1>4, <1>5

LEMMA ApartBeneath ==
  ASSUME FileOpsAssumption, NEW c, Plain(c), Apart(c), NEW r \in Seq(Names), NEW u \in Seq(Names)
  PROVE  Walk(c.src) \o r # Walk(c.dst) \o u
<1>1. SUFFICES ASSUME Walk(c.src) \o r = Walk(c.dst) \o u PROVE FALSE
  OBVIOUS
<1>2. Walk(c.src) \in Seq(Names) /\ Walk(c.dst) \in Seq(Names) /\ Walk(c.src) \o r \in Seq(Names)
  BY Places, PlacesBeneath
<1>3. IsPrefix(Walk(c.src), Walk(c.src) \o r) /\ IsPrefix(Walk(c.dst), Walk(c.dst) \o u)
  BY <1>2, PrefixOfConcat
<1>4. QED BY <1>1, <1>2, <1>3, Comparable DEF Apart

LEMMA SameAfter ==
  ASSUME NEW s \in Seq(Names), NEW r \in Seq(Names), NEW u \in Seq(Names), s \o r = s \o u
  PROVE  r = u
<1>1. Below(s \o r, s) = r /\ Below(s \o u, s) = u
  BY PrefixOfConcat
<1>2. QED BY <1>1

\* A source that is there is not beneath a destination that is no directory.
LEMMA ApartIf ==
  ASSUME FileOpsAssumption, WellFormed(tree), NEW c, Plain(c),
         Node(tree, Walk(c.src)).kind # "absent", Node(tree, Walk(c.dst)).kind # "dir"
  PROVE  Apart(c)
<1> DEFINE S == Walk(c.src)
           T == Walk(c.dst)
<1>1. S \in Seq(Names) /\ T \in Seq(Names) /\ ~IsPrefix(S, T)
  BY Places DEF Plain
<1>2. SUFFICES ASSUME IsPrefix(T, S) PROVE FALSE
  BY <1>1 DEF Apart
<1> HIDE DEF S, T
<1>3. Below(S, T) \in Seq(Names) /\ S = T \o Below(S, T)
  BY <1>1, <1>2, PrefixSplits
<1>4. CASE Below(S, T) = <<>>
  <2>1. S = T
    BY <1>1, <1>3, <1>4, ConcatEmptySeq
  <2>2. QED BY <1>1, <1>2, <2>1
<1>5. CASE Below(S, T) # <<>>
  <2>1. Node(tree, T \o Below(S, T)).kind # "absent"
    BY <1>3 DEF S
  <2>2. Node(tree, T).kind = "dir"
    BY <1>1, <1>3, <1>5, <2>1, Ancestors
  <2>3. QED BY <2>2 DEF T
<1>6. QED BY <1>4, <1>5

\* Nothing is beneath a file.
LEMMA OnlyItself ==
  ASSUME FileOpsAssumption, NEW c, Plain(c), NEW old, WellFormed(old),
         NEW r \in Seq(Names), IsFile(old, c, r), NEW u \in Seq(Names), IsThere(old, c, u), IsPrefix(r, u)
  PROVE  u = r
<1> DEFINE S == Walk(c.src)
           w == Below(u, r)
<1>1. w \in Seq(Names) /\ u = r \o w /\ S \in Seq(Names) /\ S \o r \in Seq(Names)
  BY PrefixSplits, Places, PlacesBeneath
<1> HIDE DEF S, w
<1>2. S \o u = (S \o r) \o w
  <2>1. S \in Seq(Names) /\ r \in Seq(Names) /\ w \in Seq(Names)
    BY <1>1
  <2>2. (S \o r) \o w = S \o (r \o w)
    BY <2>1, ConcatAssociative, SMTT(60)
  <2>3. QED BY <1>1, <2>2
<1>3. Node(old, (S \o r) \o w).kind # "absent" /\ Node(old, S \o r).kind # "dir"
  BY <1>2 DEF IsFile, IsThere, S
<1>4. w = <<>>
  BY <1>1, <1>3, Ancestors
<1>5. QED BY <1>1, <1>4, ConcatEmptySeq

\* The tree has changed at w only.
LEMMA IntactKept ==
  ASSUME NEW t, NEW u, NEW c, NEW old, NEW w, Intact(t, c, old),
         \A q : q # w => Node(u, q) = Node(t, q),
         \A r \in Seq(Names) : Walk(c.src) \o r # w
  PROVE  Intact(u, c, old)
BY DEF Intact, SameBeneath

\* A file goes, or a directory with nothing in it: there is nothing left at p.
LEMMA RemovedIs ==
  ASSUME FileOpsAssumption, WellFormed(tree), NEW p \in Seq(Names), p # <<>>, Unset(p),
         Kind(p) = "file" \/ (Kind(p) = "dir" /\ EmptyAt(Walk(p))),
         NEW r \in Seq(Names)
  PROVE  Node(tree', Walk(p) \o r) = Absent
<1> DEFINE w == Walk(p)
<1>1. w \in Seq(Names) /\ w # <<>>
  BY WalkIsPath
<1>2. DOMAIN tree' = DOMAIN tree \ {w}
  BY DEF Unset
<1>3. \A q \in DOMAIN tree : IsPrefix(w, q) => q = w
  BY <1>1, FileHasNothingBeneath DEF Kind, EmptyAt, IsWithin
<1> HIDE DEF w
<1>4. w \o r \in Seq(Names) /\ w \o r # <<>> /\ IsPrefix(w, w \o r)
  BY <1>1, PrefixOfConcat, ConcatProperties, ConcatEqualIffEmpty
<1>5. w \o r \notin DOMAIN tree'
  BY <1>2, <1>3, <1>4
<1>6. QED BY <1>4, <1>5 DEF Node, w

\* What is known when a takes a step of a mv or a cp.
Going(a) ==
  /\ ActFits /\ FileOpsAssumption
  /\ Typed(act[a]) /\ WellFormed(tree) /\ WellFormed(before[a])
  /\ Plain(act[a].call) /\ act[a].at = 0

PhaseAfter(a) == Phase(tree', act'[a], before[a])

LEMMA EndsWell ==
  ASSUME NEW a \in Actors, Going(a), InOnePlace(tree, act[a].call, before[a]), Fail(a)
  PROVE  PhaseAfter(a)
<1>1. /\ act'[a].call = act[a].call /\ act'[a].todo = <<>> /\ act'[a].at = 0 /\ tree' = tree
      /\ act'[a].res = "error"
  BY FailedIs DEF Going, Plain, Forgives
<1>2. Ended(tree', act'[a], before[a])
  BY <1>1 DEF Ended
<1>3. QED BY <1>1, <1>2 DEF PhaseAfter, Phase

LEMMA RefusingStep ==
  ASSUME NEW a \in Actors, Going(a), Call(a), Refusing(tree, act[a], before[a])
  PROVE  PhaseAfter(a)
<1>1. Head(act[a].todo).do = "refuse"
  BY DEF Refusing, Refused, Task
<1>2. Fail(a)
  BY <1>1, CallIs DEF Refuse
<1>3. QED BY <1>2, EndsWell DEF Refusing, InOnePlace

\* In its directory, a name stands for an entry of what the directory stands for.
LEMMA RenamedIs ==
  ASSUME FileOpsAssumption, NEW c, Plain(c), c.op = "mv", c.dst # <<>>, Front(c.src) = Front(c.dst)
  PROVE  Renamed(Walk(c.src), c.dst) = Walk(c.dst)
<1>1. /\ c.src \in Seq(Names) /\ c.src # <<>> /\ c.dst \in Seq(Names)
      /\ c.src # BindAt /\ c.dst # BindAt
  BY Places DEF Plain
<1>2. /\ Front(c.src) \in Seq(Names) /\ Last(c.src) \in Names /\ c.src = Front(c.src) \o <<Last(c.src)>>
      /\ Last(c.dst) \in Names /\ c.dst = Front(c.src) \o <<Last(c.dst)>>
  BY <1>1, FrontLast
<1>3. /\ Walk(c.src) = Walk(Front(c.src)) \o <<Last(c.src)>>
      /\ Walk(c.dst) = Walk(Front(c.src)) \o <<Last(c.dst)>>
  BY <1>1, <1>2, WalkEntry
<1>4. Walk(Front(c.src)) \in Seq(Names)
  BY <1>2, WalkIsPath
<1>5. Front(Walk(c.src)) = Walk(Front(c.src))
  BY <1>2, <1>3, <1>4, FrontOfConcat
<1>6. QED BY <1>3, <1>5 DEF Renamed

\* Nothing is left where the subtree was.
LEMMA MoveLeaves ==
  ASSUME NEW t, WellFormed(t), NEW s \in Seq(Names), s # <<>>, NEW d \in Seq(Names),
         Len(s) = Len(d), ~IsPrefix(s, d), NEW r \in Seq(Names)
  PROVE  Node(Moved(t, s, d), s \o r) = Absent
<1> DEFINE moved == {q \in DOMAIN t : IsWithin(q, s)}
           D == (DOMAIN t \ moved) \cup {d \o Below(q, s) : q \in moved}
<1>1. DOMAIN Moved(t, s, d) = D
  BY DEF Moved
<1>2. s \o r \in Seq(Names) /\ s \o r # <<>> /\ IsPrefix(s, s \o r)
  BY PrefixOfConcat, ConcatProperties, ConcatEqualIffEmpty
<1>3. s \o r \notin DOMAIN t \ moved
  BY <1>2 DEF IsWithin
<1>4. ASSUME NEW q \in moved, s \o r = d \o Below(q, s) PROVE FALSE
  <2>1. Below(q, s) \in Seq(Names)
    BY <1>4, BelowIsPath, PathsAre DEF WellFormed
  <2>2. IsPrefix(d, s \o r)
    BY <1>4, <2>1, PrefixOfConcat
  <2>3. IsPrefix(s, d) \/ IsPrefix(d, s)
    BY <1>2, <2>2, Comparable
  <2>4. IsPrefix(s, d)
    BY <2>3, PrefixIff
  <2>5. QED BY <2>4
<1>5. s \o r \notin D
  BY <1>3, <1>4
<1>6. QED BY <1>1, <1>2, <1>5 DEF Node

LEMMA RenamingStep ==
  ASSUME NEW a \in Actors, Going(a), Call(a), Renaming(tree, act[a], before[a])
  PROVE  PhaseAfter(a)
<1> DEFINE c == act[a].call
           old == before[a]
<1>1. /\ act[a].todo = <<Task("rename", c.src, c.dst)>> /\ Intact(tree, c, old)
      /\ c.op = "mv" /\ c.dst # <<>> /\ Front(c.src) = Front(c.dst)
  BY DEF Renaming
<1>2. From(a) = c.src /\ To(a) = c.dst /\ Head(act[a].todo).do = "rename" /\ Tail(act[a].todo) = <<>>
  <2>1. Head(act[a].todo) = Task("rename", c.src, c.dst) /\ Tail(act[a].todo) = <<>>
    BY <1>1
  <2>2. QED BY <2>1 DEF From, To, Task
<1>3. Rename(a) /\ act[a].todo # <<>>
  BY <1>2, CallIs
<1>4. CASE Fail(a)
  BY <1>1, <1>4, EndsWell DEF InOnePlace
<1>5. CASE /\ tree' = Moved(tree, Walk(c.src), Renamed(Walk(c.src), c.dst)) /\ Next1(a)
           /\ Exists(c.src) /\ CanReplace(Walk(c.src), Renamed(Walk(c.src), c.dst))
  <2>1. c.src \in Seq(Names) /\ c.src # <<>> /\ c.dst \in Seq(Names)
    BY Places DEF Going
  <2>2. SameBeneath(tree', Renamed(Walk(c.src), c.dst), tree, Walk(c.src))
    BY <1>1, <1>5, <2>1, RenameMoves DEF Going
  <2>3. SameBeneath(tree', Walk(c.dst), tree, Walk(c.src))
    BY <1>1, <2>2, RenamedIs DEF Going
  <2>4. Brought(tree', c, old)
    BY <1>1, <2>3 DEF Brought, Arrived, Intact, SameBeneath
  <2>5. act'[a].call = c /\ act'[a].todo = <<>> /\ act'[a].at = 0
    BY <1>2, <1>3, <1>5, NextOn DEF Going
  <2>6. Gone(tree', c)
    <3> DEFINE s == Walk(c.src)
               d == Walk(c.dst)
    <3>1. /\ s \in Seq(Names) /\ s # <<>> /\ d \in Seq(Names) /\ ~IsPrefix(s, d) /\ WellFormed(tree)
          /\ Plain(c) /\ Renamed(s, c.dst) = d
      BY <1>1, Places, RenamedIs DEF Going, Plain
    <3>2. Len(s) = Len(d)
      <4>1. Last(c.dst) \in Names
        BY <1>1, <2>1, FrontLast
      <4>2. Front(s) \in Seq(Names) /\ Len(Front(s)) = Len(s) - 1 /\ Len(s) \in Nat
        BY <3>1, FrontLast, LenProperties
      <4>3. d = Front(s) \o <<Last(c.dst)>>
        BY <3>1 DEF Renamed
      <4>4. PICK e : e = <<Last(c.dst)>>
        OBVIOUS
      <4>5. e \in Seq(Names) /\ Len(e) = 1
        BY <4>1, <4>4
      <4>6. QED BY <4>2, <4>3, <4>4, <4>5, ConcatProperties
    <3>3. tree' = Moved(tree, s, d)
      BY <1>5, <3>1
    <3> HIDE DEF s, d
    <3>4. \A r \in Seq(Names) : Node(tree', s \o r) = Absent
      BY <3>1, <3>2, <3>3, MoveLeaves
    <3>5. QED BY <3>4 DEF Gone, s
  <2>7. Transferred(tree', c, old) /\ InOnePlace(tree', c, old)
    BY <1>1, <2>4, <2>6 DEF Transferred, InOnePlace
  <2>8. QED BY <2>5, <2>7 DEF PhaseAfter, Phase, Ended
<1>6. QED BY <1>2, <1>3, <1>4, <1>5, Zenon DEF Rename, Renamed, Moved

-----------------------------------------------------------------------------
(* A single file.                                                          *)

LEMMA FileTodo ==
  ASSUME FileOpsAssumption, NEW c, Plain(c)
  PROVE  /\ FileLast(c) \in Seq(AnyTask) /\ PutThen(c) \in Seq(AnyTask)
         /\ Head(PutThen(c)) = On("put", c.dst) /\ Tail(PutThen(c)) = FileLast(c)
         /\ Head(TruncThen(c)) = On("trunc", c.dst) /\ Tail(TruncThen(c)) = PutThen(c)
         /\ Head(CreateThen(c)) = On("create", c.dst) /\ Tail(CreateThen(c)) = TruncThen(c)
         /\ Head(ReadThen(c)) = On("read", c.src) /\ Tail(ReadThen(c)) = CreateThen(c)
<1>1. c.src \in Seq(Names) /\ c.dst \in Seq(Names)
  BY Places
<1>2. /\ On("put", c.dst) \in AnyTask /\ On("trunc", c.dst) \in AnyTask
      /\ On("create", c.dst) \in AnyTask /\ On("read", c.src) \in AnyTask
      /\ On("remove", c.src) \in AnyTask
  BY <1>1 DEF On, Task, AnyTask, AnyDo
<1>3. FileLast(c) \in Seq(AnyTask)
  <2>1. <<On("remove", c.src)>> \in Seq(AnyTask) /\ <<>> \in Seq(AnyTask)
    BY <1>2, OneIsSeq, EmptySeq
  <2>2. QED BY <2>1 DEF FileLast
<1>4. /\ PutThen(c) \in Seq(AnyTask)
      /\ Head(PutThen(c)) = On("put", c.dst) /\ Tail(PutThen(c)) = FileLast(c)
  BY <1>2, <1>3, HeadOfCons DEF PutThen
<1>5. /\ TruncThen(c) \in Seq(AnyTask)
      /\ Head(TruncThen(c)) = On("trunc", c.dst) /\ Tail(TruncThen(c)) = PutThen(c)
  BY <1>2, <1>4, HeadOfCons DEF TruncThen
<1>6. /\ CreateThen(c) \in Seq(AnyTask)
      /\ Head(CreateThen(c)) = On("create", c.dst) /\ Tail(CreateThen(c)) = TruncThen(c)
  BY <1>2, <1>5, HeadOfCons DEF CreateThen
<1>7. Head(ReadThen(c)) = On("read", c.src) /\ Tail(ReadThen(c)) = CreateThen(c)
  BY <1>2, <1>6, HeadOfCons DEF ReadThen
<1>8. QED BY <1>3, <1>4, <1>5, <1>6, <1>7

LEMMA FilingRead ==
  ASSUME NEW a \in Actors, Going(a), Call(a), Filing(tree, act[a], before[a]),
         act[a].todo = ReadThen(act[a].call)
  PROVE  PhaseAfter(a)
<1> DEFINE c == act[a].call
           old == before[a]
<1>1. Intact(tree, c, old) /\ c.dst # <<>> /\ Node(old, Walk(c.src)).kind = "file" /\ Plain(c)
  BY DEF Filing, Going
<1>2. Head(act[a].todo) = On("read", c.src) /\ Tail(act[a].todo) = CreateThen(c)
  BY <1>1, FileTodo DEF Going
<1>3. Read(a) /\ From(a) = c.src /\ act[a].todo # <<>>
  BY <1>2, CallIs DEF On, Task, From
<1>4. CASE Fail(a)
  BY <1>1, <1>4, EndsWell DEF InOnePlace
<1>5. CASE Goes(a, [act[a] EXCEPT !.buf = Data(c.src)], <<>>) /\ UNCHANGED tree
  <2>1. /\ act'[a].call = c /\ act'[a].todo = <<>> \o CreateThen(c)
        /\ act'[a].buf = Data(c.src) /\ act'[a].at = 0
    <3>1. ActFits /\ Local(act[a]) /\ act[a].at = 0
      BY DEF Going, Typed
    <3>2. /\ act'[a].call = act[a].call /\ act'[a].todo = <<>> \o Tail(act[a].todo)
          /\ act'[a].buf = Data(c.src) /\ act'[a].at = act[a].at
      BY <1>5, <3>1, WentOn
    <3>3. QED BY <1>2, <3>1, <3>2
  <2>2. act'[a].todo = CreateThen(c)
    <3>1. CreateThen(c) \in Seq(TaskOf(act[a]))
      BY <1>2, <1>3, TypedHead DEF Going
    <3>2. QED BY <2>1, <3>1, ConcatEmptySeq
  <2>3. Node(tree, Walk(c.src)) = Node(old, Walk(c.src))
    <3>1. <<>> \in Seq(Names) /\ Walk(c.src) \o <<>> = Walk(c.src)
      BY <1>1, EmptySeq, Places, ConcatEmptySeq DEF Going
    <3>2. QED BY <1>1, <3>1 DEF Intact, SameBeneath
  <2>4. Node(old, Walk(c.src)) = File(Data(c.src))
    BY <1>1, <2>3, NodesOf, Places DEF Going, Data
  <2>5. Intact(tree', c, old)
    BY <1>1, <1>5
  <2>6. Filing(tree', act'[a], old)
    BY <1>1, <2>1, <2>2, <2>4, <2>5 DEF Filing
  <2>7. QED BY <2>1, <2>6 DEF PhaseAfter, Phase
<1>6. QED BY <1>3, <1>4, <1>5 DEF Read

LEMMA FilingCreate ==
  ASSUME NEW a \in Actors, Going(a), Call(a), Filing(tree, act[a], before[a]),
         Node(before[a], Walk(act[a].call.src)) = File(act[a].buf),
         act[a].todo = CreateThen(act[a].call)
  PROVE  PhaseAfter(a)
<1> DEFINE c == act[a].call
           old == before[a]
<1>1. Intact(tree, c, old) /\ c.dst # <<>> /\ Node(old, Walk(c.src)).kind = "file" /\ Plain(c)
  BY DEF Filing, Going
<1>2. Head(act[a].todo) = On("create", c.dst) /\ Tail(act[a].todo) = TruncThen(c)
  BY <1>1, FileTodo DEF Going
<1>3. Create(a) /\ To(a) = c.dst /\ act[a].todo # <<>>
  BY <1>2, CallIs DEF On, Task, To
<1>4. CASE Fail(a)
  BY <1>1, <1>4, EndsWell DEF InOnePlace
<1>5. ASSUME Next1(a), Intact(tree', c, old) PROVE PhaseAfter(a)
  <2>1. /\ act'[a].call = c /\ act'[a].todo = TruncThen(c)
        /\ act'[a].buf = act[a].buf /\ act'[a].at = 0
    BY <1>2, <1>3, <1>5, NextOn DEF Going
  <2>2. Filing(tree', act'[a], old)
    BY <1>1, <1>5, <2>1 DEF Filing
  <2>3. QED BY <2>1, <2>2 DEF PhaseAfter, Phase
<1>6. CASE UNCHANGED tree /\ Next1(a)
  BY <1>1, <1>5, <1>6
<1>7. CASE Set(c.dst, File(<<>>)) /\ Next1(a)
  <2>1. \A q : q # Walk(c.dst) => Node(tree', q) = Node(tree, q)
    BY <1>7, SetIs
  <2>2. \A r \in Seq(Names) : Walk(c.src) \o r # Walk(c.dst)
    BY <1>1, PlacesBeneath DEF Going
  <2>3. Intact(tree', c, old)
    BY <1>1, <2>1, <2>2, IntactKept
  <2>4. QED BY <1>5, <1>7, <2>3
<1>8. QED BY <1>3, <1>4, <1>6, <1>7 DEF Create

LEMMA FilingTrunc ==
  ASSUME NEW a \in Actors, Going(a), Call(a), Filing(tree, act[a], before[a]),
         Node(before[a], Walk(act[a].call.src)) = File(act[a].buf),
         act[a].todo = TruncThen(act[a].call)
  PROVE  PhaseAfter(a)
<1> DEFINE c == act[a].call
           old == before[a]
<1>1. Intact(tree, c, old) /\ c.dst # <<>> /\ Node(old, Walk(c.src)).kind = "file" /\ Plain(c)
  BY DEF Filing, Going
<1>2. Head(act[a].todo) = On("trunc", c.dst) /\ Tail(act[a].todo) = PutThen(c)
  BY <1>1, FileTodo DEF Going
<1>3. Trunc(a) /\ To(a) = c.dst /\ act[a].todo # <<>>
  BY <1>2, CallIs DEF On, Task, To
<1>4. CASE Fail(a)
  BY <1>1, <1>4, EndsWell DEF InOnePlace
<1>5. CASE Kind(c.dst) = "file" /\ Set(c.dst, File(<<>>)) /\ Next1(a)
  <2>1. /\ Walk(c.dst) # <<>> /\ Node(tree', Walk(c.dst)) = File(<<>>)
        /\ \A q : q # Walk(c.dst) => Node(tree', q) = Node(tree, q)
    BY <1>1, <1>5, SetIs, Places DEF Going
  <2>2. \A r \in Seq(Names) : Walk(c.src) \o r # Walk(c.dst)
    BY <1>1, PlacesBeneath DEF Going
  <2>3. Intact(tree', c, old)
    BY <1>1, <2>1, <2>2, IntactKept
  <2>4. Apart(c)
    <3>1. <<>> \in Seq(Names) /\ Walk(c.src) \o <<>> = Walk(c.src)
      BY <1>1, EmptySeq, Places, ConcatEmptySeq DEF Going
    <3>2. Node(tree, Walk(c.src)).kind = "file"
      BY <1>1, <3>1 DEF Intact, SameBeneath
    <3>3. QED BY <1>1, <1>5, <3>2, ApartIf DEF Going, Kind
  <2>5. /\ act'[a].call = c /\ act'[a].todo = PutThen(c)
        /\ act'[a].buf = act[a].buf /\ act'[a].at = 0
    BY <1>2, <1>3, <1>5, NextOn DEF Going
  <2>6. Filing(tree', act'[a], old)
    BY <1>1, <2>1, <2>3, <2>4, <2>5 DEF Filing
  <2>7. QED BY <2>5, <2>6 DEF PhaseAfter, Phase
<1>6. QED BY <1>3, <1>4, <1>5 DEF Trunc

LEMMA FilingPut ==
  ASSUME NEW a \in Actors, Going(a), Call(a), Filing(tree, act[a], before[a]),
         Node(before[a], Walk(act[a].call.src)) = File(act[a].buf),
         act[a].todo = PutThen(act[a].call), Apart(act[a].call),
         Node(tree, Walk(act[a].call.dst)) = File(<<>>)
  PROVE  PhaseAfter(a)
<1> DEFINE c == act[a].call
           old == before[a]
<1>1. Intact(tree, c, old) /\ c.dst # <<>> /\ Node(old, Walk(c.src)).kind = "file" /\ Plain(c)
  BY DEF Filing, Going
<1>2. Head(act[a].todo) = On("put", c.dst) /\ Tail(act[a].todo) = FileLast(c)
  BY <1>1, FileTodo DEF Going
<1>3. Put(a) /\ To(a) = c.dst /\ act[a].todo # <<>>
  <2>1. Head(act[a].todo).do = "put" /\ To(a) = c.dst
    BY <1>2 DEF On, Task, To
  <2>2. QED BY <2>1, CallIs, Zenon
<1>4. Kind(c.dst) = "file" /\ Data(c.dst) = <<>>
  BY DEF Kind, Data, File
<1>5. Written(Data(c.dst), act[a].buf, act[a].at) = act[a].buf
  BY <1>4, WrittenWhole DEF Going, Typed
<1>6. Set(c.dst, File(act[a].buf)) /\ Next1(a)
  BY <1>3, <1>4, <1>5 DEF Put
<1>7. /\ Walk(c.dst) # <<>> /\ Node(tree', Walk(c.dst)) = File(act[a].buf)
      /\ \A q : q # Walk(c.dst) => Node(tree', q) = Node(tree, q)
  BY <1>1, <1>6, SetIs, Places DEF Going
<1>8. Intact(tree', c, old)
  <2>1. \A r \in Seq(Names) : Walk(c.src) \o r # Walk(c.dst)
    BY <1>1, PlacesBeneath DEF Going
  <2>2. QED BY <1>1, <1>7, <2>1, IntactKept
<1>9. act'[a].call = c /\ act'[a].todo = FileLast(c) /\ act'[a].at = 0
  BY <1>2, <1>3, <1>6, NextOn DEF Going
<1>10. /\ <<>> \in Seq(Names) /\ Walk(c.src) \o <<>> = Walk(c.src) /\ Walk(c.dst) \o <<>> = Walk(c.dst)
       /\ c.src \o <<>> = c.src
  BY <1>1, EmptySeq, Places, ConcatEmptySeq DEF Going
<1>11. Brought(tree', c, old)
  <2>1. ASSUME NEW r \in Seq(Names), IsThere(old, c, r) PROVE Arrived(tree', c, old, r)
    <3>1. IsFile(old, c, <<>>)
      BY <1>1, <1>10 DEF IsFile
    <3>2. IsPrefix(<<>>, r)
      <4>1. <<>> \o r = r
        BY ConcatEmptySeq
      <4>2. QED BY <1>10, <4>1, PrefixOfConcat
    <3>3. r = <<>>
      BY <1>1, <1>10, <2>1, <3>1, <3>2, OnlyItself DEF Going
    <3>4. QED BY <1>7, <1>10, <3>3 DEF Arrived
  <2>2. QED BY <1>1, <2>1 DEF Brought
<1>12. CASE c.op # "mv"
  <2>1. InOnePlace(tree', c, old) /\ Transferred(tree', c, old)
    BY <1>8, <1>11, <1>12 DEF InOnePlace, Transferred
  <2>2. QED BY <1>9, <1>12, <2>1 DEF FileLast, PhaseAfter, Phase, Ended
<1>13. CASE c.op = "mv"
  <2>1. PICK x : x = On("remove", c.src)
    OBVIOUS
  <2>2. x \in RemoveTasks(c) /\ x.s = c.src
    <3>1. On("remove", c.src) \in AnyTask
      BY <1>1, Places DEF Going, On, Task, AnyTask, AnyDo
    <3>2. QED BY <1>10, <2>1, <3>1 DEF RemoveTasks, On, Task
  <2>3. FileLast(c) = <<x>>
    BY <1>13, <2>1 DEF FileLast
  <2>4. <<x>> \in Seq(RemoveTasks(c)) /\ <<x>> # <<>> /\ Last(<<x>>) = x
    BY <2>2, OneIsSeq, LastIs, EmptySeq
  <2>5. QED BY <1>1, <1>9, <1>11, <1>13, <2>2, <2>3, <2>4 DEF PhaseAfter, Phase, Removing
<1>14. QED BY <1>12, <1>13

LEMMA FilingStep ==
  ASSUME NEW a \in Actors, Going(a), Call(a), Filing(tree, act[a], before[a])
  PROVE  PhaseAfter(a)
BY FilingRead, FilingCreate, FilingTrunc, FilingPut DEF Filing

LEMMA EntryBeneath ==
  ASSUME NEW s \in Seq(Names), NEW r \in Seq(Names), NEW n \in Names
  PROVE  (s \o r) \o <<n>> = s \o (r \o <<n>>)
<1>1. PICK e : e = <<n>>
  OBVIOUS
<1>2. e \in Seq(Names)
  BY <1>1
<1>3. (s \o r) \o e = s \o (r \o e)
  BY <1>2, ConcatAssociative, SMTT(60)
<1>4. QED BY <1>1, <1>3

-----------------------------------------------------------------------------
(* The source goes.                                                        *)

LEMMA RemovingStep ==
  ASSUME NEW a \in Actors, Going(a), Call(a), Removing(tree, act[a], before[a])
  PROVE  PhaseAfter(a)
<1> DEFINE c == act[a].call
           old == before[a]
           R == RemoveTasks(act[a].call)
<1>1. /\ c.op = "mv" /\ Brought(tree, c, old) /\ Apart(c) /\ Plain(c)
      /\ act[a].todo \in Seq(R) /\ act[a].todo # <<>> /\ Last(act[a].todo).s = c.src
  BY DEF Removing, Going
<1>2. /\ Head(act[a].todo) \in R /\ Tail(act[a].todo) \in Seq(R)
      /\ Tail(act[a].todo) # <<>> => Last(Tail(act[a].todo)) = Last(act[a].todo)
      /\ Tail(act[a].todo) = <<>> => Last(act[a].todo) = Head(act[a].todo)
  <2> HIDE DEF R
  <2>1. QED BY <1>1, LastOfTail, Zenon
<1>3. PICK r \in Seq(Names) : From(a) = c.src \o r
  BY <1>2 DEF RemoveTasks, From
<1>4. From(a) \in Seq(Names) /\ Walk(From(a)) = Walk(c.src) \o r /\ c.dst # <<>>
  BY <1>1, <1>3, PlacesBeneath DEF Going, Brought
<1>5. CASE Fail(a)
  BY <1>1, <1>5, EndsWell DEF InOnePlace
<1>6. CASE /\ Kind(From(a)) = "file" \/ (Kind(From(a)) = "dir" /\ EmptyAt(Walk(From(a))))
           /\ Unset(From(a)) /\ Next1(a)
  <2>1. act'[a].call = c /\ act'[a].todo = Tail(act[a].todo) /\ act'[a].at = 0
    BY <1>1, <1>6, NextOn DEF Going
  <2>2. ASSUME NEW u \in Seq(Names), IsThere(old, c, u) PROVE Arrived(tree', c, old, u)
    <3>1. Walk(c.dst) \o u # Walk(From(a))
      BY <1>1, <1>4, ApartBeneath DEF Going
    <3>2. Node(tree', Walk(c.dst) \o u) = Node(tree, Walk(c.dst) \o u)
      BY <1>6, <3>1, UnsetIs
    <3>3. QED BY <1>1, <2>2, <3>2 DEF Brought, Arrived
  <2>3. Brought(tree', c, old)
    BY <1>1, <2>2 DEF Brought
  <2>4. CASE Tail(act[a].todo) = <<>>
    <3>1. From(a) = c.src
      BY <1>1, <1>2, <2>4 DEF From
    <3>2. Gone(tree', c)
      BY <1>1, <1>6, <3>1, RemovedIs, Places DEF Gone, Going
    <3>3. InOnePlace(tree', c, old) /\ Transferred(tree', c, old)
      BY <1>1, <2>3, <3>2 DEF InOnePlace, Transferred
    <3>4. QED BY <2>1, <2>4, <3>3 DEF PhaseAfter, Phase, Ended
  <2>5. CASE Tail(act[a].todo) # <<>>
    BY <1>1, <1>2, <2>1, <2>3, <2>5 DEF PhaseAfter, Phase, Removing
  <2>6. QED BY <2>4, <2>5
<1>7. CASE RemoveTree(a) /\ ~Fail(a)
  <2> DEFINE S == {n \in Names : Exists(From(a) \o <<n>>)}
             names == SetToSeq(S)
             Each(n) == LET p == From(a) \o <<n>> IN On(IF Kind(p) = "dir" THEN "rmtree" ELSE "remove", p)
             f == [i \in DOMAIN names |-> Each(names[i])]
             more == f \o <<On("remove", From(a))>>
  <2>1. Goes(a, act[a], more) /\ UNCHANGED tree
    BY <1>7 DEF RemoveTree, Entries
  <2>2. ASSUME NEW w \in Seq(Names), NEW do \in {"rmtree", "remove"} PROVE On(do, c.src \o w) \in R
    <3>1. c.src \o w \in Seq(Names)
      BY <1>1, PlacesBeneath DEF Going
    <3>2. QED BY <3>1 DEF RemoveTasks, On, Task, AnyTask, AnyDo
  <2>3. \A n \in Names : Each(n) \in R
    <3> TAKE n \in Names
    <3>1. c.src \in Seq(Names) /\ <<n>> \in Seq(Names) /\ r \o <<n>> \in Seq(Names)
      <4>1. c.src \in Seq(Names)
        BY <1>1, Places DEF Going
      <4>2. QED BY <4>1, OneIsSeq, EntryPath
    <3>2. (c.src \o r) \o <<n>> = c.src \o (r \o <<n>>)
      <4>1. c.src \in Seq(Names) /\ <<n>> \in Seq(Names)
        BY <3>1
      <4>2. QED BY <4>1, EntryBeneath
    <3>3. From(a) \o <<n>> = c.src \o (r \o <<n>>)
      BY <1>3, <3>2
    <3>4. /\ On("rmtree", From(a) \o <<n>>) \in R
          /\ On("remove", From(a) \o <<n>>) \in R
      BY <2>2, <3>1, <3>3
    <3>5. QED BY <3>4
  <2>4. f \in Seq(R)
    <3>1. f = [i \in DOMAIN names |-> f[i]] /\ \A i \in DOMAIN names : names[i] \in S => f[i] \in R
      BY <2>3
    <3>2. S \in SUBSET Names
      OBVIOUS
    <3> HIDE DEF f, R, S
    <3>3. QED BY <3>1, <3>2, EachName DEF Going
  <2>5. On("remove", From(a)) \in R /\ On("remove", From(a)).s = From(a)
    BY <1>3, <2>2 DEF On, Task
  <2> HIDE DEF f
  <2>6. more \in Seq(R) /\ more # <<>> /\ Last(more).s = From(a)
    BY <2>4, <2>5, LastIs
  <2> HIDE DEF more
  <2>7. /\ act'[a].call = c /\ act'[a].todo = more \o Tail(act[a].todo) /\ act'[a].at = 0
    <3>1. ActFits /\ Local(act[a]) /\ act[a].at = 0
      BY DEF Going, Typed
    <3>2. QED BY <2>1, <3>1, WentOn
  <2>8. act'[a].todo \in Seq(R) /\ act'[a].todo # <<>> /\ Last(act'[a].todo).s = c.src
    <3>1. PICK todo \in Seq(R), new \in Seq(R) : todo = act[a].todo /\ new = more
      BY <1>1, <2>6
    <3> DEFINE rest == new \o Tail(todo)
    <3>2. /\ rest \in Seq(R)
          /\ Tail(todo) # <<>> => rest # <<>> /\ Last(rest) = Last(todo)
          /\ Tail(todo) = <<>> => rest = new /\ Last(todo) = Head(todo)
      <4> HIDE DEF R
      <4>1. todo # <<>>
        BY <1>1, <3>1
      <4>2. /\ new \o Tail(todo) \in Seq(R)
            /\ Tail(todo) # <<>> => new \o Tail(todo) # <<>> /\ Last(new \o Tail(todo)) = Last(todo)
            /\ Tail(todo) = <<>> => new \o Tail(todo) = new /\ Last(todo) = Head(todo)
        BY <4>1, LastOfRest, Zenon
      <4>3. QED BY <3>1, <4>2, Zenon
    <3>3. Tail(todo) = <<>> => From(a) = c.src
      BY <1>1, <3>1, <3>2 DEF From
    <3>4. QED BY <1>1, <2>6, <2>7, <3>1, <3>2, <3>3
  <2>9. Brought(tree', c, old)
    BY <1>1, <2>1
  <2>10. QED BY <1>1, <2>7, <2>8, <2>9 DEF PhaseAfter, Phase, Removing
<1>8. RemoveEntry(a) \/ RemoveTree(a)
  <2>1. Head(act[a].todo).do \in {"rmtree", "remove"}
    BY <1>2 DEF RemoveTasks
  <2>2. QED BY <2>1, CallIs
<1>9. QED BY <1>5, <1>6, <1>7, <1>8 DEF RemoveEntry

-----------------------------------------------------------------------------
(* A directory, entry by entry.                                            *)

LEMMA CopyTodo ==
  ASSUME FileOpsAssumption, NEW c, Plain(c)
  PROVE  DirLast(c) \in Seq(AnyTask) /\ CopyTasks(c) \subseteq AnyTask
<1>1. On("rmtree", c.src) \in AnyTask
  BY Places DEF On, Task, AnyTask, AnyDo
<1>2. <<On("rmtree", c.src)>> \in Seq(AnyTask) /\ <<>> \in Seq(AnyTask)
  BY <1>1, OneIsSeq, EmptySeq
<1>3. QED BY <1>2 DEF DirLast, CopyTasks

LEMMA WaitsSplits ==
  ASSUME NEW c, NEW later \in Seq(CopyTasks(c)), later # <<>>, NEW u, Waits(c, later, u)
  PROVE  Leads(c, Head(later), u) \/ Waits(c, Tail(later), u)
<1>1. PICK i \in 1 .. Len(later) : Leads(c, later[i], u)
  BY DEF Waits
<1>2. CASE i = 1
  BY <1>1, <1>2, ConsOfHead
<1>3. CASE i # 1
  <2>1. i \in 2 .. Len(later)
    BY <1>3
  <2>2. i - 1 \in 1 .. Len(Tail(later)) /\ Tail(later)[i - 1] = later[i]
    BY <2>1, ConsOfHead
  <2>3. Waits(c, Tail(later), u)
    BY <1>1, <2>2 DEF Waits
  <2>4. QED BY <2>3
<1>4. QED BY <1>2, <1>3

LEMMA WaitsJoins ==
  ASSUME NEW c, NEW s \in Seq(CopyTasks(c)), NEW t \in Seq(CopyTasks(c)), NEW u,
         Waits(c, s, u) \/ Waits(c, t, u)
  PROVE  Waits(c, s \o t, u)
<1>1. /\ Len(s \o t) = Len(s) + Len(t) /\ Len(s) \in Nat /\ Len(t) \in Nat
      /\ \A i \in 1 .. Len(s) + Len(t) : (s \o t)[i] = IF i <= Len(s) THEN s[i] ELSE t[i - Len(s)]
  BY ConcatProperties, LenProperties
<1>2. CASE Waits(c, s, u)
  <2>1. PICK i \in 1 .. Len(s) : Leads(c, s[i], u)
    BY <1>2 DEF Waits
  <2>2. i \in 1 .. Len(s \o t) /\ (s \o t)[i] = s[i]
    BY <1>1, <2>1
  <2>3. QED BY <2>1, <2>2 DEF Waits
<1>3. CASE Waits(c, t, u)
  <2>1. PICK i \in 1 .. Len(t) : Leads(c, t[i], u)
    BY <1>3 DEF Waits
  <2>2. Len(s) + i \in 1 .. Len(s \o t) /\ (s \o t)[Len(s) + i] = t[i]
    <3>1. Len(s) + i \in 1 .. Len(s) + Len(t) /\ ~(Len(s) + i <= Len(s)) /\ (Len(s) + i) - Len(s) = i
      BY <1>1, <2>1
    <3>2. (s \o t)[Len(s) + i] = t[(Len(s) + i) - Len(s)]
      BY <1>1, <3>1
    <3>3. QED BY <1>1, <3>1, <3>2
  <2>3. QED BY <2>1, <2>2 DEF Waits
<1>4. QED BY <1>2, <1>3

\* The tasks for the entries of the directory r come to all that is beneath it.
LEMMA EntriesLead ==
  ASSUME FileOpsAssumption, NEW c, Plain(c), NEW old, WellFormed(old), Intact(tree, c, old),
         NEW r \in Seq(Names), Kind(c.src \o r) = "dir", NEW u \in Seq(Names), IsPrefix(r, u),
         u # r, IsThere(old, c, u),
         NEW more, DOMAIN more = DOMAIN Entries(c.src \o r),
         \A i \in DOMAIN more : more[i].s = (c.src \o r) \o <<Entries(c.src \o r)[i]>>
  PROVE  \E i \in DOMAIN more : Leads(c, more[i], u)
<1> DEFINE S == Walk(c.src)
           w == Below(u, r)
<1>1. w \in Seq(Names) /\ u = r \o w /\ S \in Seq(Names) /\ S \o r \in Seq(Names) /\ c.src \in Seq(Names)
  BY PrefixSplits, Places, PlacesBeneath
<1> HIDE DEF w
<1>2. w # <<>>
  BY <1>1, ConcatEmptySeq
<1>3. Head(w) \in Names /\ Tail(w) \in Seq(Names) /\ w = <<Head(w)>> \o Tail(w)
  BY <1>1, <1>2, ConsOfHead
<1> DEFINE n == Head(w)
           z == Tail(w)
           v == r \o <<n>>
<1>4. n \in Names /\ z \in Seq(Names) /\ <<n>> \in Seq(Names) /\ v \in Seq(Names)
  BY <1>3, OneIsSeq, EntryPath
<1>5. u = v \o z
  <2>1. (r \o <<n>>) \o z = r \o (<<n>> \o z)
    BY <1>4, ConcatAssociative, SMTT(60)
  <2>2. QED BY <1>1, <1>3, <2>1
<1>6. IsPrefix(v, u)
  BY <1>4, <1>5, PrefixOfConcat
<1>7. Node(old, S \o v).kind # "absent"
  <2>1. S \o v \in Seq(Names) /\ S \o u = (S \o v) \o z
    <3>1. S \o v \in Seq(Names)
      BY <1>4, PlacesBeneath
    <3>2. (S \o v) \o z = S \o (v \o z)
      BY <1>1, <1>4, ConcatAssociative, SMTT(60)
    <3>3. QED BY <1>5, <3>1, <3>2
  <2>2. Node(old, (S \o v) \o z).kind # "absent"
    BY <2>1 DEF IsThere
  <2>3. CASE z = <<>>
    <3>1. (S \o v) \o z = S \o v
      BY <2>1, <2>3, ConcatEmptySeq
    <3>2. QED BY <2>2, <3>1
  <2>4. CASE z # <<>>
    <3>1. Node(old, S \o v).kind = "dir"
      BY <1>4, <2>1, <2>2, <2>4, Ancestors
    <3>2. QED BY <3>1
  <2>5. QED BY <2>3, <2>4
<1>8. (c.src \o r) \o <<n>> = c.src \o v
  <2>1. c.src \in Seq(Names) /\ <<n>> \in Seq(Names)
    BY <1>1, <1>4
  <2>2. QED BY <1>4, <2>1, EntryBeneath
<1>9. Exists((c.src \o r) \o <<n>>)
  <2>1. Walk(c.src \o v) = S \o v
    BY <1>4, PlacesBeneath
  <2>2. Node(tree, S \o v) = Node(old, S \o v)
    BY <1>4 DEF Intact, SameBeneath
  <2>3. QED BY <1>7, <1>8, <2>1, <2>2 DEF Exists, Kind
<1> HIDE DEF n
<1>10. PICK i \in DOMAIN Entries(c.src \o r) : Entries(c.src \o r)[i] = n
  <2> DEFINE N == {m \in Names : Exists((c.src \o r) \o <<m>>)}
  <2>1. N \in SUBSET Names /\ n \in N
    BY <1>4, <1>9
  <2> HIDE DEF N
  <2>2. \E i \in DOMAIN SetToSeq(N) : SetToSeq(N)[i] = n
    BY <2>1, AllAreListed
  <2>3. QED BY <2>2 DEF Entries, N
<1>11. i \in DOMAIN more /\ more[i].s = c.src \o v
  BY <1>8, <1>10
<1>12. Leads(c, more[i], u)
  BY <1>4, <1>6, <1>11 DEF Leads
<1>13. QED BY <1>11, <1>12

LEMMA TodoHead ==
  ASSUME FileOpsAssumption, NEW c, Plain(c), NEW later \in Seq(CopyTasks(c)), later # <<>>
  PROVE  /\ Head(later) \in CopyTasks(c) /\ Tail(later) \in Seq(CopyTasks(c))
         /\ Head(later \o DirLast(c)) = Head(later)
         /\ Tail(later \o DirLast(c)) = Tail(later) \o DirLast(c)
<1>1. Head(later) \in CopyTasks(c) /\ Tail(later) \in Seq(CopyTasks(c)) /\ later = <<Head(later)>> \o Tail(later)
  BY ConsOfHead
<1>2. Head(later) \in AnyTask /\ Tail(later) \in Seq(AnyTask) /\ DirLast(c) \in Seq(AnyTask)
  BY <1>1, CopyTodo, SeqMonotonic
<1>3. PICK h \in AnyTask : h = Head(later)
  BY <1>2
<1>4. PICK z \in Seq(AnyTask) : z = Tail(later)
  BY <1>2
<1>5. PICK e \in Seq(AnyTask) : e = <<h>>
  BY OneIsSeq
<1>6. PICK d \in Seq(AnyTask) : d = DirLast(c)
  BY <1>2
<1>7. (e \o z) \o d = e \o (z \o d)
  BY ConcatAssociative, SMTT(60)
<1>8. z \o d \in Seq(AnyTask)
  BY ConcatProperties
<1>9. Head(<<h>> \o (z \o d)) = h /\ Tail(<<h>> \o (z \o d)) = z \o d
  BY <1>8, HeadOfCons
<1>10. later \o DirLast(c) = <<h>> \o (z \o d)
  BY <1>1, <1>3, <1>4, <1>5, <1>6, <1>7
<1>11. QED BY <1>1, <1>3, <1>4, <1>6, <1>9, <1>10

\* The new tasks come before the others.
LEMMA MoreFirst ==
  ASSUME FileOpsAssumption, NEW c, Plain(c), NEW more \in Seq(CopyTasks(c)), NEW rest \in Seq(CopyTasks(c))
  PROVE  /\ more \o rest \in Seq(CopyTasks(c))
         /\ more \o (rest \o DirLast(c)) = (more \o rest) \o DirLast(c)
<1>1. more \o rest \in Seq(CopyTasks(c))
  BY ConcatProperties
<1>2. more \in Seq(AnyTask) /\ rest \in Seq(AnyTask) /\ DirLast(c) \in Seq(AnyTask)
  BY CopyTodo, SeqMonotonic
<1>3. more \o (rest \o DirLast(c)) = (more \o rest) \o DirLast(c)
  BY <1>2, ConcatAssociative, SMTT(60)
<1>4. QED BY <1>1, <1>3

One(x) == <<x>>
Three(x, y, z) == <<x, y, z>>

LEMMA ThreeTasks ==
  ASSUME NEW x \in AnyTask, NEW y \in AnyTask, NEW z \in AnyTask, NEW s \in Seq(AnyTask)
  PROVE  Three(x, y, z) \o s = One(x) \o (One(y) \o (One(z) \o s))
<1>1. PICK t, e, f, g : t = Three(x, y, z) /\ e = One(x) /\ f = One(y) /\ g = One(z)
  OBVIOUS
<1>2. t = <<x, y, z>> /\ e = <<x>> /\ f = <<y>> /\ g = <<z>>
  BY <1>1 DEF One, Three
<1>3. PICK p : p = <<y, z>>
  OBVIOUS
<1>4. e \in Seq(AnyTask) /\ f \in Seq(AnyTask) /\ g \in Seq(AnyTask) /\ p \in Seq(AnyTask)
  BY <1>2, <1>3, OneIsSeq, TwoAreSeq
<1>5. t = e \o p
  <2>1. /\ <<x>> \o <<y, z>> \in Seq(AnyTask) /\ Len(<<x>> \o <<y, z>>) = 3
        /\ (<<x>> \o <<y, z>>)[1] = x /\ (<<x>> \o <<y, z>>)[2] = y /\ (<<x>> \o <<y, z>>)[3] = z
    OBVIOUS
  <2>2. /\ t \in Seq(AnyTask) /\ Len(t) = 3 /\ t[1] = x /\ t[2] = y /\ t[3] = z
    BY <1>2
  <2>3. PICK u : u = <<x>> \o <<y, z>>
    OBVIOUS
  <2>4. u \in Seq(AnyTask) /\ Len(u) = 3 /\ t[1] = u[1] /\ t[2] = u[2] /\ t[3] = u[3]
    BY <2>1, <2>2, <2>3
  <2>5. t = u
    BY <2>2, <2>4, SeqEqual
  <2>6. QED BY <1>2, <1>3, <2>3, <2>5
<1>6. p = f \o g
  <2>1. /\ <<y>> \o <<z>> \in Seq(AnyTask) /\ Len(<<y>> \o <<z>>) = 2
        /\ (<<y>> \o <<z>>)[1] = y /\ (<<y>> \o <<z>>)[2] = z
    OBVIOUS
  <2>2. Len(p) = 2 /\ p[1] = y /\ p[2] = z
    BY <1>3
  <2>3. PICK u : u = <<y>> \o <<z>>
    OBVIOUS
  <2>4. u \in Seq(AnyTask) /\ Len(u) = 2 /\ p[1] = u[1] /\ p[2] = u[2]
    BY <2>1, <2>2, <2>3
  <2>5. \A i \in 1 .. Len(p) : p[i] = u[i]
    BY <2>2, <2>4
  <2>6. p = u
    <3>1. Len(p) = Len(u) /\ p \in Seq(AnyTask) /\ u \in Seq(AnyTask)
      BY <1>4, <2>2, <2>4
    <3>2. QED BY <2>5, <3>1, SeqEqual
  <2>7. QED BY <1>2, <2>3, <2>6
<1>7. (e \o p) \o s = e \o (p \o s)
  BY <1>4, ConcatAssociative, SMTT(60)
<1>8. (f \o g) \o s = f \o (g \o s)
  BY <1>4, ConcatAssociative, SMTT(60)
<1>9. t \o s = e \o (f \o (g \o s))
  BY <1>5, <1>6, <1>7, <1>8
<1>10. QED BY <1>1, <1>9

LEMMA CopyingTree ==
  ASSUME NEW a \in Actors, Going(a), Call(a),
         Intact(tree, act[a].call, before[a]), Apart(act[a].call), act[a].call.dst # <<>>,
         NEW later \in Seq(CopyTasks(act[a].call)), later # <<>>,
         act[a].todo = later \o DirLast(act[a].call),
         \A u \in Seq(Names) :
           IsThere(before[a], act[a].call, u) =>
             Arrived(tree, act[a].call, before[a], u) \/ Waits(act[a].call, later, u),
         CopyDir(a)
  PROVE  PhaseAfter(a)
<1> DEFINE c == act[a].call
           old == before[a]
           T == CopyTasks(act[a].call)
<1>1. /\ Head(later) \in T /\ Tail(later) \in Seq(T) /\ Head(act[a].todo) = Head(later)
      /\ Tail(act[a].todo) = Tail(later) \o DirLast(c) /\ act[a].todo # <<>> /\ Plain(c)
  BY TodoHead, CallIs DEF Going
<1>2. PICK r \in Seq(Names) : From(a) = c.src \o r /\ To(a) = c.dst \o r
  BY <1>1 DEF CopyTasks, From, To
<1>3. /\ From(a) \in Seq(Names) /\ To(a) \in Seq(Names)
      /\ Walk(From(a)) = Walk(c.src) \o r /\ Walk(To(a)) = Walk(c.dst) \o r
  BY <1>1, <1>2, PlacesBeneath, ZenonT(30) DEF Going
<1>4. CASE Fail(a)
  BY <1>4, EndsWell DEF InOnePlace
<1>5. CASE ~Fail(a)
  <2> DEFINE names == Entries(From(a))
             more == [i \in DOMAIN names |-> Task("copyent", From(a) \o <<names[i]>>, To(a) \o <<names[i]>>)]
  <2>1. Kind(From(a)) = "dir" /\ CanCreate(To(a)) /\ Set(To(a), Dir) /\ Goes(a, act[a], more)
    BY <1>5 DEF CopyDir
  <2>2. \A n \in Names : Task("copyent", From(a) \o <<n>>, To(a) \o <<n>>) \in T
    <3> TAKE n \in Names
    <3>1. From(a) \o <<n>> \in Seq(Names) /\ To(a) \o <<n>> \in Seq(Names) /\ r \o <<n>> \in Seq(Names)
      BY <1>3, EntryPath
    <3>2. From(a) \o <<n>> = c.src \o (r \o <<n>>) /\ To(a) \o <<n>> = c.dst \o (r \o <<n>>)
      <4>1. c.src \in Seq(Names) /\ c.dst \in Seq(Names)
        BY <1>1, Places DEF Going
      <4>2. QED BY <1>2, <4>1, EntryBeneath
    <3>3. Task("copyent", From(a) \o <<n>>, To(a) \o <<n>>) \in AnyTask
      BY <3>1 DEF Task, AnyTask, AnyDo
    <3>4. QED BY <3>1, <3>2, <3>3 DEF CopyTasks, Task
  <2>3. more \in Seq(T)
    <3> DEFINE S == {n \in Names : Exists(From(a) \o <<n>>)}
    <3>1. names = SetToSeq(S) /\ S \in SUBSET Names
      BY DEF Entries
    <3>2. more = [i \in DOMAIN SetToSeq(S) |-> more[i]]
      BY <3>1
    <3>3. \A i \in DOMAIN SetToSeq(S) : SetToSeq(S)[i] \in S => more[i] \in T
      BY <2>2, <3>1
    <3> HIDE DEF more, T, S
    <3>4. QED BY <3>1, <3>2, <3>3, EachName DEF Going
  <2>4. /\ DOMAIN more = DOMAIN Entries(c.src \o r)
        /\ \A i \in DOMAIN more : more[i].s = (c.src \o r) \o <<Entries(c.src \o r)[i]>>
    BY <1>2 DEF Task
  <2>5. DOMAIN more = 1 .. Len(more)
    BY <2>3, LenProperties
  <2> HIDE DEF more
  <2> DEFINE rest == more \o Tail(later)
  <2>6. act'[a].call = c /\ act'[a].todo = more \o Tail(act[a].todo) /\ act'[a].at = 0
    <3>1. ActFits /\ Local(act[a]) /\ act[a].at = 0
      BY DEF Going, Typed
    <3>2. QED BY <2>1, <3>1, WentOn
  <2>7. rest \in Seq(T) /\ act'[a].todo = rest \o DirLast(c)
    BY <1>1, <2>3, <2>6, MoreFirst DEF Going
  <2>8. \A q : q # Walk(c.dst) \o r => Node(tree', q) = Node(tree, q)
    BY <1>3, <2>1, SetIs
  <2>9. Intact(tree', c, old)
    <3>1. PICK w : w = Walk(c.dst) \o r
      OBVIOUS
    <3>2. \A x \in Seq(Names) : Walk(c.src) \o x # w
      BY <1>1, <3>1, ApartBeneath DEF Going
    <3>3. \A q : q # w => Node(tree', q) = Node(tree, q)
      BY <2>8, <3>1
    <3>4. QED BY <3>2, <3>3, IntactKept
  <2>10. ASSUME NEW u \in Seq(Names), IsThere(old, c, u)
         PROVE  Arrived(tree', c, old, u) \/ Waits(c, rest, u)
    <3>1. CASE Arrived(tree, c, old, u)
      <4>1. Node(tree, Walk(c.dst) \o u).kind # "absent"
        BY <2>10, <3>1 DEF Arrived, IsThere
      <4>2. Node(tree, Walk(c.dst) \o r) = Absent
        BY <1>3, <2>1, PlaceOf DEF Going
      <4>3. Walk(c.dst) \o u # Walk(c.dst) \o r
        <5>1. SUFFICES ASSUME Walk(c.dst) \o u = Walk(c.dst) \o r PROVE FALSE
          OBVIOUS
        <5>2. Node(tree, Walk(c.dst) \o u) = Absent
          BY <4>2, <5>1
        <5>3. Absent.kind = "absent"
          BY DEF Absent
        <5>4. QED BY <4>1, <5>2, <5>3
      <4>4. Arrived(tree', c, old, u)
        BY <2>8, <3>1, <4>3 DEF Arrived
      <4>5. QED BY <4>4
    <3>2. CASE Waits(c, Tail(later), u)
      <4>1. Waits(c, rest, u)
        BY <1>1, <2>3, <3>2, WaitsJoins
      <4>2. QED BY <4>1
    <3>3. CASE Leads(c, Head(later), u)
      <4>1. PICK v \in Seq(Names) : Head(later).s = c.src \o v /\ IsPrefix(v, u)
        BY <3>3 DEF Leads
      <4>2. v = r
        BY <1>1, <1>2, <4>1, SameAfter, Places DEF From, Going
      <4>3. CASE u = r
        <5>1. Walk(To(a)) # <<>> /\ Node(tree', Walk(c.dst) \o r) = Dir
          BY <1>3, <2>1, PlaceOf, PathsAre, SetIs DEF Going
        <5>2. Walk(c.src) \o r \in Seq(Names)
          BY <1>1, PlacesBeneath DEF Going
        <5>3. Node(tree, Walk(c.src) \o r) = Dir
          BY <1>3, <2>1, <5>2, NodesOf DEF Going, Kind
        <5>4. Node(old, Walk(c.src) \o r) = Dir
          BY <5>3 DEF Intact, SameBeneath
        <5>5. QED BY <4>3, <5>1, <5>4 DEF Arrived
      <4>4. CASE u # r
        <5>1. \E i \in DOMAIN more : Leads(c, more[i], u)
          BY <1>1, <1>2, <2>1, <2>4, <2>10, <4>1, <4>2, <4>4, EntriesLead DEF Going
        <5>2. Waits(c, more, u)
          BY <2>5, <5>1 DEF Waits
        <5>3. Waits(c, rest, u)
          BY <1>1, <2>3, <5>2, WaitsJoins
        <5>4. QED BY <5>3
      <4>5. QED BY <4>3, <4>4
    <3>4. QED BY <2>10, <3>1, <3>2, <3>3, WaitsSplits
  <2> HIDE DEF rest
  <2>11. Copying(tree', act'[a], old)
    BY <2>6, <2>7, <2>9, <2>10 DEF Copying
  <2>12. QED BY <2>6, <2>11 DEF PhaseAfter, Phase
<1>6. QED BY <1>4, <1>5

LEMMA CopyingEntry ==
  ASSUME NEW a \in Actors, Going(a), Call(a),
         Intact(tree, act[a].call, before[a]), Apart(act[a].call), act[a].call.dst # <<>>,
         NEW later \in Seq(CopyTasks(act[a].call)), later # <<>>,
         act[a].todo = later \o DirLast(act[a].call),
         \A u \in Seq(Names) :
           IsThere(before[a], act[a].call, u) =>
             Arrived(tree, act[a].call, before[a], u) \/ Waits(act[a].call, later, u),
         CopyEntry(a)
  PROVE  PhaseAfter(a)
<1> DEFINE c == act[a].call
           old == before[a]
           T == CopyTasks(act[a].call)
<1>1. /\ Head(later) \in T /\ Tail(later) \in Seq(T) /\ Head(act[a].todo) = Head(later)
      /\ Tail(act[a].todo) = Tail(later) \o DirLast(c) /\ act[a].todo # <<>> /\ Plain(c)
  BY TodoHead, CallIs DEF Going
<1>2. PICK r \in Seq(Names) : From(a) = c.src \o r /\ To(a) = c.dst \o r
  BY <1>1 DEF CopyTasks, From, To
<1>3. /\ From(a) \in Seq(Names) /\ To(a) \in Seq(Names)
      /\ Walk(From(a)) = Walk(c.src) \o r /\ Walk(To(a)) = Walk(c.dst) \o r
  BY <1>1, <1>2, PlacesBeneath, ZenonT(30) DEF Going
<1>4. CASE Fail(a)
  BY <1>4, EndsWell DEF InOnePlace
<1>5. ASSUME NEW more, Goes(a, act[a], more)
      PROVE  act'[a].call = c /\ act'[a].todo = more \o (Tail(later) \o DirLast(c)) /\ act'[a].at = 0
  <2>1. ActFits /\ Local(act[a]) /\ act[a].at = 0
    BY DEF Going, Typed
  <2>2. QED BY <1>1, <1>5, <2>1, WentOn
<1>6. ASSUME NEW u \in Seq(Names), Leads(c, Head(later), u) PROVE IsPrefix(r, u)
  <2>1. PICK v \in Seq(Names) : Head(later).s = c.src \o v /\ IsPrefix(v, u)
    BY <1>6 DEF Leads
  <2>2. v = r
    BY <1>1, <1>2, <2>1, SameAfter, Places DEF From, Going
  <2>3. QED BY <2>1, <2>2
<1>7. CASE Kind(From(a)) = "dir" /\ ~Fail(a)
  <2> DEFINE x == Task("copydir", From(a), To(a))
             rest == <<x>> \o Tail(later)
  <2>1. Goes(a, act[a], <<x>>) /\ UNCHANGED tree
    BY <1>7 DEF CopyEntry
  <2>2. x \in T /\ x.s = c.src \o r
    <3>1. x \in AnyTask
      BY <1>3 DEF Task, AnyTask, AnyDo
    <3>2. QED BY <1>2, <3>1 DEF CopyTasks, Task
  <2> HIDE DEF x
  <2>3. <<x>> \in Seq(T) /\ Len(<<x>>) = 1 /\ <<x>>[1] = x
    BY <2>2, OneIsSeq
  <2>4. rest \in Seq(T) /\ act'[a].todo = rest \o DirLast(c) /\ act'[a].call = c /\ act'[a].at = 0
    BY <1>1, <1>5, <2>1, <2>3, MoreFirst DEF Going
  <2>5. ASSUME NEW u \in Seq(Names), IsThere(old, c, u)
        PROVE  Arrived(tree', c, old, u) \/ Waits(c, rest, u)
    <3>1. CASE Arrived(tree, c, old, u)
      BY <2>1, <3>1
    <3>2. CASE Waits(c, Tail(later), u)
      BY <1>1, <2>3, <3>2, WaitsJoins
    <3>3. CASE Leads(c, Head(later), u)
      <4>1. Leads(c, x, u)
        BY <1>6, <2>2, <3>3 DEF Leads
      <4>2. Waits(c, <<x>>, u)
        BY <2>3, <4>1 DEF Waits
      <4>3. QED BY <1>1, <2>3, <4>2, WaitsJoins
    <3>4. QED BY <2>5, <3>1, <3>2, <3>3, WaitsSplits
  <2>6. Intact(tree', c, old)
    BY <2>1
  <2> HIDE DEF rest
  <2>7. Copying(tree', act'[a], old)
    BY <2>4, <2>5, <2>6 DEF Copying
  <2>8. QED BY <2>4, <2>7 DEF PhaseAfter, Phase
<1>8. CASE Kind(From(a)) # "dir" /\ ~Fail(a)
  <2> DEFINE more == <<On("read", From(a)), On("new", To(a)), On("put", To(a))>>
             rest == Tail(later) \o DirLast(c)
  <2>1. Goes(a, act[a], more) /\ UNCHANGED tree /\ Exists(From(a))
    BY <1>8 DEF CopyEntry
  <2>2. act'[a].call = c /\ act'[a].todo = more \o rest /\ act'[a].at = 0
    <3> HIDE DEF more
    <3>1. QED BY <1>5, <2>1
  <2>3. act'[a].todo = HandRead(c, r, rest)
    <3>1. /\ On("read", From(a)) \in AnyTask /\ On("new", To(a)) \in AnyTask
          /\ On("put", To(a)) \in AnyTask
      BY <1>3 DEF On, Task, AnyTask, AnyDo
    <3>2. rest \in Seq(AnyTask)
      <4>1. Tail(later) \in Seq(AnyTask) /\ DirLast(c) \in Seq(AnyTask)
        BY <1>1, CopyTodo, SeqMonotonic DEF Going
      <4>2. QED BY <4>1, ConcatProperties
    <3> HIDE DEF rest
    <3>3. more \o rest = <<On("read", From(a))>> \o (<<On("new", To(a))>> \o (<<On("put", To(a))>> \o rest))
      <4>1. PICK x \in AnyTask, y \in AnyTask, z \in AnyTask :
              x = On("read", From(a)) /\ y = On("new", To(a)) /\ z = On("put", To(a))
        BY <3>1
      <4>2. PICK s \in Seq(AnyTask) : s = rest
        BY <3>2
      <4>3. Three(x, y, z) \o s = One(x) \o (One(y) \o (One(z) \o s))
        BY ThreeTasks
      <4>4. <<x, y, z>> \o s = <<x>> \o (<<y>> \o (<<z>> \o s))
        BY <4>3 DEF One, Three
      <4>5. QED BY <4>1, <4>2, <4>4
    <3>4. QED BY <1>2, <2>2, <3>3 DEF HandRead, HandNew, HandPut
  <2>4. IsFile(old, c, r)
    <3>1. Node(tree, Walk(c.src) \o r).kind = "file"
      <4>1. Walk(c.src) \o r \in Seq(Names)
        BY <1>1, PlacesBeneath DEF Going
      <4>2. QED BY <1>3, <1>8, <2>1, <4>1, NodesOf DEF Going, Kind, Exists
    <3>2. QED BY <3>1 DEF Intact, SameBeneath, IsFile
  <2>5. ASSUME NEW u \in Seq(Names), IsThere(old, c, u)
        PROVE  u = r \/ Arrived(tree', c, old, u) \/ Waits(c, Tail(later), u)
    <3>1. CASE Arrived(tree, c, old, u)
      BY <2>1, <3>1
    <3>2. CASE Leads(c, Head(later), u)
      BY <1>1, <1>6, <2>4, <2>5, <3>2, OnlyItself DEF Going
    <3>3. QED BY <2>5, <3>1, <3>2, WaitsSplits
  <2>6. Intact(tree', c, old)
    BY <2>1
  <2> HIDE DEF more
  <2>7. InHand(tree', act'[a], old)
    BY <1>1, <2>2, <2>3, <2>4, <2>5, <2>6 DEF InHand
  <2>8. QED BY <2>2, <2>7 DEF PhaseAfter, Phase
<1>9. QED BY <1>4, <1>7, <1>8

LEMMA CopyingStep ==
  ASSUME NEW a \in Actors, Going(a), Call(a), Copying(tree, act[a], before[a])
  PROVE  PhaseAfter(a)
<1> DEFINE c == act[a].call
           old == before[a]
<1>1. Intact(tree, c, old) /\ Apart(c) /\ c.dst # <<>> /\ Plain(c) /\ act[a].todo # <<>>
  BY CallIs DEF Copying, Going
<1>2. PICK later \in Seq(CopyTasks(c)) :
        /\ act[a].todo = later \o DirLast(c)
        /\ \A u \in Seq(Names) : IsThere(old, c, u) => Arrived(tree, c, old, u) \/ Waits(c, later, u)
  BY DEF Copying
<1>3. CASE later = <<>>
  <2>1. act[a].todo = DirLast(c)
    BY <1>1, <1>2, <1>3, CopyTodo, ConcatEmptySeq DEF Going
  <2>2. c.op = "mv" /\ act[a].todo = <<On("rmtree", c.src)>>
    BY <1>1, <2>1 DEF DirLast
  <2>3. Brought(tree, c, old)
    <3>1. \A u : ~Waits(c, later, u)
      <4>1. Len(later) = 0
        BY <1>3
      <4>2. QED BY <4>1 DEF Waits
    <3>2. QED BY <1>1, <1>2, <3>1 DEF Brought
  <2>4. On("rmtree", c.src) \in RemoveTasks(c) /\ On("rmtree", c.src).s = c.src
    <3>1. c.src \in Seq(Names) /\ <<>> \in Seq(Names) /\ c.src \o <<>> = c.src
      BY <1>1, Places, EmptySeq, ConcatEmptySeq DEF Going
    <3>2. On("rmtree", c.src) \in AnyTask
      BY <3>1 DEF On, Task, AnyTask, AnyDo
    <3>3. QED BY <3>1, <3>2 DEF RemoveTasks, On, Task
  <2>5. act[a].todo \in Seq(RemoveTasks(c)) /\ Last(act[a].todo).s = c.src
    <3>1. PICK x \in RemoveTasks(c) : x = On("rmtree", c.src)
      BY <2>4
    <3>2. <<x>> \in Seq(RemoveTasks(c)) /\ Last(<<x>>) = x
      BY OneIsSeq, LastIs, EmptySeq
    <3>3. QED BY <2>2, <2>4, <3>1, <3>2
  <2>6. Removing(tree, act[a], old)
    BY <1>1, <2>2, <2>3, <2>5 DEF Removing
  <2>7. QED BY <2>6, RemovingStep
<1>4. CASE later # <<>>
  <2>1. Head(later) \in CopyTasks(c) /\ Head(act[a].todo) = Head(later)
    BY <1>1, <1>2, <1>4, TodoHead DEF Going
  <2>2. CopyDir(a) \/ CopyEntry(a)
    BY <2>1, CallIs DEF CopyTasks
  <2>3. QED BY <1>1, <1>2, <1>4, <2>2, CopyingTree, CopyingEntry
<1>5. QED BY <1>3, <1>4

LEMMA HandTodo ==
  ASSUME FileOpsAssumption, NEW c, Plain(c), NEW r \in Seq(Names), NEW later \in Seq(CopyTasks(c))
  PROVE  LET rest == later \o DirLast(c) IN
         /\ rest \in Seq(AnyTask)
         /\ Head(HandPut(c, r, rest)) = On("put", c.dst \o r) /\ Tail(HandPut(c, r, rest)) = rest
         /\ Head(HandNew(c, r, rest)) = On("new", c.dst \o r)
         /\ Tail(HandNew(c, r, rest)) = HandPut(c, r, rest)
         /\ Head(HandRead(c, r, rest)) = On("read", c.src \o r)
         /\ Tail(HandRead(c, r, rest)) = HandNew(c, r, rest)
<1> DEFINE rest == later \o DirLast(c)
<1>1. /\ On("put", c.dst \o r) \in AnyTask /\ On("new", c.dst \o r) \in AnyTask
      /\ On("read", c.src \o r) \in AnyTask
  BY PlacesBeneath DEF On, Task, AnyTask, AnyDo
<1>2. rest \in Seq(AnyTask)
  <2>1. later \in Seq(AnyTask) /\ DirLast(c) \in Seq(AnyTask)
    BY CopyTodo, SeqMonotonic
  <2>2. QED BY <2>1, ConcatProperties
<1> HIDE DEF rest
<1>3. /\ HandPut(c, r, rest) \in Seq(AnyTask)
      /\ Head(HandPut(c, r, rest)) = On("put", c.dst \o r) /\ Tail(HandPut(c, r, rest)) = rest
  BY <1>1, <1>2, HeadOfCons DEF HandPut
<1>4. /\ HandNew(c, r, rest) \in Seq(AnyTask)
      /\ Head(HandNew(c, r, rest)) = On("new", c.dst \o r)
      /\ Tail(HandNew(c, r, rest)) = HandPut(c, r, rest)
  BY <1>1, <1>3, HeadOfCons DEF HandNew
<1>5. /\ Head(HandRead(c, r, rest)) = On("read", c.src \o r)
      /\ Tail(HandRead(c, r, rest)) = HandNew(c, r, rest)
  BY <1>1, <1>4, HeadOfCons DEF HandRead
<1>6. QED BY <1>2, <1>3, <1>4, <1>5 DEF rest

LEMMA HandReads ==
  ASSUME NEW a \in Actors, Going(a), Call(a),
         Intact(tree, act[a].call, before[a]), Apart(act[a].call), act[a].call.dst # <<>>,
         NEW later \in Seq(CopyTasks(act[a].call)), NEW r \in Seq(Names),
         IsFile(before[a], act[a].call, r),
         \A u \in Seq(Names) :
           IsThere(before[a], act[a].call, u) =>
             u = r \/ Arrived(tree, act[a].call, before[a], u) \/ Waits(act[a].call, later, u),
         act[a].todo = HandRead(act[a].call, r, later \o DirLast(act[a].call))
  PROVE  PhaseAfter(a)
<1> DEFINE c == act[a].call
           old == before[a]
           rest == later \o DirLast(c)
<1>1. Head(act[a].todo) = On("read", c.src \o r) /\ Tail(act[a].todo) = HandNew(c, r, rest)
  BY HandTodo DEF Going
<1>2. Read(a) /\ From(a) = c.src \o r /\ act[a].todo # <<>>
  <2>1. Head(act[a].todo).do = "read" /\ From(a) = c.src \o r
    <3>1. On("read", c.src \o r).do = "read" /\ On("read", c.src \o r).s = c.src \o r
      BY OnIs
    <3>2. QED BY <1>1, <3>1, Zenon DEF From
  <2>2. QED BY <2>1, CallIs, Zenon
<1>3. CASE Fail(a)
  BY <1>3, EndsWell DEF InOnePlace
<1>4. CASE Goes(a, [act[a] EXCEPT !.buf = Data(c.src \o r)], <<>>) /\ UNCHANGED tree
  <2>1. /\ act'[a].call = c /\ act'[a].todo = <<>> \o HandNew(c, r, rest)
        /\ act'[a].buf = Data(c.src \o r) /\ act'[a].at = 0
    <3>1. ActFits /\ Local(act[a]) /\ act[a].at = 0
      BY DEF Going, Typed
    <3>2. /\ act'[a].call = act[a].call /\ act'[a].todo = <<>> \o Tail(act[a].todo)
          /\ act'[a].buf = Data(c.src \o r) /\ act'[a].at = act[a].at
      BY <1>4, <3>1, WentOn
    <3>3. QED BY <1>1, <3>1, <3>2
  <2>2. act'[a].todo = HandNew(c, r, rest)
    <3>1. HandNew(c, r, rest) \in Seq(TaskOf(act[a]))
      BY <1>1, <1>2, TypedHead DEF Going
    <3>2. QED BY <2>1, <3>1, ConcatEmptySeq
  <2>3. Node(old, Walk(c.src) \o r) = File(Data(c.src \o r))
    <3>1. Walk(c.src) \o r \in Seq(Names) /\ Walk(c.src \o r) = Walk(c.src) \o r
      BY PlacesBeneath DEF Going
    <3>2. Node(tree, Walk(c.src) \o r) = Node(old, Walk(c.src) \o r)
      BY DEF Intact, SameBeneath
    <3>3. Node(tree, Walk(c.src) \o r).kind = "file"
      BY <3>2 DEF IsFile
    <3>4. QED BY <3>1, <3>2, <3>3, NodesOf DEF Going, Data
  <2>4. Intact(tree', c, old) /\ \A u : Arrived(tree', c, old, u) <=> Arrived(tree, c, old, u)
    BY <1>4
  <2> HIDE DEF c, old
  <2>5. InHand(tree', act'[a], old)
    BY <2>1, <2>2, <2>3, <2>4 DEF InHand, c, old
  <2>6. QED BY <2>1, <2>5 DEF PhaseAfter, Phase, old
<1>5. QED BY <1>2, <1>3, <1>4 DEF Read

LEMMA HandMakes ==
  ASSUME NEW a \in Actors, Going(a), Call(a),
         Intact(tree, act[a].call, before[a]), Apart(act[a].call), act[a].call.dst # <<>>,
         NEW later \in Seq(CopyTasks(act[a].call)), NEW r \in Seq(Names),
         IsFile(before[a], act[a].call, r),
         \A u \in Seq(Names) :
           IsThere(before[a], act[a].call, u) =>
             u = r \/ Arrived(tree, act[a].call, before[a], u) \/ Waits(act[a].call, later, u),
         Node(before[a], Walk(act[a].call.src) \o r) = File(act[a].buf),
         act[a].todo = HandNew(act[a].call, r, later \o DirLast(act[a].call))
  PROVE  PhaseAfter(a)
<1> DEFINE c == act[a].call
           old == before[a]
           rest == later \o DirLast(c)
<1>1. Head(act[a].todo) = On("new", c.dst \o r) /\ Tail(act[a].todo) = HandPut(c, r, rest)
  BY HandTodo DEF Going
<1>2. New(a) /\ To(a) = c.dst \o r /\ act[a].todo # <<>>
  <2>1. PICK h, w : h = Head(act[a].todo) /\ w = c.dst \o r
    OBVIOUS
  <2>2. h = On("new", w)
    BY <1>1, <2>1
  <2>3. h.do = "new" /\ h.d = w
    BY <2>2, OnIs, Zenon
  <2>4. Head(act[a].todo).do = "new" /\ To(a) = c.dst \o r
    BY <2>1, <2>3 DEF To
  <2>5. QED BY <2>4, CallIs, Zenon
<1>3. CASE Fail(a)
  BY <1>3, EndsWell DEF InOnePlace
<1>4. CASE CanCreate(c.dst \o r) /\ Set(c.dst \o r, File(<<>>)) /\ Next1(a)
  <2>1. /\ act'[a].call = c /\ act'[a].todo = HandPut(c, r, rest)
        /\ act'[a].buf = act[a].buf /\ act'[a].at = 0
    BY <1>1, <1>2, <1>4, NextOn DEF Going
  <2>2. PICK w : w = Walk(c.dst) \o r
    OBVIOUS
  <2>3. c.dst \o r \in Seq(Names) /\ Walk(c.dst \o r) = w /\ w # <<>>
    <3>1. c.dst \o r \in Seq(Names) /\ Walk(c.dst \o r) = w
      BY <2>2, PlacesBeneath DEF Going
    <3>2. Walk(c.dst \o r) \in Paths
      BY <1>4, <3>1, PlaceOf DEF Going
    <3>3. QED BY <3>1, <3>2, PathsAre
  <2>4. Node(tree', w) = File(<<>>) /\ \A q : q # w => Node(tree', q) = Node(tree, q)
    BY <1>4, <2>3, SetIs
  <2>5. Intact(tree', c, old)
    <3>1. \A x \in Seq(Names) : Walk(c.src) \o x # w
      BY <2>2, ApartBeneath DEF Going
    <3>2. QED BY <2>4, <3>1, IntactKept
  <2>6. ASSUME NEW u \in Seq(Names), IsThere(old, c, u), Arrived(tree, c, old, u)
        PROVE  Arrived(tree', c, old, u)
    <3>1. Node(tree, Walk(c.dst) \o u).kind # "absent"
      BY <2>6 DEF Arrived, IsThere
    <3>2. Node(tree, w).kind = "absent"
      BY <1>4, <2>3 DEF CanCreate, Exists, Kind
    <3>3. Walk(c.dst) \o u # w
      BY <3>1, <3>2
    <3>4. QED BY <2>4, <2>6, <3>3 DEF Arrived
  <2> HIDE DEF c, old
  <2>7. InHand(tree', act'[a], old)
    BY <2>1, <2>2, <2>4, <2>5, <2>6 DEF InHand, c, old
  <2>8. QED BY <2>1, <2>7 DEF PhaseAfter, Phase, old
<1>5. QED BY <1>2, <1>3, <1>4 DEF New

LEMMA HandPuts ==
  ASSUME NEW a \in Actors, Going(a), Call(a),
         Intact(tree, act[a].call, before[a]), Apart(act[a].call), act[a].call.dst # <<>>,
         NEW later \in Seq(CopyTasks(act[a].call)), NEW r \in Seq(Names),
         IsFile(before[a], act[a].call, r),
         \A u \in Seq(Names) :
           IsThere(before[a], act[a].call, u) =>
             u = r \/ Arrived(tree, act[a].call, before[a], u) \/ Waits(act[a].call, later, u),
         Node(before[a], Walk(act[a].call.src) \o r) = File(act[a].buf),
         act[a].todo = HandPut(act[a].call, r, later \o DirLast(act[a].call)),
         Node(tree, Walk(act[a].call.dst) \o r) = File(<<>>)
  PROVE  PhaseAfter(a)
<1> DEFINE c == act[a].call
           old == before[a]
           rest == later \o DirLast(c)
<1>1. Head(act[a].todo) = On("put", c.dst \o r) /\ Tail(act[a].todo) = rest
  BY HandTodo DEF Going
<1>2. Put(a) /\ To(a) = c.dst \o r /\ act[a].todo # <<>>
  <2>1. PICK h, w : h = Head(act[a].todo) /\ w = c.dst \o r
    OBVIOUS
  <2>2. h = On("put", w)
    BY <1>1, <2>1
  <2>3. h.do = "put" /\ h.d = w
    BY <2>2, OnIs, Zenon
  <2>4. Head(act[a].todo).do = "put" /\ To(a) = c.dst \o r
    BY <2>1, <2>3 DEF To
  <2>5. QED BY <2>4, CallIs, Zenon
<1>3. PICK w : w = Walk(c.dst) \o r
  OBVIOUS
<1>4. Walk(c.dst \o r) = w /\ w # <<>>
  <2>1. Walk(c.dst \o r) = w
    BY <1>3, PlacesBeneath DEF Going
  <2>2. Walk(c.dst) \in Seq(Names) /\ Walk(c.dst) # <<>>
    BY Places DEF Going
  <2>3. QED BY <1>3, <2>1, <2>2, ConcatEqualIffEmpty
<1>5. Kind(c.dst \o r) = "file" /\ Data(c.dst \o r) = <<>>
  BY <1>3, <1>4 DEF Kind, Data, File
<1>6. Written(Data(c.dst \o r), act[a].buf, act[a].at) = act[a].buf
  BY <1>5, WrittenWhole DEF Going, Typed
<1>7. Set(c.dst \o r, File(act[a].buf)) /\ Next1(a)
  BY <1>2, <1>5, <1>6 DEF Put
<1>8. Node(tree', w) = File(act[a].buf) /\ \A q : q # w => Node(tree', q) = Node(tree, q)
  BY <1>4, <1>7, SetIs
<1>9. Intact(tree', c, old)
  <2>1. \A x \in Seq(Names) : Walk(c.src) \o x # w
    BY <1>3, ApartBeneath DEF Going
  <2>2. QED BY <1>8, <2>1, IntactKept
<1>10. act'[a].call = c /\ act'[a].todo = rest /\ act'[a].at = 0
  BY <1>1, <1>2, <1>7, NextOn DEF Going
<1>11. ASSUME NEW u \in Seq(Names), IsThere(old, c, u)
       PROVE  Arrived(tree', c, old, u) \/ Waits(c, later, u)
  <2>1. Arrived(tree', c, old, r)
    BY <1>3, <1>8 DEF Arrived
  <2>2. CASE Arrived(tree, c, old, u)
    <3>1. CASE Walk(c.dst) \o u = w
      <4>1. Walk(c.dst) \in Seq(Names)
        BY Places DEF Going
      <4>2. u = r
        BY <1>3, <3>1, <4>1, SameAfter
      <4>3. QED BY <2>1, <4>2
    <3>2. CASE Walk(c.dst) \o u # w
      BY <1>8, <2>2, <3>2 DEF Arrived
    <3>3. QED BY <3>1, <3>2
  <2>3. QED BY <1>11, <2>1, <2>2
<1> HIDE DEF c, old
<1>12. Copying(tree', act'[a], old)
  BY <1>9, <1>10, <1>11 DEF Copying, c, old
<1>13. QED BY <1>10, <1>12 DEF PhaseAfter, Phase, old

LEMMA InHandStep ==
  ASSUME NEW a \in Actors, Going(a), Call(a), InHand(tree, act[a], before[a])
  PROVE  PhaseAfter(a)
<1>1. PICK later \in Seq(CopyTasks(act[a].call)), r \in Seq(Names) :
        /\ IsFile(before[a], act[a].call, r)
        /\ \A u \in Seq(Names) :
             IsThere(before[a], act[a].call, u) =>
               u = r \/ Arrived(tree, act[a].call, before[a], u) \/ Waits(act[a].call, later, u)
        /\ \/ act[a].todo = HandRead(act[a].call, r, later \o DirLast(act[a].call))
           \/ /\ Node(before[a], Walk(act[a].call.src) \o r) = File(act[a].buf)
              /\ \/ act[a].todo = HandNew(act[a].call, r, later \o DirLast(act[a].call))
                 \/ /\ act[a].todo = HandPut(act[a].call, r, later \o DirLast(act[a].call))
                    /\ Node(tree, Walk(act[a].call.dst) \o r) = File(<<>>)
  BY DEF InHand
<1>2. Intact(tree, act[a].call, before[a]) /\ Apart(act[a].call) /\ act[a].call.dst # <<>>
  BY DEF InHand
<1>3. CASE act[a].todo = HandRead(act[a].call, r, later \o DirLast(act[a].call))
  BY <1>1, <1>2, <1>3, HandReads
<1>4. CASE /\ Node(before[a], Walk(act[a].call.src) \o r) = File(act[a].buf)
           /\ act[a].todo = HandNew(act[a].call, r, later \o DirLast(act[a].call))
  BY <1>1, <1>2, <1>4, HandMakes
<1>5. CASE /\ Node(before[a], Walk(act[a].call.src) \o r) = File(act[a].buf)
           /\ act[a].todo = HandPut(act[a].call, r, later \o DirLast(act[a].call))
           /\ Node(tree, Walk(act[a].call.dst) \o r) = File(<<>>)
  BY <1>1, <1>2, <1>5, HandPuts
<1>6. QED BY <1>1, <1>3, <1>4, <1>5

-----------------------------------------------------------------------------
(* A call starts.                                                          *)

LEMMA ResolvedIs ==
  ASSUME FileOpsAssumption, NEW a \in Actors, NEW c \in Calls[a], Plain(Resolved(c))
  PROVE  LET k == Resolved(c) IN
         /\ c.op = k.op /\ c.src = k.src /\ k.op \in {"mv", "cp"}
         /\ c.dst \in Seq(Names) /\ k.dst = IntoDir(k.src, c.dst)
         /\ c.dst # <<>> => k.dst # <<>>
<1> DEFINE k == Resolved(c)
<1>1. c \in [op : Ops, src : Seq(Names), dst : Seq(Names)]
  BY DEF FileOpsAssumption
<1>2. c.op = k.op /\ c.src = k.src
  BY <1>1 DEF Resolved
<1>3. k.op \in {"mv", "cp"}
  BY DEF Plain
<1>4. k.dst = IntoDir(k.src, c.dst)
  BY <1>1, <1>2, <1>3 DEF Resolved
<1>5. ASSUME c.dst # <<>> PROVE k.dst # <<>>
  <2>1. c.dst \in Seq(Names) /\ c.src \in Seq(Names)
    BY <1>1
  <2>2. CASE c.src # <<>> /\ Kind(c.dst) = "dir"
    <3>1. Last(c.src) \in Names
      BY <2>1, <2>2, FrontLast
    <3>2. c.dst \o <<Last(c.src)>> # <<>>
      BY <2>1, <3>1, FrontOfConcat
    <3>3. QED BY <1>2, <1>4, <1>5, <2>2, <3>2 DEF IntoDir
  <2>3. CASE ~(c.src # <<>> /\ Kind(c.dst) = "dir")
    BY <1>2, <1>4, <1>5, <2>3 DEF IntoDir
  <2>4. QED BY <2>2, <2>3
<1>6. QED BY <1>1, <1>2, <1>3, <1>4, <1>5

\* The tasks a copy is made of, as they are written in the scripts.
LEMMA TasksJoin ==
  ASSUME FileOpsAssumption, NEW c, Plain(c)
  PROVE  /\ c.op = "mv" => /\ (<<On("read", c.src)>> \o Overwrite(c.dst)) \o <<On("remove", c.src)>> = ReadThen(c)
                           /\ <<Task("copydir", c.src, c.dst), On("rmtree", c.src)>>
                              = <<Task("copydir", c.src, c.dst)>> \o DirLast(c)
         /\ c.op # "mv" => /\ <<On("read", c.src)>> \o Overwrite(c.dst) = ReadThen(c)
                           /\ <<Task("copydir", c.src, c.dst)>> = <<Task("copydir", c.src, c.dst)>> \o DirLast(c)
<1>1. c.src \in Seq(Names) /\ c.dst \in Seq(Names)
  BY Places
<1>2. PICK r, x, y, z, e, d, g :
        /\ r = On("read", c.src) /\ x = On("create", c.dst) /\ y = On("trunc", c.dst)
        /\ z = On("put", c.dst) /\ e = On("remove", c.src) /\ d = Task("copydir", c.src, c.dst)
        /\ g = On("rmtree", c.src)
  OBVIOUS
<1>3. /\ r \in AnyTask /\ x \in AnyTask /\ y \in AnyTask /\ z \in AnyTask
      /\ e \in AnyTask /\ d \in AnyTask /\ g \in AnyTask
  BY <1>1, <1>2 DEF On, Task, AnyTask, AnyDo
<1>4. /\ One(r) \in Seq(AnyTask) /\ One(e) \in Seq(AnyTask) /\ One(d) \in Seq(AnyTask)
      /\ One(x) \in Seq(AnyTask) /\ One(y) \in Seq(AnyTask) /\ One(z) \in Seq(AnyTask)
      /\ <<>> \in Seq(AnyTask)
  BY <1>3, OneIsSeq, EmptySeq DEF One
<1>5. Overwrite(c.dst) = Three(x, y, z)
  BY <1>2 DEF Overwrite, Three
<1>6. <<d, g>> = One(d) \o One(g)
  <2>1. PICK p, q, t : p = One(d) /\ q = One(g) /\ t = <<d, g>>
    OBVIOUS
  <2>2. /\ p \in Seq(AnyTask) /\ Len(p) = 1 /\ p[1] = d
        /\ q \in Seq(AnyTask) /\ Len(q) = 1 /\ q[1] = g
    BY <1>3, <2>1, OneIsSeq DEF One
  <2>3. t \in Seq(AnyTask) /\ Len(t) = 2 /\ t[1] = d /\ t[2] = g
    BY <1>3, <2>1, TwoAreSeq
  <2>4. /\ p \o q \in Seq(AnyTask) /\ Len(p \o q) = 2
        /\ \A i \in 1 .. 2 : (p \o q)[i] = IF i <= 1 THEN p[i] ELSE q[i - 1]
    BY <2>2, ConcatProperties
  <2>5. \A i \in 1 .. 2 : t[i] = (p \o q)[i]
    BY <2>2, <2>3, <2>4
  <2>6. t = p \o q
    BY <2>3, <2>4, <2>5, SeqEqual
  <2>7. QED BY <2>1, <2>6
<1>7. Three(x, y, z) \in Seq(AnyTask)
  <2>1. Three(x, y, z) = <<x, y, z>>
    BY DEF Three
  <2>2. QED BY <1>3, <2>1
<1>8. PICK f : f = FileLast(c) /\ f \in Seq(AnyTask)
  BY FileTodo
<1>9. ReadThen(c) = One(r) \o (One(x) \o (One(y) \o (One(z) \o f)))
  BY <1>2, <1>8 DEF ReadThen, CreateThen, TruncThen, PutThen, One
<1>10. Three(x, y, z) \o f = One(x) \o (One(y) \o (One(z) \o f))
  <2>1. x \in AnyTask /\ y \in AnyTask /\ z \in AnyTask /\ f \in Seq(AnyTask)
    BY <1>3, <1>8
  <2>2. QED BY <2>1, ThreeTasks, Zenon
<1>11. ReadThen(c) = (One(r) \o Three(x, y, z)) \o FileLast(c)
  <2>1. PICK p, q : p = One(r) /\ q = Three(x, y, z)
    OBVIOUS
  <2>2. p \in Seq(AnyTask) /\ q \in Seq(AnyTask) /\ f \in Seq(AnyTask)
    BY <1>4, <1>7, <1>8, <2>1
  <2>3. p \o (q \o f) = (p \o q) \o f
    BY <2>2, ConcatAssociative, SMTT(60)
  <2>4. QED BY <1>8, <1>9, <1>10, <2>1, <2>3
<1>12. CASE c.op = "mv"
  <2>1. FileLast(c) = <<e>> /\ DirLast(c) = <<g>>
    BY <1>2, <1>12 DEF FileLast, DirLast
  <2>2. (<<r>> \o Overwrite(c.dst)) \o <<e>> = ReadThen(c)
    BY <1>5, <1>11, <2>1 DEF One
  <2>3. <<d, g>> = <<d>> \o DirLast(c)
    BY <1>6, <2>1 DEF One
  <2>4. QED BY <1>2, <1>12, <2>2, <2>3
<1>13. CASE c.op # "mv"
  <2>1. FileLast(c) = <<>> /\ DirLast(c) = <<>>
    BY <1>13 DEF FileLast, DirLast
  <2>2. One(r) \o Three(x, y, z) \in Seq(AnyTask)
    BY <1>4, <1>7, ConcatProperties
  <2>3. (One(r) \o Three(x, y, z)) \o <<>> = One(r) \o Three(x, y, z) /\ One(d) \o <<>> = One(d)
    BY <1>4, <2>2, ConcatEmptySeq
  <2>4. <<r>> \o Overwrite(c.dst) = ReadThen(c)
    BY <1>5, <1>11, <2>1, <2>3 DEF One
  <2>5. <<d>> = <<d>> \o DirLast(c)
    BY <2>1, <2>3 DEF One
  <2>6. QED BY <1>2, <1>13, <2>4, <2>5
<1>14. QED BY <1>12, <1>13

\* What a mv or a cp may set out to do.
LEMMA ScriptIs ==
  ASSUME FileOpsAssumption, WellFormed(tree), NEW a \in Actors, NEW c \in Calls[a], Plain(Resolved(c))
  PROVE  LET k == Resolved(c)
             s == Script(c) IN
         \/ s = Refused
         \/ /\ s = <<Task("rename", k.src, k.dst)>>
            /\ k.op = "mv" /\ k.dst # <<>> /\ Front(k.src) = Front(k.dst)
         \/ /\ s = <<Task("copydir", k.src, k.dst)>> \o DirLast(k)
            /\ k.dst # <<>> /\ Kind(k.src) = "dir" /\ Kind(k.dst) = "absent"
         \/ s = ReadThen(k) /\ k.dst # <<>> /\ Kind(k.src) = "file"
<1> DEFINE k == Resolved(c)
           s == Script(c)
<1>1. /\ c.op = k.op /\ c.src = k.src /\ k.op \in {"mv", "cp"}
      /\ k.dst = IntoDir(k.src, c.dst) /\ (c.dst # <<>> => k.dst # <<>>)
  BY ResolvedIs
<1>2. Kind(k.src) \in {"dir", "file", "absent"}
  BY NodesOf, Places DEF Kind
<1>3. PICK r, d, e, g, o :
        /\ r = On("read", k.src) /\ d = Task("copydir", k.src, k.dst) /\ e = On("remove", k.src)
        /\ g = On("rmtree", k.src) /\ o = Overwrite(k.dst)
  OBVIOUS
<1>4. CASE k.op = "mv"
  <2>1. s = MvScript(k.src, c.dst)
    BY <1>1, <1>4 DEF Script
  <2>2. \/ s = Refused
        \/ s = <<Task("rename", k.src, k.dst)>> /\ Front(k.src) = Front(k.dst) /\ c.dst # <<>>
        \/ s = <<d, g>> /\ Kind(k.src) = "dir" /\ ~Exists(k.dst) /\ c.dst # <<>>
        \/ s = (<<r>> \o o) \o <<e>> /\ Kind(k.src) # "dir" /\ Exists(k.src) /\ c.dst # <<>>
    BY <1>1, <1>3, <2>1, Zenon DEF MvScript
  <2>3. (<<r>> \o o) \o <<e>> = ReadThen(k) /\ <<d, g>> = <<d>> \o DirLast(k)
    BY <1>3, <1>4, TasksJoin
  <2>4. QED BY <1>1, <1>2, <1>3, <1>4, <2>2, <2>3 DEF Exists
<1>5. CASE k.op = "cp"
  <2>1. s = CpScript(k.src, c.dst)
    BY <1>1, <1>5 DEF Script
  <2>2. \/ s = Refused
        \/ s = <<d>> /\ Kind(k.src) = "dir" /\ ~Exists(k.dst) /\ c.dst # <<>>
        \/ s = <<r>> \o o /\ Kind(k.src) # "dir" /\ Exists(k.src) /\ c.dst # <<>>
    BY <1>1, <1>3, <2>1, Zenon DEF CpScript
  <2>3. <<r>> \o o = ReadThen(k) /\ <<d>> = <<d>> \o DirLast(k)
    BY <1>3, <1>5, TasksJoin
  <2>4. QED BY <1>1, <1>2, <1>3, <1>5, <2>2, <2>3 DEF Exists
<1>6. QED BY <1>1, <1>4, <1>5

LEMMA BeginMoves ==
  ASSUME FileOpsAssumption, ActFits, WellFormed(tree), NEW a \in Actors, NEW c \in Calls[a], Begin(a, c),
         Plain(Resolved(c))
  PROVE  act'[a].call = Resolved(c) /\ Phase(tree', act'[a], tree)
<1> DEFINE k == Resolved(c)
           m == [Idle EXCEPT !.call = k, !.todo = Script(c), !.buf = <<a>>]
<1>1. act' = [act EXCEPT ![a] = m] /\ tree' = tree
  BY DEF Begin
<1>2. m.call = k /\ m.todo = Script(c) /\ m.at = 0
  BY DEF Idle
<1> HIDE DEF m
<1>3. act'[a] = m
  BY <1>1 DEF ActFits
<1>4. Intact(tree, k, tree)
  BY DEF Intact, SameBeneath
<1> HIDE DEF k
<1>5. k = Resolved(c) /\ Plain(k)
  BY DEF k
<1>6. SUFFICES Phase(tree, m, tree)
  BY <1>1, <1>2, <1>3, <1>5
<1>7. CASE m.todo = Refused
  BY <1>2, <1>4, <1>7 DEF Phase, Refusing
<1>8. CASE /\ m.todo = <<Task("rename", k.src, k.dst)>>
           /\ k.op = "mv" /\ k.dst # <<>> /\ Front(k.src) = Front(k.dst)
  BY <1>2, <1>4, <1>8 DEF Phase, Renaming
<1>9. CASE m.todo = ReadThen(k) /\ k.dst # <<>> /\ Kind(k.src) = "file"
  BY <1>2, <1>4, <1>9 DEF Phase, Filing, Kind
<1>10. CASE /\ m.todo = <<Task("copydir", k.src, k.dst)>> \o DirLast(k)
            /\ k.dst # <<>> /\ Kind(k.src) = "dir" /\ Kind(k.dst) = "absent"
  <2>1. Apart(k)
    BY <1>5, <1>10, ApartIf DEF Kind
  <2>2. PICK x : x = Task("copydir", k.src, k.dst)
    OBVIOUS
  <2>3. /\ k.src \in Seq(Names) /\ k.dst \in Seq(Names) /\ <<>> \in Seq(Names)
        /\ k.src \o <<>> = k.src /\ k.dst \o <<>> = k.dst
    BY <1>5, Places, EmptySeq, ConcatEmptySeq
  <2>4. x \in CopyTasks(k) /\ x.s = k.src
    BY <2>2, <2>3 DEF CopyTasks, Task, AnyTask, AnyDo
  <2>5. <<x>> \in Seq(CopyTasks(k)) /\ Len(<<x>>) = 1 /\ <<x>>[1] = x
    BY <2>4, OneIsSeq
  <2>6. ASSUME NEW u \in Seq(Names) PROVE Waits(k, <<x>>, u)
    <3>1. IsPrefix(<<>>, u)
      <4>1. <<>> \o u = u
        BY ConcatEmptySeq
      <4>2. QED BY <2>3, <4>1, PrefixOfConcat
    <3>2. Leads(k, x, u)
      BY <2>3, <2>4, <3>1 DEF Leads
    <3>3. QED BY <2>5, <3>2 DEF Waits
  <2> DEFINE later == <<x>>
  <2>7. later \in Seq(CopyTasks(k)) /\ \A u \in Seq(Names) : Waits(k, later, u)
    BY <2>5, <2>6
  <2>8. m.todo = later \o DirLast(k)
    BY <1>10, <2>2
  <2> HIDE DEF later
  <2>9. Copying(tree, m, tree)
    BY <1>2, <1>4, <1>10, <2>1, <2>7, <2>8 DEF Copying
  <2>10. QED BY <1>2, <2>9 DEF Phase
<1>11. QED
  <2>1. \/ m.todo = Refused
        \/ /\ m.todo = <<Task("rename", k.src, k.dst)>>
           /\ k.op = "mv" /\ k.dst # <<>> /\ Front(k.src) = Front(k.dst)
        \/ /\ m.todo = <<Task("copydir", k.src, k.dst)>> \o DirLast(k)
           /\ k.dst # <<>> /\ Kind(k.src) = "dir" /\ Kind(k.dst) = "absent"
        \/ m.todo = ReadThen(k) /\ k.dst # <<>> /\ Kind(k.src) = "file"
    BY <1>2, ScriptIs DEF k
  <2>2. QED BY <1>7, <1>8, <1>9, <1>10, <2>1

-----------------------------------------------------------------------------
(* Every step leaves a mv or a cp in one of its phases.                    *)

LEMMA PhaseSafe ==
  ASSUME NEW t, NEW l, NEW old, Phase(t, l, old)
  PROVE  InOnePlace(t, l.call, old)
BY DEF InOnePlace, Phase, Ended, Refusing, Renaming, Filing, Copying, InHand, Removing

LEMMA OwnCall ==
  ASSUME NEW a \in Actors, Going(a), Call(a), Phase(tree, act[a], before[a])
  PROVE  PhaseAfter(a)
<1>1. ~Ended(tree, act[a], before[a])
  BY CallIs DEF Ended
<1>2. QED
  BY <1>1, RefusingStep, RenamingStep, FilingStep, CopyingStep, InHandStep, RemovingStep DEF Phase

\* What another actor does to the tree elsewhere does not matter.
LEMMA PhaseKept ==
  ASSUME FileOpsAssumption, NEW t, NEW u, NEW l, NEW old, Plain(l.call), Phase(t, l, old),
         SameBeneath(u, Walk(l.call.src), t, Walk(l.call.src)),
         l.call.dst # <<>> => SameBeneath(u, Walk(l.call.dst), t, Walk(l.call.dst))
  PROVE  Phase(u, l, old)
<1> DEFINE c == l.call
<1>1. Intact(t, c, old) => Intact(u, c, old)
  BY DEF Intact, SameBeneath
<1>2. c.dst # <<>> => \A r \in Seq(Names) : Arrived(u, c, old, r) <=> Arrived(t, c, old, r)
  BY DEF Arrived, SameBeneath
<1>3. Brought(t, c, old) => Brought(u, c, old)
  BY <1>2 DEF Brought
<1>4. c.dst # <<>> => Node(u, Walk(c.dst)) = Node(t, Walk(c.dst))
  <2>1. <<>> \in Seq(Names) /\ Walk(c.dst) \o <<>> = Walk(c.dst)
    BY Places, EmptySeq, ConcatEmptySeq
  <2>2. QED BY <2>1 DEF SameBeneath
<1>5. c.dst # <<>> => \A r \in Seq(Names) : Node(u, Walk(c.dst) \o r) = Node(t, Walk(c.dst) \o r)
  BY DEF SameBeneath
<1>6. Ended(t, l, old) => Ended(u, l, old)
  <2>1. Gone(t, c) => Gone(u, c)
    BY DEF Gone, SameBeneath
  <2>2. InOnePlace(t, c, old) => InOnePlace(u, c, old)
    BY <1>1, <1>3 DEF InOnePlace
  <2>3. Transferred(t, c, old) => Transferred(u, c, old)
    BY <1>1, <1>3, <2>1 DEF Transferred
  <2>4. QED BY <2>2, <2>3 DEF Ended
<1>7. Refusing(t, l, old) => Refusing(u, l, old)
  BY <1>1 DEF Refusing
<1>8. Renaming(t, l, old) => Renaming(u, l, old)
  BY <1>1 DEF Renaming
<1>9. Filing(t, l, old) => Filing(u, l, old)
  BY <1>1, <1>4 DEF Filing
<1>10. Copying(t, l, old) => Copying(u, l, old)
  <2> SUFFICES ASSUME Copying(t, l, old) PROVE Copying(u, l, old)
    OBVIOUS
  <2>1. Intact(u, c, old) /\ Apart(c) /\ c.dst # <<>>
    BY <1>1 DEF Copying
  <2>2. PICK later \in Seq(CopyTasks(c)) :
          /\ l.todo = later \o DirLast(c)
          /\ \A v \in Seq(Names) : IsThere(old, c, v) => Arrived(t, c, old, v) \/ Waits(c, later, v)
    BY DEF Copying
  <2>3. \A v \in Seq(Names) : IsThere(old, c, v) => Arrived(u, c, old, v) \/ Waits(c, later, v)
    BY <1>2, <2>1, <2>2
  <2>4. QED BY <2>1, <2>2, <2>3 DEF Copying
<1>11. InHand(t, l, old) => InHand(u, l, old)
  <2> SUFFICES ASSUME InHand(t, l, old) PROVE InHand(u, l, old)
    OBVIOUS
  <2>1. Intact(u, c, old) /\ Apart(c) /\ c.dst # <<>>
    BY <1>1 DEF InHand
  <2>2. PICK later \in Seq(CopyTasks(c)), r \in Seq(Names) :
          /\ IsFile(old, c, r)
          /\ \A v \in Seq(Names) :
               IsThere(old, c, v) => v = r \/ Arrived(t, c, old, v) \/ Waits(c, later, v)
          /\ \/ l.todo = HandRead(c, r, later \o DirLast(c))
             \/ /\ Node(old, Walk(c.src) \o r) = File(l.buf)
                /\ \/ l.todo = HandNew(c, r, later \o DirLast(c))
                   \/ /\ l.todo = HandPut(c, r, later \o DirLast(c))
                      /\ Node(t, Walk(c.dst) \o r) = File(<<>>)
    BY DEF InHand
  <2>3. \A v \in Seq(Names) : IsThere(old, c, v) => v = r \/ Arrived(u, c, old, v) \/ Waits(c, later, v)
    BY <1>2, <2>1, <2>2
  <2>4. Node(u, Walk(c.dst) \o r) = Node(t, Walk(c.dst) \o r)
    BY <1>5, <2>1
  <2>5. QED BY <2>1, <2>2, <2>3, <2>4 DEF InHand
<1>12. Removing(t, l, old) => Removing(u, l, old)
  BY <1>3 DEF Removing
<1>13. QED BY <1>6, <1>7, <1>8, <1>9, <1>10, <1>11, <1>12 DEF Phase

LEMMA OthersKeepPhase ==
  ASSUME FileOpsAssumption, NEW a \in Actors, NEW b \in Actors, b # a, Meddle(b), ~meddled'[a],
         act'[a] = act[a], before'[a] = before[a], Plain(act[a].call),
         Phase(tree, act[a], before[a])
  PROVE  Phase(tree', act'[a], before'[a])
<1> DEFINE c == act[a].call
<1>1. /\ Walk(c.src) \in Seq(Names) /\ Walk(c.src) # <<>> /\ Walk(c.dst) \in Seq(Names)
      /\ c.dst # <<>> => Walk(c.dst) # <<>>
  BY Places
<1>2. SameBeneath(tree', Walk(c.src), tree, Walk(c.src))
  BY <1>1, OthersKeep DEF SameBeneath
<1>3. c.dst # <<>> => SameBeneath(tree', Walk(c.dst), tree, Walk(c.dst))
  BY <1>1, OthersKeep DEF SameBeneath
<1>4. Phase(tree', act[a], before[a])
  BY <1>2, <1>3, PhaseKept
<1>5. QED BY <1>4

\* A call of an actor is its own.
LEMMA OthersStay ==
  ASSUME ActFits, AllTyped, NEW b \in Actors, Step(b), NEW a \in Actors, a # b
  PROVE  act'[a] = act[a] /\ before'[a] = before[a]
<1>1. CASE \E k \in Calls[b] : Begin(b, k)
  BY <1>1 DEF Begin, ActFits, AllTyped
<1>2. ASSUME NEW m, act' = [act EXCEPT ![b] = m] PROVE act'[a] = act[a]
  BY <1>2 DEF ActFits
<1>3. ASSUME NEW local, NEW more, Goes(b, local, more) PROVE act'[a] = act[a]
  BY <1>2, <1>3 DEF Goes
<1>4. Fail(b) => act'[a] = act[a]
  BY <1>2 DEF Fail, ActFits
<1>5. Call(b) => act'[a] = act[a]
  BY <1>3, <1>4, Zenon DEF Call, Refuse, Read, Seek, Create, Trunc, Stat, Put, RemoveEntry, Rename, Mkdir, CopyDir,
     CopyEntry, New, RemoveTree, Find, Ls, Slice, MatFile, MatDir, MatEntry, Run, ClosureFails, Back, Next1
<1>6. QED BY <1>1, <1>4, <1>5 DEF Step, Breaks

LEMMA MovesInit == FileOpsAssumption /\ Init => Moves
<1> SUFFICES ASSUME FileOpsAssumption, Init, NEW a \in Actors PROVE ~Plain(act[a].call)
  BY DEF Moves
<1>1. act[a].call.op = "none"
  BY DEF Init, Idle
<1>2. QED BY <1>1 DEF Plain

LEMMA MovesNext ==
  ASSUME FileOpsAssumption, ActFits, AllTyped, Moves, [Next]_vars
  PROVE  Moves'
<1>1. CASE UNCHANGED vars
  BY <1>1 DEF vars, Moves
<1>2. CASE Next
  <2>1. PICK b \in Actors : Step(b)
    BY <1>2 DEF Next
  <2>2. Meddle(b)
    BY <2>1 DEF Step
  <2>3. SUFFICES ASSUME NEW a \in Actors, Plain(act'[a].call), ~meddled'[a]
                 PROVE  Phase(tree', act'[a], before'[a])
    BY DEF Moves
  <2>4. CASE a # b
    <3>1. act'[a] = act[a] /\ before'[a] = before[a]
      BY <2>1, <2>4, OthersStay
    <3>2. ~meddled[a]
      BY <2>2, <2>3, <2>4 DEF Meddle
    <3>3. Phase(tree, act[a], before[a]) /\ Plain(act[a].call)
      BY <2>3, <3>1, <3>2 DEF Moves
    <3>4. QED BY <2>2, <2>3, <2>4, <3>1, <3>3, OthersKeepPhase
  <2>5. CASE a = b /\ \E c \in Calls[a] : Begin(a, c)
    <3>1. PICK c \in Calls[a] : Begin(a, c)
      BY <2>5
    <3>2. act'[a].call = Resolved(c)
      <4>1. act' = [act EXCEPT ![a] = [Idle EXCEPT !.call = Resolved(c), !.todo = Script(c), !.buf = <<a>>]]
        BY <3>1 DEF Begin
      <4>2. QED BY <4>1 DEF ActFits, Idle
    <3>3. before'[a] = tree
      BY <3>1 DEF Begin, AllTyped
    <3>4. Phase(tree', act'[a], tree)
      BY <2>3, <3>1, <3>2, BeginMoves DEF AllTyped
    <3>5. QED BY <3>3, <3>4
  <2>6. ASSUME a = b, act[a].todo # <<>>, act'[a].call = act[a].call, UNCHANGED before
        PROVE  Going(a) /\ Phase(tree, act[a], before[a])
    <3>1. ~meddled[a]
      BY <2>2, <2>3, <2>6 DEF Meddle
    <3>2. Phase(tree, act[a], before[a])
      BY <2>3, <2>6, <3>1 DEF Moves
    <3>3. QED BY <2>3, <2>6, <3>2 DEF Going, AllTyped, Phase
  <2>7. CASE a = b /\ Call(a) /\ UNCHANGED before
    <3>1. act'[a].call = act[a].call /\ act[a].todo # <<>>
      <4>1. PICK m : Becomes(a, m)
        BY <2>7, CallStays
      <4>2. act'[a].call = act[a].call
        BY <4>1 DEF Becomes, ActFits
      <4>3. QED BY <2>7, <4>2, CallIs
    <3>2. PhaseAfter(a)
      BY <2>6, <2>7, <3>1, OwnCall
    <3>3. QED BY <2>7, <3>2 DEF PhaseAfter
  <2>8. CASE a = b /\ Breaks(a) /\ UNCHANGED before
    <3>1. Fail(a) /\ act[a].todo # <<>>
      BY <2>8 DEF Breaks
    <3>2. act'[a].call = act[a].call
      BY <3>1, FailedIs DEF AllTyped
    <3>3. Going(a) /\ Phase(tree, act[a], before[a])
      BY <2>6, <2>8, <3>1, <3>2
    <3>4. PhaseAfter(a)
      BY <3>1, <3>3, PhaseSafe, EndsWell
    <3>5. QED BY <2>8, <3>4 DEF PhaseAfter
  <2>9. QED BY <2>1, <2>4, <2>5, <2>7, <2>8 DEF Step
<1>3. QED BY <1>1, <1>2

LEMMA MovesLoseNothing == FileOpsAssumption /\ ActFits /\ AllTyped /\ Moves => NothingLost
<1> SUFFICES ASSUME FileOpsAssumption, AllTyped, Moves, NEW a \in Actors,
                    act[a].call.op \in {"mv", "cp"}, ~meddled[a], ~Aliased(a),
                    NEW q \in FilesBelow(a, act[a].call.src)
             PROVE  \/ Node(tree, q) = before[a][q]
                    \/ act[a].call.op = "mv" /\ Node(tree, Image(a, q)) = before[a][q]
  BY DEF NothingLost
<1> DEFINE c == act[a].call
           old == before[a]
           r == Below(q, Walk(c.src))
<1>1. Plain(c)
  BY DEF Aliased, IsWithin, Plain, AllTyped, Typed
<1>2. Intact(tree, c, old) \/ (c.op = "mv" /\ Brought(tree, c, old))
  BY <1>1, PhaseSafe DEF Moves, InOnePlace
<1>3. q \in DOMAIN old /\ IsPrefix(Walk(c.src), q) /\ old[q].kind = "file"
  BY DEF FilesBelow, IsWithin
<1>4. q \in Seq(Names) /\ q # <<>>
  BY <1>3, PathsAre DEF AllTyped, WellFormed
<1>5. Node(old, q) = old[q]
  BY <1>3, <1>4 DEF Node
<1>6. r \in Seq(Names) /\ q = Walk(c.src) \o r
  BY <1>1, <1>3, <1>4, Places, PrefixSplits
<1>7. Image(a, q) = Walk(c.dst) \o r
  BY DEF Image
<1> HIDE DEF r, old, c
<1>8. CASE Intact(tree, c, old)
  BY <1>5, <1>6, <1>8 DEF Intact, SameBeneath, old
<1>9. CASE c.op = "mv" /\ Brought(tree, c, old)
  <2>1. IsThere(old, c, r)
    BY <1>3, <1>5, <1>6 DEF IsThere
  <2>2. Node(tree, Walk(c.dst) \o r) = Node(old, Walk(c.src) \o r)
    BY <1>6, <1>9, <2>1 DEF Brought, Arrived
  <2>3. Node(tree, Image(a, q)) = old[q]
    BY <1>5, <1>6, <1>7, <2>2
  <2>4. QED BY <1>9, <2>3 DEF c, old
<1>10. QED BY <1>2, <1>8, <1>9

\* mv and cp never lose a file of their source, at whichever of their calls they fail
\* and whatever other actors do to the rest of the tree.
THEOREM NothingIsLost == Spec => []NothingLost
<1>1. Init => Moves
  BY MovesInit, FileOpsAssumption
<1>2. ActFits /\ AllTyped /\ Moves /\ [Next]_vars => Moves'
  BY MovesNext, FileOpsAssumption
<1>3. ActFits /\ AllTyped /\ Moves => NothingLost
  BY MovesLoseNothing, FileOpsAssumption
<1>4. QED BY <1>1, <1>2, <1>3, AlwaysTyped, PTL DEF Spec

LEMMA ConsIsNot ==
  ASSUME NEW x \in AnyTask, NEW s \in Seq(AnyTask)
  PROVE  <<x>> \o s # <<>>
BY HeadOfCons, Zenon

LEMMA PhaseDone ==
  ASSUME FileOpsAssumption, NEW t, NEW l, NEW old, Plain(l.call), Phase(t, l, old),
         l.todo = <<>>, l.res = "ok"
  PROVE  Transferred(t, l.call, old)
<1> DEFINE c == l.call
<1>1. CASE Ended(t, l, old)
  BY <1>1 DEF Ended
<1>2. ~Refusing(t, l, old) /\ ~Renaming(t, l, old)
  BY DEF Refusing, Refused, Renaming
<1>3. /\ On("put", c.dst) \in AnyTask /\ On("trunc", c.dst) \in AnyTask
      /\ On("create", c.dst) \in AnyTask /\ On("read", c.src) \in AnyTask
  BY Places DEF On, Task, AnyTask, AnyDo
<1>4. ~Filing(t, l, old)
  <2>1. FileLast(c) \in Seq(AnyTask)
    BY FileTodo
  <2>2. PutThen(c) \in Seq(AnyTask) /\ PutThen(c) # <<>>
    BY <1>3, <2>1, HeadOfCons, ConsIsNot DEF PutThen
  <2>3. TruncThen(c) \in Seq(AnyTask) /\ TruncThen(c) # <<>>
    BY <1>3, <2>2, HeadOfCons, ConsIsNot DEF TruncThen
  <2>4. CreateThen(c) \in Seq(AnyTask) /\ CreateThen(c) # <<>>
    BY <1>3, <2>3, HeadOfCons, ConsIsNot DEF CreateThen
  <2>5. ReadThen(c) # <<>>
    BY <1>3, <2>4, ConsIsNot DEF ReadThen
  <2>6. QED BY <2>2, <2>3, <2>4, <2>5 DEF Filing
<1>5. ASSUME Copying(t, l, old) PROVE Transferred(t, c, old)
  <2>1. PICK later \in Seq(CopyTasks(c)) :
          /\ l.todo = later \o DirLast(c)
          /\ \A u \in Seq(Names) : IsThere(old, c, u) => Arrived(t, c, old, u) \/ Waits(c, later, u)
    BY <1>5 DEF Copying
  <2>2. later \in Seq(AnyTask) /\ DirLast(c) \in Seq(AnyTask)
    BY CopyTodo, SeqMonotonic
  <2>3. later = <<>> /\ DirLast(c) = <<>>
    BY <2>1, <2>2, ConcatEqualIffEmpty
  <2>4. c.op # "mv"
    BY <2>3 DEF DirLast
  <2>5. Len(later) = 0
    BY <2>3
  <2>6. \A u : ~Waits(c, later, u)
    BY <2>5 DEF Waits
  <2>7. Intact(t, c, old) /\ Brought(t, c, old)
    BY <1>5, <2>1, <2>6 DEF Copying, Brought
  <2>8. QED BY <2>4, <2>7 DEF Transferred
<1>6. ~InHand(t, l, old)
  <2> SUFFICES ASSUME InHand(t, l, old) PROVE FALSE
    OBVIOUS
  <2>1. PICK later \in Seq(CopyTasks(c)), r \in Seq(Names) :
          \/ l.todo = HandRead(c, r, later \o DirLast(c))
          \/ l.todo = HandNew(c, r, later \o DirLast(c))
          \/ l.todo = HandPut(c, r, later \o DirLast(c))
    BY DEF InHand
  <2> DEFINE rest == later \o DirLast(c)
  <2>2. rest \in Seq(AnyTask)
    BY HandTodo
  <2> HIDE DEF rest
  <2>3. /\ On("put", c.dst \o r) \in AnyTask /\ On("new", c.dst \o r) \in AnyTask
        /\ On("read", c.src \o r) \in AnyTask
    BY PlacesBeneath DEF On, Task, AnyTask, AnyDo
  <2>4. HandPut(c, r, rest) \in Seq(AnyTask) /\ HandPut(c, r, rest) # <<>>
    BY <2>2, <2>3, HeadOfCons, ConsIsNot DEF HandPut
  <2>5. HandNew(c, r, rest) \in Seq(AnyTask) /\ HandNew(c, r, rest) # <<>>
    BY <2>3, <2>4, HeadOfCons, ConsIsNot DEF HandNew
  <2>6. HandRead(c, r, rest) # <<>>
    BY <2>3, <2>5, ConsIsNot DEF HandRead
  <2>7. QED BY <2>1, <2>4, <2>5, <2>6 DEF rest
<1>7. ~Removing(t, l, old)
  BY DEF Removing
<1>8. QED BY <1>1, <1>2, <1>4, <1>5, <1>6, <1>7 DEF Phase

-----------------------------------------------------------------------------
(* What every call has done when it ends well, and what it has still to do *)
(* until then, of which the rest follows.  As above, t is the tree, l the  *)
(* record of the actor a and old the tree its call found.                  *)

\* The call is one that WholeEffect speaks of.
Clear(c) ==
  /\ c.src \in Seq(Names) /\ c.dst \in Seq(Names)
  /\ ~IsPrefix(Walk(c.src), Walk(c.dst))
  /\ ~Grafted(c.src) /\ ~Grafted(c.dst)
  /\ ~(c.op = "mv" /\ Front(c.src) = Front(c.dst) /\ BindAt \in {c.src, c.dst})

Removals == {"rm", "unsetenv", "rmdir", "rmdir_r"}
Fills    == {"write", "setenv"}
Gets     == {"cat", "getenv"}

\* The node the call names.
Source(t, c) == Node(t, Walk(c.src))

Descendants(old, c) == {c.src \o u : u \in {v \in Seq(Names) : v # <<>> /\ IsThere(old, c, v)}}
Children(old, c)    == {c.src \o <<n>> : n \in {m \in Names : IsThere(old, c, <<m>>)}}

Done(a, t, l, old) ==
  LET c == l.call IN
  /\ c.op \in Removals => Gone(t, c)
  /\ c.op = "mkdir"    => Source(t, c) = Dir
  /\ c.op \in Fills    => Source(t, c) = File(<<a>>)
  /\ c.op = "append"   => Source(t, c) = File(Source(old, c).data \o <<a>>)
  /\ c.op = "cat"      => Source(old, c) = File(l.buf)
  /\ c.op = "getenv"   => Source(old, c).data = l.buf
  /\ c.op = "find"     => l.out = Descendants(old, c)
  /\ c.op = "ls"       => l.out = Children(old, c)
  /\ c.op \in Checks   =>
       \A r \in Seq(Names) :
         IsThere(t, c, r) =>
           Node(t, Walk(c.src) \o r) = IF r \in l.edited THEN File(<<a>>) ELSE Node(old, Walk(c.src) \o r)

\* The last task is about what the call names.
Closing(l, dos) ==
  /\ l.todo \in Seq({x \in AnyTask : x.do \in dos}) /\ l.todo # <<>>
  /\ Last(l.todo).do = "refuse" \/ (Last(l.todo).s = l.call.src /\ Last(l.todo).d = l.call.src)

Emptying == {"refuse", "rmtree", "remove"}
Making   == {"refuse", "mkdir"}

\* A variable is looked for before it is removed.
Seeking(l) == l.call.op = "unsetenv" /\ l.todo = UnsetenvScript(l.call.src)

\* One call looks up what is asked for.
Looking(t, l, old) ==
  LET c == l.call IN
  /\ Intact(t, c, old)
  /\ \/ l.todo = <<On(IF c.op = "ls" THEN "ls" ELSE "read", c.src)>>
     \/ l.todo = Refused /\ c.op # "getenv"

\* The text goes to the beginning of an empty file.
Filling(a, t, l) ==
  LET p == l.call.src IN
  /\ l.buf = <<a>> /\ l.at = 0
  /\ \/ l.todo \in {Refused, WriteScript(p), <<On("trunc", p), On("put", p)>>}
     \/ l.todo = <<On("put", p)>> /\ Source(t, l.call) = File(<<>>)

\* The text goes to the end of what is there.
Appending(a, t, l, old) ==
  LET p == l.call.src
      text == Source(old, l.call).data
  IN /\ l.buf = <<a>>
     /\ \/ l.todo = Refused
        \/ l.todo = AppendScript(p) /\ Intact(t, l.call, old)
        \/ l.todo = <<On("stat", p), On("put", p)>> /\ Source(t, l.call).data = text
        \/ /\ l.todo = <<On("put", p)>>
           /\ Source(t, l.call) = File(text) /\ l.at = Len(text)

\* Every descendant is found, or a directory it is in has still to be listed.
FindTasks(c) == {x \in AnyTask : x.do = "find" /\ \E r \in Seq(Names) : x.s = c.src \o r}

Heads(c, x, u) == \E v \in Seq(Names) : x.s = c.src \o v /\ IsPrefix(v, u) /\ v # u

FoundOrListed(l, old) ==
  LET c == l.call IN
  /\ l.todo \in Seq(FindTasks(c))
  /\ l.out \subseteq Descendants(old, c)
  /\ \A u \in Seq(Names) :
       u # <<>> /\ IsThere(old, c, u) =>
         c.src \o u \in l.out \/ \E i \in 1 .. Len(l.todo) : Heads(c, l.todo[i], u)

Finding(t, l, old) == Intact(t, l.call, old) /\ (l.todo = Refused \/ FoundOrListed(l, old))

\* The copies that were made are of what is there.
Snapped(l, old) == \A r \in DOMAIN l.snap : Node(old, Walk(l.call.src) \o r) = File(l.snap[r])

MatTasks(c) ==
  {x \in AnyTask : /\ x.do \in {"matfile", "matdir", "matent", "run"}
                   /\ \E r \in Seq(Names) : x.s = c.src \o r
                   /\ x.do = "matfile" => x.s = c.src}

CheckingOut(t, l, old) ==
  LET c == l.call IN
  /\ Intact(t, c, old) /\ l.at = 0
  /\ \/ l.todo = Refused
     \/ /\ Snapped(l, old) /\ DOMAIN l.snap \subseteq Seq(Names)
        /\ l.todo \in Seq(MatTasks(c)) /\ l.todo # <<>> /\ Last(l.todo).do = "run"

\* Then each file is written back that was changed, one at a time.
BackTasks(l) ==
  {x \in AnyTask : /\ x.do = "back" /\ x.d = l.call.src \o x.s
                   /\ x.s \in l.edited \/ (x.s \in DOMAIN l.snap /\ l.snap[x.s] = l.scratch[x.s])}

Pending(later, u) == \E i \in 1 .. Len(later) : later[i].s = u
Once(later) == \A i, j \in 1 .. Len(later) : later[i].s = later[j].s => i = j

\* The file r is in hand: w is what has to be done for it.
Writing(t, l, r, w) ==
  LET p == l.call.src \o r IN
  /\ r \in l.edited
  /\ \/ w \in {Overwrite(p), <<On("trunc", p), On("put", p)>>}
     \/ w = <<On("put", p)>> /\ Node(t, Walk(l.call.src) \o r) = File(<<>>)

\* The file u is as its call found it, or as the closure has left it, but for the one in hand.
AsItShould(a, t, l, old, later, u) ==
  Node(t, Walk(l.call.src) \o u) =
    IF u \in l.edited /\ ~Pending(later, u) THEN File(<<a>>) ELSE Node(old, Walk(l.call.src) \o u)

Edited(a, l, old) ==
  /\ Snapped(l, old) /\ DOMAIN l.snap \subseteq Seq(Names) /\ l.edited \subseteq Seq(Names) /\ l.at = 0
  /\ \A r \in l.edited : l.scratch[r] = <<a>>

WritingBack(a, t, l, old) ==
  /\ Edited(a, l, old)
  /\ \E later \in Seq(BackTasks(l)) :
       /\ Once(later)
       /\ \/ /\ l.todo = later
             /\ \A u \in Seq(Names) : AsItShould(a, t, l, old, later, u)
          \/ \E r \in Seq(Names), w \in Seq(AnyTask) :
               /\ l.todo = w \o later /\ Writing(t, l, r, w) /\ ~Pending(later, r) /\ l.buf = <<a>>
               /\ \A u \in Seq(Names) : u = r \/ AsItShould(a, t, l, old, later, u)

Stage(a, t, l, old) ==
  LET c == l.call IN
  /\ l.todo = <<>> /\ l.res = "ok" => Done(a, t, l, old)
  /\ l.todo # <<>> =>
       /\ c.op \in Removals => Closing(l, Emptying) \/ Seeking(l)
       /\ c.op = "mkdir" => Closing(l, Making)
       /\ c.op \in Gets \cup {"ls"} => Looking(t, l, old)
       /\ c.op \in Fills => Filling(a, t, l)
       /\ c.op = "append" => Appending(a, t, l, old)
       /\ c.op = "find" => Finding(t, l, old)
       /\ c.op \in Checks => CheckingOut(t, l, old) \/ WritingBack(a, t, l, old)

Stages ==
  \A a \in Actors :
    Clear(act[a].call) /\ ~meddled[a] /\ act[a].todo # <<>> => Stage(a, tree, act[a], before[a])

\* The kinds of calls are told apart by their names.
LEMMA StageIf ==
  ASSUME NEW a, NEW t, NEW l, NEW old
  PROVE  LET c == l.call
             ends == l.todo = <<>> /\ l.res = "ok" IN
         /\ l.todo = <<>> /\ l.res = "error" => Stage(a, t, l, old)
         /\ (/\ c.op \in Removals
             /\ ends => Gone(t, c)
             /\ l.todo # <<>> => Closing(l, Emptying) \/ Seeking(l)) => Stage(a, t, l, old)
         /\ (/\ c.op = "mkdir"
             /\ ends => Source(t, c) = Dir
             /\ l.todo # <<>> => Closing(l, Making)) => Stage(a, t, l, old)
         /\ (/\ c.op \in Fills
             /\ ends => Source(t, c) = File(<<a>>)
             /\ l.todo # <<>> => Filling(a, t, l)) => Stage(a, t, l, old)
         /\ (/\ c.op = "append"
             /\ ends => Source(t, c) = File(Source(old, c).data \o <<a>>)
             /\ l.todo # <<>> => Appending(a, t, l, old)) => Stage(a, t, l, old)
         /\ (/\ c.op \in Gets
             /\ ends => /\ c.op = "cat" => Source(old, c) = File(l.buf)
                        /\ c.op = "getenv" => Source(old, c).data = l.buf
             /\ l.todo # <<>> => Looking(t, l, old)) => Stage(a, t, l, old)
         /\ (/\ c.op = "find"
             /\ ends => l.out = Descendants(old, c)
             /\ l.todo # <<>> => Finding(t, l, old)) => Stage(a, t, l, old)
         /\ (/\ c.op = "ls"
             /\ ends => l.out = Children(old, c)
             /\ l.todo # <<>> => Looking(t, l, old)) => Stage(a, t, l, old)
         /\ (/\ c.op \in Checks
             /\ ends => Done(a, t, l, old)
             /\ l.todo # <<>> => CheckingOut(t, l, old) \/ WritingBack(a, t, l, old)) => Stage(a, t, l, old)
         /\ c.op \notin Removals \cup Fills \cup Gets \cup Checks \cup {"mkdir", "append", "find", "ls"}
              => Stage(a, t, l, old)
<1>1. l.todo = <<>> /\ l.res = "error" => Stage(a, t, l, old)
  BY DEF Stage
<1>2. QED BY <1>1 DEF Stage, Done, Removals, Fills, Gets, Checks

-----------------------------------------------------------------------------
(* The paths of a call, and one step of it.                                *)

LEMMA Ground ==
  ASSUME FileOpsAssumption, NEW c, Clear(c)
  PROVE  c.src \in Seq(Names) /\ c.src # <<>> /\ Walk(c.src) \in Seq(Names) /\ Walk(c.src) # <<>>
<1> DEFINE k == [op |-> "cp", src |-> c.src, dst |-> c.dst]
<1>1. Plain(k)
  BY DEF Clear, Plain
<1>2. k.src = c.src
  OBVIOUS
<1> HIDE DEF k
<1>3. QED BY <1>1, <1>2, Places

LEMMA GroundBeneath ==
  ASSUME FileOpsAssumption, NEW c, Clear(c), NEW r \in Seq(Names)
  PROVE  /\ c.src \o r \in Seq(Names) /\ c.src \o r # <<>>
         /\ Walk(c.src \o r) = Walk(c.src) \o r
         /\ Walk(c.src) \o r \in Seq(Names) /\ Walk(c.src) \o r # <<>>
<1>1. c.src \in Seq(Names) /\ c.src # <<>> /\ Walk(c.src) \in Seq(Names) /\ Walk(c.src) # <<>>
  BY Ground
<1>2. Walk(c.src \o r) = Walk(c.src) \o r
  BY <1>1, WalkConcat DEF Clear
<1>3. /\ c.src \o r \in Seq(Names) /\ c.src \o r # <<>>
      /\ Walk(c.src) \o r \in Seq(Names) /\ Walk(c.src) \o r # <<>>
  BY <1>1, ConcatProperties, ConcatEqualIffEmpty
<1>4. QED BY <1>2, <1>3

LEMMA ItsSource ==
  ASSUME FileOpsAssumption, NEW c, Clear(c)
  PROVE  /\ <<>> \in Seq(Names) /\ Walk(c.src) \o <<>> = Walk(c.src) /\ c.src \o <<>> = c.src
         /\ \A t, old : Intact(t, c, old) => Source(t, c) = Source(old, c)
<1>1. <<>> \in Seq(Names) /\ Walk(c.src) \o <<>> = Walk(c.src) /\ c.src \o <<>> = c.src
  BY Ground, ConcatEmptySeq, EmptySeq
<1>2. QED BY <1>1 DEF Intact, SameBeneath, Source

\* What is known when a takes a step of a call that WholeEffect speaks of.
Own(a) ==
  /\ ActFits /\ FileOpsAssumption
  /\ Typed(act[a]) /\ WellFormed(tree) /\ WellFormed(before[a])
  /\ Clear(act[a].call)

StageAfter(a) == Stage(a, tree', act'[a], before[a])

LEMMA ErrorStages ==
  ASSUME NEW a \in Actors, Own(a), Fail(a), act[a].call.op # "getenv",
         act[a].call.op \notin {"unsetenv", "envslice"} \/ Head(act[a].todo).do # "seek"
  PROVE  StageAfter(a)
<1>1. act'[a].todo = <<>> /\ act'[a].res = "error"
  BY FailedIs DEF Own, Forgives, At
<1>2. QED BY <1>1, StageIf DEF StageAfter

\* With the same locals, but for one.
LEMMA StepIs ==
  ASSUME NEW a \in Actors, Own(a), act[a].todo # <<>>, NEW more, NEW buf, NEW at, NEW out,
         \/ Goes(a, act[a], more) /\ buf = act[a].buf /\ at = act[a].at /\ out = act[a].out
         \/ Goes(a, [act[a] EXCEPT !.buf = buf], more) /\ at = act[a].at /\ out = act[a].out
         \/ Goes(a, [act[a] EXCEPT !.at = at], more) /\ buf = act[a].buf /\ out = act[a].out
         \/ Goes(a, [act[a] EXCEPT !.out = out], more) /\ buf = act[a].buf /\ at = act[a].at
  PROVE  LET l == act'[a]
             k == act[a] IN
         /\ l.call = k.call /\ l.todo = more \o Tail(k.todo)
         /\ l.buf = buf /\ l.at = at /\ l.out = out
         /\ l.scratch = k.scratch /\ l.snap = k.snap /\ l.edited = k.edited
<1>1. PICK local : /\ Goes(a, local, more)
                   /\ \/ local = act[a] /\ buf = act[a].buf /\ at = act[a].at /\ out = act[a].out
                      \/ local = [act[a] EXCEPT !.buf = buf] /\ at = act[a].at /\ out = act[a].out
                      \/ local = [act[a] EXCEPT !.at = at] /\ buf = act[a].buf /\ out = act[a].out
                      \/ local = [act[a] EXCEPT !.out = out] /\ buf = act[a].buf /\ at = act[a].at
  BY Zenon
<1>2. Local(act[a])
  BY DEF Own, Typed
<1>3. /\ Local(local) /\ local.call = act[a].call
      /\ local.buf = buf /\ local.at = at /\ local.out = out
      /\ local.scratch = act[a].scratch /\ local.snap = act[a].snap /\ local.edited = act[a].edited
  BY <1>1, <1>2 DEF Local, Fields
<1>4. QED BY <1>1, <1>3, RecordAfter DEF Own

\* The next of the tasks.
LEMMA LocalNext ==
  ASSUME NEW a \in Actors, Own(a), act[a].todo # <<>>, NEW local, Local(local), Goes(a, local, <<>>)
  PROVE  LET l == act'[a] IN
         /\ l.call = local.call /\ l.todo = Tail(act[a].todo)
         /\ l.buf = local.buf /\ l.at = local.at /\ l.out = local.out
         /\ l.scratch = local.scratch /\ l.snap = local.snap /\ l.edited = local.edited
<1>1. <<>> \o Tail(act[a].todo) = Tail(act[a].todo)
  BY TypedHead, ConcatEmptySeq DEF Own
<1>2. PICK none : none = <<>> /\ Goes(a, local, none)
  OBVIOUS
<1>3. ActFits /\ Goes(a, local, none)
  BY <1>2 DEF Own
<1>4. LET l == act'[a] IN
      /\ l.call = local.call /\ l.todo = none \o Tail(act[a].todo)
      /\ l.buf = local.buf /\ l.at = local.at /\ l.out = local.out
      /\ l.scratch = local.scratch /\ l.snap = local.snap /\ l.edited = local.edited
  BY <1>3, RecordAfter
<1>5. QED BY <1>1, <1>2, <1>4

LEMMA NextIs ==
  ASSUME NEW a \in Actors, Own(a), act[a].todo # <<>>, Next1(a)
  PROVE  LET l == act'[a]
             k == act[a] IN
         /\ l.call = k.call /\ l.todo = Tail(k.todo)
         /\ l.buf = k.buf /\ l.at = k.at /\ l.out = k.out
         /\ l.scratch = k.scratch /\ l.snap = k.snap /\ l.edited = k.edited
<1>1. PICK local : local = act[a] /\ Goes(a, local, <<>>)
  BY DEF Next1
<1>2. Local(local)
  BY <1>1 DEF Own, Typed
<1>3. QED BY <1>1, <1>2, LocalNext

-----------------------------------------------------------------------------
(* Calls that remove or make what they name.                               *)

LEMMA ClosingNext ==
  ASSUME NEW l, NEW dos, Closing(l, dos), NEW m, m.call = l.call, m.todo = Tail(l.todo)
  PROVE  /\ Head(l.todo) \in AnyTask /\ Head(l.todo).do \in dos
         /\ m.todo # <<>> => Closing(m, dos)
         /\ m.todo = <<>> /\ Head(l.todo).do # "refuse" =>
              Head(l.todo).s = l.call.src /\ Head(l.todo).d = l.call.src
<1> DEFINE R == {x \in AnyTask : x.do \in dos}
<1>1. PICK todo \in Seq(R) : todo = l.todo /\ todo # <<>>
  BY DEF Closing
<1>2. /\ Head(todo) \in R /\ Tail(todo) \in Seq(R)
      /\ Tail(todo) # <<>> => Last(Tail(todo)) = Last(todo)
      /\ Tail(todo) = <<>> => Last(todo) = Head(todo)
  <2> HIDE DEF R
  <2>1. QED BY <1>1, LastOfTail
<1>3. Last(todo).do = "refuse" \/ (Last(todo).s = l.call.src /\ Last(todo).d = l.call.src)
  BY <1>1 DEF Closing
<1>4. QED BY <1>1, <1>2, <1>3 DEF Closing

LEMMA ClosingMore ==
  ASSUME NEW l, NEW dos, Closing(l, dos), NEW m, m.call = l.call,
         NEW more \in Seq({x \in AnyTask : x.do \in dos}), more # <<>>,
         m.todo = more \o Tail(l.todo), Last(more).s = Head(l.todo).s, Last(more).d = Head(l.todo).s,
         Head(l.todo).do # "refuse"
  PROVE  m.todo # <<>> /\ Closing(m, dos)
<1> DEFINE R == {x \in AnyTask : x.do \in dos}
<1>1. PICK todo \in Seq(R) : todo = l.todo /\ todo # <<>>
  BY DEF Closing
<1>2. PICK new \in Seq(R) : new = more
  OBVIOUS
<1>3. PICK rest : /\ rest = m.todo /\ rest \in Seq(R)
                  /\ Tail(todo) # <<>> => rest # <<>> /\ Last(rest) = Last(todo)
                  /\ Tail(todo) = <<>> => rest = more /\ Last(todo) = Head(todo)
  <2> HIDE DEF R
  <2>1. todo # <<>>
    BY <1>1
  <2>2. /\ new \o Tail(todo) \in Seq(R)
        /\ Tail(todo) # <<>> => new \o Tail(todo) # <<>> /\ Last(new \o Tail(todo)) = Last(todo)
        /\ Tail(todo) = <<>> => new \o Tail(todo) = new /\ Last(todo) = Head(todo)
    BY <2>1, LastOfRest, Zenon
  <2>3. QED BY <1>1, <1>2, <2>2
<1>4. Last(todo).do = "refuse" \/ (Last(todo).s = l.call.src /\ Last(todo).d = l.call.src)
  BY <1>1 DEF Closing
<1>5. QED BY <1>1, <1>3, <1>4 DEF Closing

LEMMA OneCloses ==
  ASSUME NEW l, NEW dos, NEW do \in dos \cap AnyDo, l.call.src \in Seq(Names),
         l.todo = <<On(do, l.call.src)>>
  PROVE  Closing(l, dos)
<1>1. PICK x : x = On(do, l.call.src) /\ x \in {y \in AnyTask : y.do \in dos}
  BY DEF On, Task, AnyTask
<1>2. <<x>> \in Seq({y \in AnyTask : y.do \in dos}) /\ <<x>> # <<>> /\ Last(<<x>>) = x
  BY <1>1, OneIsSeq, LastIs, EmptySeq
<1>3. x.s = l.call.src /\ x.d = l.call.src
  BY <1>1, OnIs
<1>4. QED BY <1>1, <1>2, <1>3 DEF Closing

LEMMA SeekingStep ==
  ASSUME NEW a \in Actors, Own(a), Call(a), Seeking(act[a])
  PROVE  StageAfter(a)
<1> DEFINE c == act[a].call
<1>1. /\ act[a].todo # <<>> /\ Clear(c) /\ c.src \in Seq(Names) /\ Walk(c.src) \in Seq(Names)
      /\ c.op \in Removals
  BY CallIs, Ground DEF Own, Seeking, Removals
<1>2. Head(act[a].todo) = On("seek", c.src) /\ Tail(act[a].todo) = <<On("remove", c.src)>>
  BY DEF Seeking, UnsetenvScript
<1>3. Seek(a) /\ From(a) = c.src
  BY <1>2, CallIs, OnIs DEF From
<1>4. CASE Exists(c.src) /\ Next1(a)
  <2>1. act'[a].call = c /\ act'[a].todo = <<On("remove", c.src)>>
    BY <1>1, <1>2, <1>4, NextIs
  <2>2. "remove" \in Emptying \cap AnyDo
    BY DEF Emptying, AnyDo
  <2>3. Closing(act'[a], Emptying)
    BY <1>1, <2>1, <2>2, OneCloses
  <2>4. act'[a].todo # <<>>
    BY <2>3 DEF Closing
  <2>5. QED BY <1>1, <2>1, <2>3, <2>4, StageIf DEF StageAfter
<1>5. CASE ~Exists(c.src) /\ Fail(a)
  <2>1. act'[a].call = c /\ act'[a].todo = <<>> /\ tree' = tree
    BY <1>5, FailedIs DEF Own
  <2>2. ASSUME NEW r \in Seq(Names) PROVE Node(tree, Walk(c.src) \o r) = Absent
    <3>1. Node(tree, Walk(c.src)).kind = "absent"
      BY <1>5 DEF Exists, Kind
    <3>2. r # <<>> => Node(tree, Walk(c.src) \o r).kind = "absent"
      BY <1>1, <3>1, Ancestors DEF Own
    <3>3. r = <<>> => Walk(c.src) \o r = Walk(c.src)
      BY <1>1, ConcatEmptySeq
    <3>4. Node(tree, Walk(c.src) \o r).kind = "absent"
      BY <3>1, <3>2, <3>3
    <3>5. Walk(c.src) \o r \in Seq(Names)
      BY <1>1, ConcatProperties
    <3>6. PICK q : q = Walk(c.src) \o r
      OBVIOUS
    <3>7. Node(tree, q).kind = "absent" /\ q \in Seq(Names)
      BY <3>4, <3>5, <3>6
    <3>8. q # <<>> /\ q \notin DOMAIN tree
      BY <3>7, NodesOf DEF Own
    <3>9. QED BY <3>6, <3>8 DEF Node
  <2>3. Gone(tree', c)
    BY <2>1, <2>2 DEF Gone
  <2>4. QED BY <1>1, <2>1, <2>3, StageIf DEF StageAfter
<1>6. QED BY <1>3, <1>4, <1>5 DEF Seek

LEMMA RemovalStep ==
  ASSUME NEW a \in Actors, Own(a), Call(a), act[a].call.op \in Removals, Closing(act[a], Emptying)
  PROVE  StageAfter(a)
<1> DEFINE c == act[a].call
           R == {x \in AnyTask : x.do \in Emptying}
<1>1. act[a].todo # <<>> /\ From(a) \in Seq(Names) /\ Clear(c)
  BY CallIs, TypedHead DEF Own, From
<1>2. Head(act[a].todo).do \in Emptying
  <2>1. PICK m : m = [act[a] EXCEPT !.todo = Tail(act[a].todo)]
    OBVIOUS
  <2>2. m.call = act[a].call /\ m.todo = Tail(act[a].todo)
    BY <2>1 DEF Own, Typed, Local, Fields
  <2>3. QED BY <2>2, ClosingNext
<1>3. CASE Fail(a)
  BY <1>2, <1>3, ErrorStages DEF Emptying, Removals
<1>4. CASE /\ Kind(From(a)) = "file" \/ (Kind(From(a)) = "dir" /\ EmptyAt(Walk(From(a))))
           /\ Unset(From(a)) /\ Next1(a) /\ Head(act[a].todo).do # "refuse"
  <2>1. act'[a].call = c /\ act'[a].todo = Tail(act[a].todo)
    BY <1>1, <1>4, NextIs
  <2>2. /\ act'[a].todo # <<>> => Closing(act'[a], Emptying)
        /\ act'[a].todo = <<>> => From(a) = c.src
    BY <1>4, <2>1, ClosingNext DEF From
  <2>3. act'[a].todo = <<>> => Gone(tree', c)
    <3>1. SUFFICES ASSUME From(a) = c.src PROVE Gone(tree', c)
      BY <2>2
    <3>2. c.src \in Seq(Names) /\ c.src # <<>>
      BY <1>1, Ground DEF Own
    <3>3. QED BY <1>4, <3>1, <3>2, RemovedIs DEF Gone, Own
  <2>4. QED BY <2>1, <2>2, <2>3, StageIf DEF StageAfter
<1>5. CASE RemoveTree(a) /\ ~Fail(a)
  <2> DEFINE S == {n \in Names : Exists(From(a) \o <<n>>)}
             names == SetToSeq(S)
             Each(n) == LET p == From(a) \o <<n>> IN On(IF Kind(p) = "dir" THEN "rmtree" ELSE "remove", p)
             f == [i \in DOMAIN names |-> Each(names[i])]
             more == f \o <<On("remove", From(a))>>
  <2>1. Goes(a, act[a], more) /\ UNCHANGED tree /\ Head(act[a].todo).do = "rmtree"
    BY <1>5 DEF RemoveTree, Entries, At
  <2>2. ASSUME NEW w \in Seq(Names), NEW do \in {"rmtree", "remove"} PROVE On(do, w) \in R
    BY DEF Emptying, On, Task, AnyTask, AnyDo
  <2>3. \A n \in Names : Each(n) \in R
    <3> TAKE n \in Names
    <3>1. From(a) \o <<n>> \in Seq(Names)
      BY <1>1, EntryPath
    <3>2. /\ On("rmtree", From(a) \o <<n>>) \in R
          /\ On("remove", From(a) \o <<n>>) \in R
      BY <2>2, <3>1
    <3>3. QED BY <3>2
  <2>4. f \in Seq(R)
    <3>1. f = [i \in DOMAIN names |-> f[i]] /\ \A i \in DOMAIN names : names[i] \in S => f[i] \in R
      BY <2>3
    <3>2. S \in SUBSET Names
      OBVIOUS
    <3> HIDE DEF f, R, S
    <3>3. QED BY <3>1, <3>2, EachName DEF Own
  <2>5. On("remove", From(a)) \in R /\ On("remove", From(a)).s = From(a) /\ On("remove", From(a)).d = From(a)
    BY <1>1, <2>2 DEF On, Task
  <2> HIDE DEF f
  <2>6. more \in Seq(R) /\ more # <<>> /\ Last(more).s = From(a) /\ Last(more).d = From(a)
    BY <2>4, <2>5, LastIs
  <2> HIDE DEF more
  <2>7. act'[a].call = c /\ act'[a].todo = more \o Tail(act[a].todo)
    <3>1. ActFits /\ Local(act[a])
      BY DEF Own, Typed
    <3>2. QED BY <2>1, <3>1, WentOn
  <2>8. act'[a].todo # <<>> /\ Closing(act'[a], Emptying)
    BY <2>1, <2>6, <2>7, ClosingMore DEF From
  <2>9. QED BY <2>7, <2>8, StageIf DEF StageAfter
<1>6. Refuse(a) \/ RemoveEntry(a) \/ RemoveTree(a)
  BY <1>2, CallIs DEF Emptying
<1>7. Refuse(a) => Fail(a)
  BY DEF Refuse
<1>8. QED BY <1>3, <1>4, <1>5, <1>6, <1>7 DEF RemoveEntry, At

LEMMA MakingStep ==
  ASSUME NEW a \in Actors, Own(a), Call(a), act[a].call.op = "mkdir", Closing(act[a], Making)
  PROVE  StageAfter(a)
<1> DEFINE c == act[a].call
<1>1. act[a].todo # <<>> /\ To(a) \in Seq(Names) /\ Clear(c)
  BY CallIs, TypedHead DEF Own, To
<1>2. Head(act[a].todo).do \in Making
  <2>1. PICK m : m = [act[a] EXCEPT !.todo = Tail(act[a].todo)]
    OBVIOUS
  <2>2. m.call = act[a].call /\ m.todo = Tail(act[a].todo)
    BY <2>1 DEF Own, Typed, Local, Fields
  <2>3. QED BY <2>2, ClosingNext
<1>3. CASE Fail(a)
  BY <1>3, ErrorStages
<1>4. CASE /\ (Kind(To(a)) = "dir" /\ UNCHANGED tree) \/ Set(To(a), Dir)
           /\ Next1(a) /\ Head(act[a].todo).do # "refuse"
  <2>1. act'[a].call = c /\ act'[a].todo = Tail(act[a].todo)
    BY <1>1, <1>4, NextIs
  <2>2. /\ act'[a].todo # <<>> => Closing(act'[a], Making)
        /\ act'[a].todo = <<>> => To(a) = c.src
    BY <1>4, <2>1, ClosingNext DEF To
  <2>3. act'[a].todo = <<>> => Source(tree', c) = Dir
    <3>1. SUFFICES ASSUME To(a) = c.src PROVE Node(tree', Walk(c.src)) = Dir
      BY <2>2 DEF Source
    <3>2. Walk(c.src) \in Seq(Names) /\ Walk(c.src) # <<>>
      BY <1>1, Ground DEF Own
    <3>3. CASE Set(c.src, Dir)
      BY <3>2, <3>3, SetIs
    <3>4. CASE Kind(c.src) = "dir" /\ UNCHANGED tree
      BY <3>2, <3>4, NodesOf DEF Kind, Own
    <3>5. QED BY <1>4, <3>1, <3>3, <3>4
  <2>4. QED BY <2>1, <2>2, <2>3, StageIf DEF StageAfter
<1>5. Refuse(a) \/ Mkdir(a)
  BY <1>2, CallIs DEF Making
<1>6. Refuse(a) => Fail(a)
  BY DEF Refuse
<1>7. QED BY <1>3, <1>4, <1>5, <1>6 DEF Mkdir, At

-----------------------------------------------------------------------------
(* One look.                                                               *)

LEMMA LookingStep ==
  ASSUME NEW a \in Actors, Own(a), Call(a), act[a].call.op \in Gets \cup {"ls"},
         Looking(tree, act[a], before[a])
  PROVE  StageAfter(a)
<1> DEFINE c == act[a].call
           old == before[a]
<1>1. /\ act[a].todo # <<>> /\ Clear(c) /\ Intact(tree, c, old)
      /\ c.src \in Seq(Names) /\ Walk(c.src) \in Seq(Names)
  BY CallIs, Ground DEF Own, Looking
<1>2. CASE Fail(a) /\ c.op # "getenv"
  <2>1. c.op \notin {"unsetenv", "envslice"}
    BY DEF Gets
  <2>2. QED BY <1>2, <2>1, ErrorStages
<1>3. CASE act[a].todo = Refused /\ c.op # "getenv"
  <2>1. Head(act[a].todo).do = "refuse"
    BY <1>3 DEF Refused, Task
  <2>2. Fail(a)
    BY <2>1, CallIs DEF Refuse
  <2>3. QED BY <1>2, <1>3, <2>2
<1>4. CASE act[a].todo = <<On("read", c.src)>> /\ c.op \in Gets /\ Kind(c.src) = "file"
  <2>1. Head(act[a].todo) = On("read", c.src) /\ Tail(act[a].todo) = <<>>
    BY <1>4
  <2>2. Read(a) /\ From(a) = c.src
    BY <2>1, CallIs, OnIs DEF From
  <2>3. PICK text : /\ text = Data(c.src) /\ Kind(c.src) = "file" /\ UNCHANGED tree
                    /\ Goes(a, [act[a] EXCEPT !.buf = text], <<>>)
    BY <1>4, <2>2 DEF Read
  <2>4. act'[a].call = c /\ act'[a].buf = text /\ act'[a].todo = <<>>
    <3>1. PICK local : local = [act[a] EXCEPT !.buf = text] /\ Goes(a, local, <<>>)
      BY <2>3
    <3>2. Local(local) /\ local.call = c /\ local.buf = text
      BY <3>1 DEF Own, Typed, Local, Fields
    <3>3. QED BY <1>1, <2>1, <3>1, <3>2, LocalNext
  <2>5. Source(old, c) = File(text)
    <3>1. Source(tree, c) = File(text)
      BY <1>1, <2>3, NodesOf DEF Own, Source, Kind, Data
    <3>2. QED BY <1>1, <3>1, ItsSource DEF Own
  <2>6. Source(old, c).data = text
    BY <2>5 DEF File
  <2>7. QED BY <1>4, <2>4, <2>5, <2>6, StageIf DEF StageAfter
<1>8. CASE act[a].todo = <<On("read", c.src)>> /\ c.op = "getenv" /\ Kind(c.src) # "file"
  <2>1. Head(act[a].todo) = On("read", c.src)
    BY <1>8
  <2>2. Fail(a)
    <3>1. Read(a) /\ From(a) = c.src
      BY <2>1, CallIs, OnIs DEF From
    <3>2. QED BY <1>8, <3>1 DEF Read
  <2>3. act'[a].call = c /\ act'[a].todo = <<>> /\ act'[a].buf = <<>>
    BY <2>2, FailedIs DEF Own
  <2>4. Source(tree, c).data = <<>>
    <3>1. Source(tree, c) \in {Dir, Absent} \/ Source(tree, c) = File(Source(tree, c).data)
      BY <1>1, NodesOf DEF Own, Source
    <3>2. Source(tree, c).kind # "file"
      BY <1>8 DEF Source, Kind
    <3>3. Source(tree, c) \in {Dir, Absent}
      BY <3>1, <3>2 DEF File
    <3>4. QED BY <3>3 DEF Dir, Absent
  <2>5. Source(old, c).data = <<>>
    BY <1>1, <2>4, ItsSource DEF Own
  <2>6. c.op \in Gets /\ c.op # "cat"
    BY <1>8 DEF Gets
  <2>7. QED BY <2>3, <2>5, <2>6, StageIf DEF StageAfter
<1>9. CASE act[a].todo = <<On("read", c.src)>> /\ c.op = "cat" /\ Kind(c.src) # "file"
  <2>1. Head(act[a].todo) = On("read", c.src)
    BY <1>9
  <2>2. Fail(a)
    <3>1. Read(a) /\ From(a) = c.src
      BY <2>1, CallIs, OnIs DEF From
    <3>2. QED BY <1>9, <3>1 DEF Read
  <2>3. QED BY <1>2, <1>9, <2>2
<1>5. CASE act[a].todo = <<On("ls", c.src)>> /\ c.op = "ls" /\ ~Fail(a)
  <2>1. Head(act[a].todo) = On("ls", c.src) /\ Tail(act[a].todo) = <<>>
    BY <1>5
  <2>2. Ls(a) /\ From(a) = c.src
    BY <2>1, CallIs, OnIs DEF From
  <2>3. PICK out : /\ out = {c.src \o <<n>> : n \in ToSet(Entries(c.src))} /\ UNCHANGED tree
                   /\ Goes(a, [act[a] EXCEPT !.out = out], <<>>)
    BY <1>5, <2>2 DEF Ls
  <2>4. act'[a].call = c /\ act'[a].out = out /\ act'[a].todo = <<>>
    <3>1. PICK local : local = [act[a] EXCEPT !.out = out] /\ Goes(a, local, <<>>)
      BY <2>3
    <3>2. Local(local) /\ local.call = c /\ local.out = out
      BY <3>1 DEF Own, Typed, Local, Fields
    <3>3. QED BY <1>1, <2>1, <3>1, <3>2, LocalNext
  <2>5. ToSet(Entries(c.src)) = {n \in Names : IsThere(old, c, <<n>>)}
    <3>1. \A n \in Names : Exists(c.src \o <<n>>) <=> IsThere(old, c, <<n>>)
      <4> TAKE n \in Names
      <4>1. <<n>> \in Seq(Names)
        BY OneIsSeq
      <4>2. PICK r \in Seq(Names) : r = <<n>>
        BY <4>1
      <4>3. Exists(c.src \o r) <=> IsThere(old, c, r)
        <5>1. Walk(c.src \o r) = Walk(c.src) \o r
          BY <1>1, GroundBeneath DEF Own
        <5>2. Node(tree, Walk(c.src) \o r) = Node(old, Walk(c.src) \o r)
          BY <1>1 DEF Intact, SameBeneath
        <5>3. QED BY <5>1, <5>2 DEF Exists, Kind, IsThere
      <4>4. QED BY <4>2, <4>3
    <3> DEFINE S == {n \in Names : Exists(c.src \o <<n>>)}
    <3>2. S = {n \in Names : IsThere(old, c, <<n>>)}
      BY <3>1
    <3>3. S \in SUBSET Names /\ Entries(c.src) = SetToSeq(S)
      BY DEF Entries
    <3> HIDE DEF S
    <3>4. SetToSeq(S) \in Seq(S)
      BY <3>3, NamesAreSeq DEF Own
    <3>5. \A n \in S : \E i \in DOMAIN SetToSeq(S) : SetToSeq(S)[i] = n
      BY <3>3, AllAreListed DEF Own
    <3>6. ToSet(SetToSeq(S)) = S
      BY <3>4, <3>5 DEF ToSet
    <3>7. QED BY <3>2, <3>3, <3>6
  <2>6. out = Children(old, c)
    BY <2>3, <2>5 DEF Children
  <2>7. QED BY <1>5, <2>4, <2>6, StageIf DEF StageAfter
<1>6. "ls" \notin Gets /\ "getenv" # "ls" /\ (c.op \in Gets => c.op \in {"cat", "getenv"})
  BY DEF Gets
<1>7. QED BY <1>2, <1>3, <1>4, <1>5, <1>6, <1>8, <1>9 DEF Looking

-----------------------------------------------------------------------------
(* A file is written.                                                      *)

LEMMA ShortTail ==
  ASSUME NEW x, NEW y, NEW z
  PROVE  /\ Head(<<x>>) = x /\ Tail(<<x>>) = <<>>
         /\ Head(<<x, y>>) = x /\ Tail(<<x, y>>) = <<y>>
         /\ Head(<<x, y, z>>) = x /\ Tail(<<x, y, z>>) = <<y, z>>
OBVIOUS

\* A script of one call after another at p.
LEMMA ScriptAt ==
  ASSUME NEW p
  PROVE  /\ Head(<<On("put", p)>>) = On("put", p) /\ Tail(<<On("put", p)>>) = <<>>
         /\ Head(<<On("trunc", p), On("put", p)>>) = On("trunc", p)
         /\ Tail(<<On("trunc", p), On("put", p)>>) = <<On("put", p)>>
         /\ Head(<<On("stat", p), On("put", p)>>) = On("stat", p)
         /\ Tail(<<On("stat", p), On("put", p)>>) = <<On("put", p)>>
         /\ Head(Overwrite(p)) = On("create", p)
         /\ Tail(Overwrite(p)) = <<On("trunc", p), On("put", p)>>
         /\ p # <<>> => /\ WriteScript(p) = Overwrite(p)
                        /\ Head(AppendScript(p)) = On("create", p)
                        /\ Tail(AppendScript(p)) = <<On("stat", p), On("put", p)>>
<1>1. PICK x, y, z, v : x = On("create", p) /\ y = On("trunc", p) /\ z = On("put", p) /\ v = On("stat", p)
  OBVIOUS
<1>2. Overwrite(p) = <<x, y, z>> /\ (p # <<>> => WriteScript(p) = <<x, y, z>> /\ AppendScript(p) = <<x, v, z>>)
  BY <1>1 DEF Overwrite, WriteScript, AppendScript
<1>3. /\ Head(<<z>>) = z /\ Tail(<<z>>) = <<>>
      /\ Head(<<y, z>>) = y /\ Tail(<<y, z>>) = <<z>>
      /\ Head(<<v, z>>) = v /\ Tail(<<v, z>>) = <<z>>
      /\ Head(<<x, y, z>>) = x /\ Tail(<<x, y, z>>) = <<y, z>>
      /\ Head(<<x, v, z>>) = x /\ Tail(<<x, v, z>>) = <<v, z>>
  OBVIOUS
<1>4. /\ Head(Overwrite(p)) = x /\ Tail(Overwrite(p)) = <<y, z>>
      /\ p # <<>> => /\ WriteScript(p) = Overwrite(p)
                     /\ Head(AppendScript(p)) = x /\ Tail(AppendScript(p)) = <<v, z>>
  BY <1>2, <1>3, Zenon
<1>5. QED BY <1>1, <1>3, <1>4, Zenon

\* What a step makes of the tree at the real path w.
Becoming(w, node) == Node(tree', w) = node /\ \A q : q # w => Node(tree', q) = Node(tree, q)

LEMMA CreateAt ==
  ASSUME NEW a \in Actors, Own(a), Create(a), NEW p \in Seq(Names), p # <<>>, To(a) = p
  PROVE  \/ Fail(a)
         \/ Next1(a) /\ UNCHANGED tree
         \/ Next1(a) /\ Node(tree, Walk(p)) = Absent /\ Becoming(Walk(p), File(<<>>))
<1>1. CASE CanCreate(p) /\ Set(p, File(<<>>)) /\ Next1(a)
  <2>1. Walk(p) # <<>> /\ Node(tree, Walk(p)) = Absent
    BY <1>1, WalkIsPath, PlaceOf DEF Own
  <2>2. Becoming(Walk(p), File(<<>>))
    BY <1>1, <2>1, SetIs DEF Becoming
  <2>3. QED BY <1>1, <2>1, <2>2
<1>2. QED BY <1>1 DEF Create

LEMMA TruncAt ==
  ASSUME NEW a \in Actors, Own(a), Trunc(a), NEW p \in Seq(Names), p # <<>>, To(a) = p
  PROVE  Fail(a) \/ (Next1(a) /\ Becoming(Walk(p), File(<<>>)))
<1>1. CASE Set(p, File(<<>>)) /\ Next1(a)
  <2>1. Walk(p) # <<>>
    BY WalkIsPath DEF Own
  <2>2. QED BY <1>1, <2>1, SetIs DEF Becoming
<1>2. QED BY <1>1 DEF Trunc

LEMMA PutAt ==
  ASSUME NEW a \in Actors, Own(a), Put(a), NEW p \in Seq(Names), p # <<>>, To(a) = p,
         NEW d, Node(tree, Walk(p)) = File(d)
  PROVE  Next1(a) /\ Becoming(Walk(p), File(Written(d, act[a].buf, act[a].at)))
<1>1. Kind(p) = "file" /\ Data(p) = d
  BY DEF Kind, Data, File
<1>2. Set(p, File(Written(d, act[a].buf, act[a].at))) /\ Next1(a)
  BY <1>1 DEF Put
<1>3. Walk(p) # <<>>
  BY WalkIsPath DEF Own
<1>4. QED BY <1>2, <1>3, SetIs DEF Becoming

LEMMA FillingStep ==
  ASSUME NEW a \in Actors, Own(a), Call(a), act[a].call.op \in Fills, Filling(a, tree, act[a])
  PROVE  StageAfter(a)
<1> DEFINE c == act[a].call
           p == act[a].call.src
<1>1. /\ act[a].todo # <<>> /\ p \in Seq(Names) /\ p # <<>> /\ act[a].buf = <<a>> /\ act[a].at = 0
  BY CallIs, Ground DEF Own, Filling
<1>2. CASE Fail(a)
  BY <1>2, ErrorStages DEF Fills
<1>3. CASE act[a].todo = Refused
  <2>1. Head(act[a].todo).do = "refuse"
    BY <1>3 DEF Refused, Task
  <2>2. QED BY <1>2, <2>1, CallIs DEF Refuse
<1>4. CASE act[a].todo = WriteScript(p) /\ ~Fail(a)
  <2>1. Head(act[a].todo) = On("create", p) /\ Tail(act[a].todo) = <<On("trunc", p), On("put", p)>>
    BY <1>1, <1>4, ScriptAt
  <2>2. Create(a) /\ To(a) = p
    BY <2>1, CallIs, OnIs DEF To
  <2>3. Next1(a)
    BY <1>1, <1>4, <2>2, CreateAt
  <2>4. /\ act'[a].call = c /\ act'[a].todo = <<On("trunc", p), On("put", p)>>
        /\ act'[a].buf = <<a>> /\ act'[a].at = 0
    BY <1>1, <2>1, <2>3, NextIs
  <2>5. Filling(a, tree', act'[a])
    BY <2>4 DEF Filling
  <2>6. act'[a].todo # <<>>
    BY <2>4
  <2>7. QED BY <2>4, <2>5, <2>6, StageIf DEF StageAfter
<1>5. CASE act[a].todo = <<On("trunc", p), On("put", p)>> /\ ~Fail(a)
  <2>1. Head(act[a].todo) = On("trunc", p) /\ Tail(act[a].todo) = <<On("put", p)>>
    BY <1>5, ScriptAt
  <2>2. Trunc(a) /\ To(a) = p
    BY <2>1, CallIs, OnIs DEF To
  <2>3. Next1(a) /\ Becoming(Walk(p), File(<<>>))
    BY <1>1, <1>5, <2>2, TruncAt
  <2>4. /\ act'[a].call = c /\ act'[a].todo = <<On("put", p)>>
        /\ act'[a].buf = <<a>> /\ act'[a].at = 0
    BY <1>1, <2>1, <2>3, NextIs
  <2>5. Filling(a, tree', act'[a])
    BY <2>3, <2>4 DEF Filling, Becoming, Source
  <2>6. act'[a].todo # <<>>
    BY <2>4
  <2>7. QED BY <2>4, <2>5, <2>6, StageIf DEF StageAfter
<1>6. CASE act[a].todo = <<On("put", p)>> /\ Source(tree, c) = File(<<>>)
  <2>1. Head(act[a].todo) = On("put", p) /\ Tail(act[a].todo) = <<>>
    BY <1>6, ScriptAt
  <2>2. Put(a) /\ To(a) = p
    BY <2>1, CallIs, OnIs DEF To
  <2>3. Next1(a) /\ Becoming(Walk(p), File(Written(<<>>, act[a].buf, act[a].at)))
    BY <1>1, <1>6, <2>2, PutAt DEF Source
  <2>4. Written(<<>>, act[a].buf, act[a].at) = <<a>>
    BY <1>1, WrittenWhole DEF Own, Typed
  <2>5. Source(tree', c) = File(<<a>>)
    BY <2>3, <2>4 DEF Becoming, Source
  <2>6. act'[a].call = c /\ act'[a].todo = <<>>
    BY <1>1, <2>1, <2>3, NextIs
  <2>7. QED BY <2>5, <2>6, StageIf DEF StageAfter
<1>7. QED BY <1>2, <1>3, <1>4, <1>5, <1>6 DEF Filling

\* Text that is written at the end comes after what is there.
LEMMA WrittenAfter ==
  ASSUME NEW old \in Seq(Chunks), NEW new \in Seq(Chunks), Len(new) = 1
  PROVE  Written(old, new, Len(old)) = old \o new
<1> DEFINE L == Len(old)
           e(i) == IF i > L /\ i <= L + 1 THEN new[i - L] ELSE IF i <= L THEN old[i] ELSE "other"
<1>1. L \in Nat /\ DOMAIN old = 1 .. L
  BY LenProperties
<1>2. /\ old \o new \in Seq(Chunks) /\ Len(old \o new) = L + 1
      /\ \A i \in 1 .. L + 1 : (old \o new)[i] = IF i <= L THEN old[i] ELSE new[i - L]
  BY <1>1, ConcatProperties
<1>3. PICK g \in Seq(Chunks) :
        /\ g = old \o new /\ Len(g) = L + 1
        /\ \A i \in 1 .. L + 1 : g[i] = IF i <= L THEN old[i] ELSE new[i - L]
  BY <1>2
<1>4. g = [i \in 1 .. L + 1 |-> g[i]]
  BY <1>3, LenProperties
<1>5. Written(old, new, L) = [i \in 1 .. L + 1 |-> e(i)]
  <2>1. (IF L + Len(new) > L THEN L + Len(new) ELSE L) = L + 1
    BY <1>1
  <2>2. QED BY <1>1, <2>1 DEF Written
<1>6. \A i \in 1 .. L + 1 : e(i) = g[i]
  BY <1>1, <1>3
<1> HIDE DEF e, L
<1>7. Written(old, new, L) = g
  BY <1>4, <1>5, <1>6
<1>8. QED BY <1>3, <1>7 DEF L

LEMMA AppendingStep ==
  ASSUME NEW a \in Actors, Own(a), Call(a), act[a].call.op = "append",
         Appending(a, tree, act[a], before[a])
  PROVE  StageAfter(a)
<1> DEFINE c == act[a].call
           p == act[a].call.src
           old == before[a]
           text == Source(old, c).data
<1>1. /\ act[a].todo # <<>> /\ p \in Seq(Names) /\ p # <<>> /\ act[a].buf = <<a>>
      /\ Walk(p) \in Seq(Names) /\ Clear(c)
  BY CallIs, Ground DEF Own, Appending
<1>2. CASE Fail(a)
  BY <1>2, ErrorStages
<1>3. CASE act[a].todo = Refused
  <2>1. Head(act[a].todo).do = "refuse"
    BY <1>3 DEF Refused, Task
  <2>2. QED BY <1>2, <2>1, CallIs DEF Refuse
<1>4. CASE act[a].todo = AppendScript(p) /\ Intact(tree, c, old) /\ ~Fail(a)
  <2>1. Head(act[a].todo) = On("create", p) /\ Tail(act[a].todo) = <<On("stat", p), On("put", p)>>
    BY <1>1, <1>4, ScriptAt
  <2>2. Create(a) /\ To(a) = p
    BY <2>1, CallIs, OnIs DEF To
  <2>3. /\ Next1(a)
        /\ tree' = tree \/ (Node(tree, Walk(p)) = Absent /\ Becoming(Walk(p), File(<<>>)))
    BY <1>1, <1>4, <2>2, CreateAt
  <2>4. Source(tree, c).data = text
    BY <1>1, <1>4, ItsSource DEF Own
  <2>5. Source(tree', c).data = text
    BY <2>3, <2>4 DEF Source, Becoming, Absent, File
  <2>6. act'[a].call = c /\ act'[a].todo = <<On("stat", p), On("put", p)>> /\ act'[a].buf = <<a>>
    BY <1>1, <2>1, <2>3, NextIs
  <2>7. Appending(a, tree', act'[a], old)
    BY <2>5, <2>6 DEF Appending
  <2>8. act'[a].todo # <<>>
    BY <2>6
  <2>9. QED BY <2>6, <2>7, <2>8, StageIf DEF StageAfter
<1>5. CASE act[a].todo = <<On("stat", p), On("put", p)>> /\ Source(tree, c).data = text /\ ~Fail(a)
  <2>1. Head(act[a].todo) = On("stat", p) /\ Tail(act[a].todo) = <<On("put", p)>>
    BY <1>5, ScriptAt
  <2>2. Stat(a) /\ To(a) = p
    BY <2>1, CallIs, OnIs DEF To
  <2>3. PICK at : /\ at = Len(text) /\ Kind(p) = "file" /\ UNCHANGED tree
                  /\ Goes(a, [act[a] EXCEPT !.at = at], <<>>)
    BY <1>5, <2>2 DEF Stat, Data, Source
  <2>4. PICK local : local = [act[a] EXCEPT !.at = at] /\ Goes(a, local, <<>>)
    BY <2>3
  <2>5. Local(local) /\ local.call = c /\ local.at = at /\ local.buf = <<a>>
    BY <1>1, <2>4 DEF Own, Typed, Local, Fields
  <2>6. act'[a].call = c /\ act'[a].todo = <<On("put", p)>> /\ act'[a].at = at /\ act'[a].buf = <<a>>
    BY <1>1, <2>1, <2>4, <2>5, LocalNext
  <2>7. Source(tree', c) = File(text)
    BY <1>1, <1>5, <2>3, NodesOf DEF Source, Kind, Own
  <2>8. Appending(a, tree', act'[a], old)
    BY <2>3, <2>6, <2>7 DEF Appending
  <2>9. act'[a].todo # <<>>
    BY <2>6
  <2>10. QED BY <2>6, <2>8, <2>9, StageIf DEF StageAfter
<1>6. CASE act[a].todo = <<On("put", p)>> /\ Source(tree, c) = File(text) /\ act[a].at = Len(text)
  <2>1. Head(act[a].todo) = On("put", p) /\ Tail(act[a].todo) = <<>>
    BY <1>6, ScriptAt
  <2>2. Put(a) /\ To(a) = p
    BY <2>1, CallIs, OnIs DEF To
  <2>3. Next1(a) /\ Becoming(Walk(p), File(Written(text, act[a].buf, act[a].at)))
    BY <1>1, <1>6, <2>2, PutAt DEF Source
  <2>4. text \in Seq(Chunks)
    <3>1. Node(tree, Walk(p)).kind = "file" /\ Node(tree, Walk(p)).data = text
      BY <1>6 DEF Source, File
    <3>2. QED BY <1>1, <3>1, NodesOf DEF Own
  <2>5. PICK new \in Seq(Chunks) : new = act[a].buf /\ Len(new) = 1
    BY <1>1 DEF Own, Typed
  <2>6. Written(text, new, Len(text)) = text \o new
    BY <2>4, <2>5, WrittenAfter
  <2>7. Source(tree', c) = File(text \o <<a>>)
    BY <1>1, <1>6, <2>3, <2>5, <2>6 DEF Becoming, Source
  <2>8. act'[a].call = c /\ act'[a].todo = <<>>
    BY <1>1, <2>1, <2>3, NextIs
  <2>9. QED BY <2>7, <2>8, StageIf DEF StageAfter
<1>7. QED BY <1>2, <1>3, <1>4, <1>5, <1>6 DEF Appending

-----------------------------------------------------------------------------
(* All that is beneath a directory.                                        *)

\* A member of P waits in one of the parts of a sequence if it waits in the whole.
LEMMA OneOfRest ==
  ASSUME NEW S, NEW todo \in Seq(S), todo # <<>>, NEW P,
         \E i \in 1 .. Len(todo) : todo[i] \in P
  PROVE  Head(todo) \in P \/ \E i \in 1 .. Len(Tail(todo)) : Tail(todo)[i] \in P
<1>1. PICK i \in 1 .. Len(todo) : todo[i] \in P
  OBVIOUS
<1>2. Head(todo) = todo[1] /\ Tail(todo) \in Seq(S)
  BY ConsOfHead
<1>3. CASE i = 1
  BY <1>1, <1>2, <1>3
<1>4. CASE i # 1
  <2>1. i \in 2 .. Len(todo)
    BY <1>4, LenProperties
  <2>2. i - 1 \in 1 .. Len(Tail(todo)) /\ Tail(todo)[i - 1] = todo[i]
    BY <2>1, ConsOfHead
  <2>3. QED BY <1>1, <2>2
<1>5. QED BY <1>3, <1>4

LEMMA OneOfJoin ==
  ASSUME NEW S, NEW s \in Seq(S), NEW t \in Seq(S), NEW P,
         \/ \E i \in 1 .. Len(s) : s[i] \in P
         \/ \E i \in 1 .. Len(t) : t[i] \in P
  PROVE  \E i \in 1 .. Len(s \o t) : (s \o t)[i] \in P
<1>1. /\ Len(s \o t) = Len(s) + Len(t) /\ Len(s) \in Nat /\ Len(t) \in Nat
      /\ \A i \in 1 .. Len(s) + Len(t) : (s \o t)[i] = IF i <= Len(s) THEN s[i] ELSE t[i - Len(s)]
  BY ConcatProperties, LenProperties
<1>2. CASE \E i \in 1 .. Len(s) : s[i] \in P
  <2>1. PICK i \in 1 .. Len(s) : s[i] \in P
    BY <1>2
  <2>2. i \in 1 .. Len(s \o t) /\ (s \o t)[i] = s[i]
    BY <1>1
  <2>3. QED BY <2>1, <2>2
<1>3. CASE \E i \in 1 .. Len(t) : t[i] \in P
  <2>1. PICK i \in 1 .. Len(t) : t[i] \in P
    BY <1>3
  <2>2. PICK j : j = Len(s) + i
    OBVIOUS
  <2>3. j \in 1 .. Len(s) + Len(t) /\ ~(j <= Len(s)) /\ j - Len(s) = i
    BY <1>1, <2>2
  <2>4. j \in 1 .. Len(s \o t) /\ (s \o t)[j] = t[i]
    BY <1>1, <2>3
  <2>5. QED BY <2>1, <2>4
<1>4. QED BY <1>2, <1>3

\* What is in the directory is what is listed.
LEMMA AllListed ==
  ASSUME FileOpsAssumption, NEW p
  PROVE  ToSet(Entries(p)) = {n \in Names : Exists(p \o <<n>>)}
<1> DEFINE S == {n \in Names : Exists(p \o <<n>>)}
<1>1. S \in SUBSET Names /\ Entries(p) = SetToSeq(S)
  BY DEF Entries
<1> HIDE DEF S
<1>2. SetToSeq(S) \in Seq(S)
  BY <1>1, NamesAreSeq
<1>3. \A n \in S : \E i \in DOMAIN SetToSeq(S) : SetToSeq(S)[i] = n
  BY <1>1, AllAreListed
<1>4. ToSet(SetToSeq(S)) = S
  BY <1>2, <1>3 DEF ToSet
<1>5. QED BY <1>1, <1>4 DEF S

\* The entry n of the directory r is on the way to u.
OnTheWay(c, old, r, u, n, v) ==
  /\ v = r \o <<n>> /\ (c.src \o r) \o <<n>> = c.src \o v
  /\ IsPrefix(v, u) /\ IsThere(old, c, v)
  /\ u # v => Node(old, Walk(c.src) \o v).kind = "dir"

LEMMA NextEntry ==
  ASSUME FileOpsAssumption, NEW c, Clear(c), NEW old, WellFormed(old),
         NEW r \in Seq(Names), NEW u \in Seq(Names), IsPrefix(r, u), u # r, IsThere(old, c, u)
  PROVE  \E n \in Names, v \in Seq(Names) : OnTheWay(c, old, r, u, n, v)
<1> DEFINE S == Walk(c.src)
           w == Below(u, r)
<1>1. w \in Seq(Names) /\ u = r \o w /\ S \in Seq(Names) /\ c.src \in Seq(Names)
  BY PrefixSplits, Ground
<1> HIDE DEF w
<1>2. w # <<>>
  BY <1>1, ConcatEmptySeq
<1>3. Head(w) \in Names /\ Tail(w) \in Seq(Names) /\ w = <<Head(w)>> \o Tail(w)
  BY <1>1, <1>2, ConsOfHead
<1> DEFINE n == Head(w)
           z == Tail(w)
           v == r \o <<n>>
<1>4. n \in Names /\ z \in Seq(Names) /\ <<n>> \in Seq(Names) /\ v \in Seq(Names)
  BY <1>3, OneIsSeq, EntryPath
<1>5. u = v \o z
  <2>1. (r \o <<n>>) \o z = r \o (<<n>> \o z)
    BY <1>4, ConcatAssociative, SMTT(60)
  <2>2. QED BY <1>1, <1>3, <2>1
<1>6. IsPrefix(v, u)
  BY <1>4, <1>5, PrefixOfConcat
<1>7. S \o v \in Seq(Names) /\ S \o u = (S \o v) \o z
  <2>1. S \o v \in Seq(Names)
    BY <1>4, GroundBeneath
  <2>2. (S \o v) \o z = S \o (v \o z)
    BY <1>1, <1>4, ConcatAssociative, SMTT(60)
  <2>3. QED BY <1>5, <2>1, <2>2
<1>8. Node(old, (S \o v) \o z).kind # "absent"
  BY <1>7 DEF IsThere
<1>9. (c.src \o r) \o <<n>> = c.src \o v
  BY <1>1, <1>4, EntryBeneath
<1>10. CASE z = <<>>
  <2>1. u = v /\ (S \o v) \o z = S \o v
    BY <1>4, <1>5, <1>7, <1>10, ConcatEmptySeq
  <2>2. IsThere(old, c, v)
    BY <1>8, <2>1 DEF IsThere
  <2> HIDE DEF v, n
  <2>3. QED BY <1>4, <1>6, <1>9, <2>1, <2>2 DEF v, OnTheWay
<1>11. CASE z # <<>>
  <2>1. Node(old, S \o v).kind = "dir"
    BY <1>4, <1>7, <1>8, <1>11, Ancestors
  <2>2. IsThere(old, c, v)
    BY <2>1 DEF IsThere
  <2> HIDE DEF v, n
  <2>3. QED BY <1>4, <1>6, <1>9, <2>1, <2>2 DEF v, OnTheWay
<1>12. QED BY <1>10, <1>11

\* While the source is as it was.
LEMMA KindBeneath ==
  ASSUME FileOpsAssumption, NEW c, Clear(c), NEW old, Intact(tree, c, old), NEW r \in Seq(Names)
  PROVE  /\ Kind(c.src \o r) = Node(old, Walk(c.src) \o r).kind
         /\ Exists(c.src \o r) <=> IsThere(old, c, r)
<1>1. Walk(c.src \o r) = Walk(c.src) \o r
  BY GroundBeneath
<1>2. Node(tree, Walk(c.src) \o r) = Node(old, Walk(c.src) \o r)
  BY DEF Intact, SameBeneath
<1>3. QED BY <1>1, <1>2 DEF Kind, Exists, IsThere

LEMMA FindingStep ==
  ASSUME NEW a \in Actors, Own(a), Call(a), act[a].call.op = "find", Finding(tree, act[a], before[a])
  PROVE  StageAfter(a)
<1> DEFINE c == act[a].call
           old == before[a]
           T == FindTasks(c)
<1>1. act[a].todo # <<>> /\ Clear(c) /\ Intact(tree, c, old) /\ c.src \in Seq(Names)
  BY CallIs, Ground DEF Own, Finding
<1>2. CASE Fail(a)
  BY <1>2, ErrorStages
<1>3. CASE act[a].todo = Refused
  <2>1. Head(act[a].todo).do = "refuse"
    BY <1>3 DEF Refused, Task
  <2>2. QED BY <1>2, <2>1, CallIs DEF Refuse
<1>4. CASE FoundOrListed(act[a], old) /\ ~Fail(a)
  <2>1. PICK todo \in Seq(T) :
          /\ todo = act[a].todo /\ todo # <<>>
          /\ \A u \in Seq(Names) :
               u # <<>> /\ IsThere(old, c, u) =>
                 c.src \o u \in act[a].out \/ \E i \in 1 .. Len(todo) : Heads(c, todo[i], u)
    BY <1>1, <1>4 DEF FoundOrListed
  <2>2. Head(todo) \in T /\ Tail(todo) \in Seq(T) /\ act[a].out \subseteq Descendants(old, c)
    <3>1. act[a].out \subseteq Descendants(old, c)
      BY <1>4 DEF FoundOrListed
    <3> HIDE DEF T
    <3>2. QED BY <2>1, <3>1, ConsOfHead
  <2>3. PICK r \in Seq(Names) : From(a) = c.src \o r /\ Head(act[a].todo).do = "find"
    BY <2>1, <2>2 DEF FindTasks, From
  <2>4. Find(a)
    BY <2>3, CallIs
  <2> DEFINE S == {n \in Names : Kind(From(a) \o <<n>>) = "dir"}
             more == [i \in DOMAIN SetToSeq(S) |-> On("find", From(a) \o <<SetToSeq(S)[i]>>)]
             found == {From(a) \o <<n>> : n \in ToSet(Entries(From(a)))}
  <2>5. Goes(a, [act[a] EXCEPT !.out = @ \cup found], more) /\ UNCHANGED tree
    BY <1>4, <2>4 DEF Find
  <2>6. found = {From(a) \o <<n>> : n \in {m \in Names : Exists(From(a) \o <<m>>)}}
    <3>1. ToSet(Entries(From(a))) = {m \in Names : Exists(From(a) \o <<m>>)}
      BY AllListed DEF Own
    <3>2. QED BY <3>1
  <2>7. \A n \in Names : /\ r \o <<n>> \in Seq(Names) /\ r \o <<n>> # <<>>
                         /\ From(a) \o <<n>> = c.src \o (r \o <<n>>)
    <3> TAKE n \in Names
    <3>1. r \o <<n>> \in Seq(Names) /\ r \o <<n>> # <<>>
      BY EntryPath
    <3>2. (c.src \o r) \o <<n>> = c.src \o (r \o <<n>>)
      BY <1>1, EntryBeneath
    <3>3. QED BY <2>3, <3>1, <3>2
  <2>8. found \subseteq Descendants(old, c)
    <3> SUFFICES ASSUME NEW n \in Names, Exists(From(a) \o <<n>>)
                 PROVE  From(a) \o <<n>> \in Descendants(old, c)
      BY <2>6
    <3>1. PICK v \in Seq(Names) : v # <<>> /\ From(a) \o <<n>> = c.src \o v
      BY <2>7
    <3>2. IsThere(old, c, v)
      BY <1>1, <3>1, KindBeneath DEF Own
    <3>3. QED BY <3>1, <3>2 DEF Descendants
  <2>9. more \in Seq(T)
    <3>1. \A n \in Names : On("find", From(a) \o <<n>>) \in T
      <4> TAKE n \in Names
      <4>1. PICK v \in Seq(Names) : From(a) \o <<n>> = c.src \o v
        BY <2>7
      <4>2. c.src \o v \in Seq(Names)
        BY <1>1, GroundBeneath DEF Own
      <4>3. QED BY <4>1, <4>2 DEF FindTasks, On, Task, AnyTask, AnyDo
    <3>2. more = [i \in DOMAIN SetToSeq(S) |-> more[i]]
      OBVIOUS
    <3>3. \A i \in DOMAIN SetToSeq(S) : SetToSeq(S)[i] \in S => more[i] \in T
      BY <3>1
    <3>4. S \in SUBSET Names
      OBVIOUS
    <3> HIDE DEF more, T, S
    <3>5. QED BY <3>2, <3>3, <3>4, EachName DEF Own
  <2>10. \A n \in S : \E i \in 1 .. Len(more) : more[i].s = From(a) \o <<n>>
    <3>1. DOMAIN more = 1 .. Len(more)
      BY <2>9, LenProperties
    <3>2. \A n \in S : \E i \in DOMAIN SetToSeq(S) : SetToSeq(S)[i] = n
      <4>1. S \in SUBSET Names
        OBVIOUS
      <4> HIDE DEF S
      <4>2. QED BY <4>1, AllAreListed DEF Own
    <3>3. DOMAIN more = DOMAIN SetToSeq(S) /\ \A i \in DOMAIN more : more[i].s = From(a) \o <<SetToSeq(S)[i]>>
      BY DEF On, Task
    <3> HIDE DEF more, S
    <3>4. QED BY <3>1, <3>2, <3>3
  <2>11. PICK local : /\ local = [act[a] EXCEPT !.out = @ \cup found] /\ Goes(a, local, more)
    BY <2>5
  <2>12. Local(local) /\ local.call = c /\ local.out = act[a].out \cup found
    BY <2>11 DEF Own, Typed, Local, Fields
  <2> HIDE DEF more, found, T
  <2>13. act'[a].call = c /\ act'[a].todo = more \o Tail(todo) /\ act'[a].out = act[a].out \cup found
    <3>1. ActFits /\ Local(local) /\ Goes(a, local, more)
      BY <2>11, <2>12 DEF Own
    <3>2. /\ act'[a].call = local.call /\ act'[a].todo = more \o Tail(act[a].todo)
          /\ act'[a].out = local.out
      BY <3>1, RecordAfter
    <3>3. QED BY <2>1, <2>12, <3>2
  <2>14. act'[a].todo \in Seq(T)
    BY <2>2, <2>9, <2>13, ConcatProperties
  <2>15. ASSUME NEW u \in Seq(Names), u # <<>>, IsThere(old, c, u), c.src \o u \notin act'[a].out
         PROVE  \E i \in 1 .. Len(act'[a].todo) : Heads(c, act'[a].todo[i], u)
    <3> DEFINE P == {x \in T : Heads(c, x, u)}
    <3>1. \E i \in 1 .. Len(todo) : todo[i] \in P
      <4>1. PICK i \in 1 .. Len(todo) : Heads(c, todo[i], u)
        BY <2>1, <2>13, <2>15
      <4>2. todo[i] \in T
        BY ElementOfSeq
      <4>3. QED BY <4>1, <4>2
    <3>2. SUFFICES \/ \E i \in 1 .. Len(more) : more[i] \in P
                   \/ \E i \in 1 .. Len(Tail(todo)) : Tail(todo)[i] \in P
      <4> HIDE DEF P
      <4>1. \E i \in 1 .. Len(more \o Tail(todo)) : (more \o Tail(todo))[i] \in P
        BY <2>2, <2>9, <3>2, OneOfJoin
      <4>2. QED BY <2>13, <4>1 DEF P
    <3>3. SUFFICES ASSUME Head(todo) \in P PROVE \E i \in 1 .. Len(more) : more[i] \in P
      <4> HIDE DEF P
      <4>1. QED BY <2>1, <3>1, <3>3, OneOfRest
    <3>4. PICK v \in Seq(Names) : Head(todo).s = c.src \o v /\ IsPrefix(v, u) /\ v # u
      BY <3>3 DEF Heads
    <3>5. v = r
      BY <1>1, <2>1, <2>3, <3>4, SameAfter DEF From
    <3>6. PICK n \in Names, w \in Seq(Names) : OnTheWay(c, old, r, u, n, w)
      <4>1. FileOpsAssumption /\ WellFormed(old) /\ IsPrefix(r, u) /\ u # r
        BY <3>4, <3>5 DEF Own
      <4>2. Clear(c) /\ IsThere(old, c, u)
        BY <1>1, <2>15
      <4> HIDE DEF c, old
      <4>3. QED BY <4>1, <4>2, NextEntry, Zenon
    <3>7. From(a) \o <<n>> = c.src \o w
      BY <2>3, <3>6 DEF OnTheWay
    <3>8. Exists(From(a) \o <<n>>)
      BY <1>1, <3>6, <3>7, KindBeneath DEF Own, OnTheWay
    <3>9. c.src \o w \in act'[a].out
      BY <2>6, <2>13, <3>7, <3>8
    <3>10. u # w
      BY <2>15, <3>9
    <3>11. Kind(From(a) \o <<n>>) = "dir"
      BY <1>1, <3>6, <3>7, <3>10, KindBeneath DEF Own, OnTheWay
    <3>12. PICK i \in 1 .. Len(more) : more[i].s = c.src \o w
      BY <2>10, <3>7, <3>11
    <3>13. more[i] \in T
      BY <2>9, ElementOfSeq
    <3>14. Heads(c, more[i], u)
      BY <3>6, <3>10, <3>12 DEF Heads, OnTheWay
    <3>15. QED BY <3>13, <3>14
  <2>16. act'[a].out \subseteq Descendants(old, c) /\ Intact(tree', c, old)
    BY <1>1, <2>2, <2>5, <2>8, <2>13
  <2>17. FoundOrListed(act'[a], old)
    BY <2>13, <2>14, <2>15, <2>16 DEF FoundOrListed, T
  <2>18. act'[a].todo = <<>> => act'[a].out = Descendants(old, c)
    <3> SUFFICES ASSUME act'[a].todo = <<>> PROVE Descendants(old, c) \subseteq act'[a].out
      BY <2>16
    <3>1. Len(act'[a].todo) = 0
      OBVIOUS
    <3>2. \A u \in Seq(Names) : u # <<>> /\ IsThere(old, c, u) => c.src \o u \in act'[a].out
      BY <2>15, <3>1
    <3>3. QED BY <3>2 DEF Descendants
  <2>19. act'[a].todo # <<>> => Finding(tree', act'[a], old)
    BY <2>13, <2>16, <2>17 DEF Finding
  <2>20. QED BY <2>13, <2>18, <2>19, StageIf DEF StageAfter
<1>5. QED BY <1>2, <1>3, <1>4 DEF Finding

-----------------------------------------------------------------------------
(* A checkout reads what it copies.                                        *)

\* The tasks more come first, and the closure still runs last.
LEMMA MatOn ==
  ASSUME NEW c, NEW todo \in Seq(MatTasks(c)), todo # <<>>, Last(todo).do = "run",
         Head(todo).do # "run", NEW more \in Seq(MatTasks(c))
  PROVE  /\ Tail(todo) \in Seq(MatTasks(c)) /\ Tail(todo) # <<>> /\ Last(Tail(todo)).do = "run"
         /\ more \o Tail(todo) \in Seq(MatTasks(c)) /\ more \o Tail(todo) # <<>>
         /\ Last(more \o Tail(todo)).do = "run"
<1> DEFINE T == MatTasks(c)
<1> HIDE DEF T
<1>1. more \in Seq(T) /\ todo \in Seq(T)
  BY DEF T
<1>2. /\ Tail(todo) \in Seq(T)
      /\ Tail(todo) # <<>> => Last(Tail(todo)) = Last(todo)
      /\ Tail(todo) = <<>> => Last(todo) = Head(todo)
  BY <1>1, LastOfTail, Zenon
<1>3. /\ more \o Tail(todo) \in Seq(T)
      /\ Tail(todo) # <<>> => more \o Tail(todo) # <<>> /\ Last(more \o Tail(todo)) = Last(todo)
      /\ Tail(todo) = <<>> => more \o Tail(todo) = more /\ Last(todo) = Head(todo)
  BY <1>1, LastOfRest, Zenon
<1>4. Tail(todo) # <<>>
  BY <1>2
<1>5. Last(Tail(todo)) = Last(todo) /\ Last(more \o Tail(todo)) = Last(todo) /\ more \o Tail(todo) # <<>>
  BY <1>2, <1>3, <1>4
<1>6. QED BY <1>2, <1>3, <1>4, <1>5 DEF T

LEMMA MatKept ==
  ASSUME NEW a \in Actors, Own(a), act[a].call.op \in Checks, CheckingOut(tree, act[a], before[a]),
         tree' = tree, act'[a].call = act[a].call, act'[a].at = act[a].at,
         act'[a].todo \in Seq(MatTasks(act[a].call)), act'[a].todo # <<>>, Last(act'[a].todo).do = "run",
         Snapped(act'[a], before[a]), DOMAIN act'[a].snap \subseteq Seq(Names)
  PROVE  StageAfter(a)
<1>1. CheckingOut(tree', act'[a], before[a])
  BY DEF CheckingOut
<1>2. QED BY <1>1, StageIf DEF StageAfter

LEMMA MatStep ==
  ASSUME NEW a \in Actors, Own(a), act[a].call.op \in Checks, CheckingOut(tree, act[a], before[a]),
         act[a].todo # Refused, MatFile(a) \/ MatDir(a) \/ MatEntry(a)
  PROVE  StageAfter(a)
<1> DEFINE c == act[a].call
           old == before[a]
           T == MatTasks(c)
<1>1. /\ Clear(c) /\ c.src \in Seq(Names) /\ Intact(tree, c, old) /\ Local(act[a]) /\ ActFits
      /\ FileOpsAssumption /\ WellFormed(tree)
  BY Ground DEF Own, CheckingOut, Typed
<1>2. PICK todo \in Seq(T) : todo = act[a].todo /\ todo # <<>> /\ Last(todo).do = "run"
  BY DEF CheckingOut
<1>3. /\ Snapped(act[a], old) /\ DOMAIN act[a].snap \subseteq Seq(Names) /\ Head(todo) \in T
  <2>1. Snapped(act[a], old) /\ DOMAIN act[a].snap \subseteq Seq(Names)
    BY DEF CheckingOut
  <2> HIDE DEF T
  <2>2. QED BY <1>2, <2>1, ConsOfHead
<1>4. PICK r \in Seq(Names) : From(a) = c.src \o r
  BY <1>2, <1>3 DEF MatTasks, From
<1>5. /\ From(a) \in Seq(Names) /\ Kind(From(a)) = Node(old, Walk(c.src) \o r).kind
      /\ Kind(From(a)) = "file" => Node(old, Walk(c.src) \o r) = File(Data(From(a)))
  <2>1. Walk(From(a)) = Walk(c.src) \o r /\ From(a) \in Seq(Names) /\ Walk(c.src) \o r \in Seq(Names)
    BY <1>1, <1>4, GroundBeneath
  <2>2. Node(tree, Walk(c.src) \o r) = Node(old, Walk(c.src) \o r)
    BY <1>1 DEF Intact, SameBeneath
  <2>3. QED BY <1>1, <2>1, <2>2, NodesOf DEF Kind, Data
<1>6. Head(todo).do # "run"
  BY <1>2 DEF MatFile, MatDir, MatEntry, At
<1>7. CASE Fail(a)
  BY <1>7, ErrorStages DEF Checks
<1>8. ASSUME NEW local, Local(local), local.call = c, local.at = act[a].at, Goes(a, local, <<>>), tree' = tree,
             Snapped(local, old), DOMAIN local.snap \subseteq Seq(Names)
      PROVE  StageAfter(a)
  <2>1. act'[a].call = c /\ act'[a].at = act[a].at /\ act'[a].todo = Tail(todo) /\ act'[a].snap = local.snap
    BY <1>2, <1>8, LocalNext
  <2>2. <<>> \in Seq(T)
    BY EmptySeq
  <2>3. Tail(todo) \in Seq(T) /\ Tail(todo) # <<>> /\ Last(Tail(todo)).do = "run"
    BY <1>2, <1>6, <2>2, MatOn
  <2>4. Snapped(act'[a], old) /\ DOMAIN act'[a].snap \subseteq Seq(Names)
    BY <1>8, <2>1 DEF Snapped
  <2>5. QED BY <1>8, <2>1, <2>3, <2>4, MatKept
<1>9. ASSUME NEW more \in Seq(T), Goes(a, act[a], more), tree' = tree
      PROVE  StageAfter(a)
  <2>1. PICK local : local = act[a]
    OBVIOUS
  <2>2. ActFits /\ Local(local) /\ Goes(a, local, more)
    BY <1>1, <1>9, <2>1
  <2>3. /\ act'[a].call = local.call /\ act'[a].at = local.at /\ act'[a].snap = local.snap
        /\ act'[a].todo = more \o Tail(act[a].todo)
    BY <2>2, RecordAfter
  <2>4. /\ more \o Tail(todo) \in Seq(T) /\ more \o Tail(todo) # <<>>
        /\ Last(more \o Tail(todo)).do = "run"
    <3>1. todo # <<>> /\ Last(todo).do = "run"
      BY <1>2
    <3> HIDE DEF c
    <3>2. QED BY <1>6, <3>1, MatOn, Zenon
  <2>5. PICK rest : /\ rest = act'[a].todo /\ rest \in Seq(T) /\ rest # <<>> /\ Last(rest).do = "run"
    BY <1>2, <2>3, <2>4
  <2>6. Snapped(act'[a], old) /\ DOMAIN act'[a].snap \subseteq Seq(Names)
    BY <1>3, <2>1, <2>3 DEF Snapped
  <2>7. QED BY <1>9, <2>1, <2>3, <2>5, <2>6, MatKept
<1>10. ASSUME NEW do \in {"matdir", "matent"}, NEW w \in Seq(Names)
       PROVE  On(do, c.src \o w) \in T
  <2>1. c.src \o w \in Seq(Names)
    BY <1>1, GroundBeneath
  <2>2. QED BY <2>1 DEF MatTasks, On, Task, AnyTask, AnyDo, CheckDo
<1>11. CASE MatFile(a) /\ ~Fail(a)
  <2>1. From(a) = c.src
    BY <1>2, <1>3, <1>11 DEF MatTasks, MatFile, At, From
  <2>2. r = <<>>
    <3>1. c.src \o r = c.src \o <<>> /\ <<>> \in Seq(Names)
      BY <1>1, <1>4, <2>1, ItsSource
    <3>2. QED BY <1>1, <3>1, SameAfter
  <2>3. PICK copy : copy = [x \in {<<>>} |-> Data(From(a))]
    OBVIOUS
  <2>4. PICK local : /\ local = [act[a] EXCEPT !.scratch = copy, !.snap = copy]
                     /\ Goes(a, local, <<>>) /\ tree' = tree /\ Kind(From(a)) = "file"
    BY <1>11, <2>3 DEF MatFile
  <2>5. Local(local) /\ local.call = c /\ local.at = act[a].at /\ local.snap = copy
    BY <1>1, <2>4 DEF Local, Fields
  <2>6. Snapped(local, old) /\ DOMAIN local.snap \subseteq Seq(Names)
    <3>1. DOMAIN copy = {<<>>} /\ copy[<<>>] = Data(From(a)) /\ <<>> \in Seq(Names)
      BY <2>3, EmptySeq
    <3>2. Node(old, Walk(c.src) \o <<>>) = File(Data(From(a)))
      BY <1>5, <2>2, <2>4
    <3>3. QED BY <2>5, <3>1, <3>2 DEF Snapped
  <2>7. QED BY <1>8, <2>4, <2>5, <2>6
<1>12. CASE MatDir(a) /\ ~Fail(a)
  <2> DEFINE S == {n \in Names : Exists(From(a) \o <<n>>)}
             names == SetToSeq(S)
             more == [i \in DOMAIN names |-> On("matent", From(a) \o <<names[i]>>)]
  <2>1. Goes(a, act[a], more) /\ tree' = tree
    BY <1>12 DEF MatDir, Entries
  <2>2. \A n \in Names : On("matent", From(a) \o <<n>>) \in T
    <3> TAKE n \in Names
    <3>1. PICK v \in Seq(Names) : v = r \o <<n>>
      BY EntryPath
    <3>2. (c.src \o r) \o <<n>> = c.src \o (r \o <<n>>)
      BY <1>1, EntryBeneath
    <3>3. From(a) \o <<n>> = c.src \o v
      BY <1>4, <3>1, <3>2
    <3>4. QED BY <1>10, <3>3
  <2>3. more \in Seq(T)
    <3>1. more = [i \in DOMAIN names |-> more[i]] /\ \A i \in DOMAIN names : names[i] \in S => more[i] \in T
      BY <2>2
    <3>2. S \in SUBSET Names
      OBVIOUS
    <3> HIDE DEF more, S, T
    <3>3. QED BY <1>1, <3>1, <3>2, EachName
  <2> HIDE DEF more
  <2>4. QED BY <1>9, <2>1, <2>3
<1>13. CASE MatEntry(a) /\ ~Fail(a)
  <2>1. Below(From(a), c.src) = r
    BY <1>1, <1>4, PrefixOfConcat
  <2> DEFINE Add(f) == [q \in DOMAIN f \cup {r} |-> IF q = r THEN Data(From(a)) ELSE f[q]]
  <2>2. CASE Goes(a, act[a], <<On("matdir", From(a))>>) /\ UNCHANGED tree
    <3>1. PICK x \in T : x = On("matdir", From(a))
      BY <1>4, <1>10
    <3>2. PICK more \in Seq(T) : more = <<x>>
      BY <3>1, OneIsSeq
    <3>3. Goes(a, act[a], more) /\ tree' = tree
      BY <2>2, <3>1, <3>2
    <3>4. QED BY <1>9, <3>3
  <2>3. CASE /\ Kind(From(a)) = "file" /\ UNCHANGED tree
             /\ Goes(a, [act[a] EXCEPT !.scratch = Add(@), !.snap = Add(@)], <<>>)
    <3>1. PICK local : /\ local = [act[a] EXCEPT !.scratch = Add(@), !.snap = Add(@)]
                       /\ Goes(a, local, <<>>)
      BY <2>3
    <3>2. Local(local) /\ local.call = c /\ local.at = act[a].at /\ local.snap = Add(act[a].snap)
      BY <1>1, <3>1 DEF Local, Fields
    <3>3. /\ DOMAIN local.snap = DOMAIN act[a].snap \cup {r}
          /\ \A q \in DOMAIN local.snap : local.snap[q] = IF q = r THEN Data(From(a)) ELSE act[a].snap[q]
      BY <3>2
    <3>4. Snapped(local, old) /\ DOMAIN local.snap \subseteq Seq(Names)
      BY <1>3, <1>5, <2>3, <3>2, <3>3 DEF Snapped
    <3>5. QED BY <1>8, <2>3, <3>1, <3>2, <3>4
  <2>4. QED BY <1>13, <2>1, <2>2, <2>3 DEF MatEntry
<1>14. QED BY <1>7, <1>11, <1>12, <1>13

-----------------------------------------------------------------------------
(* And writes back what was changed.                                       *)

\* The files, each of them once.
LEMMA EachOnce ==
  ASSUME NEW S, IsFiniteSet(S), NEW s \in SetToSeqs(S)
  PROVE  /\ Cardinality(S) \in Nat /\ DOMAIN s = 1 .. Cardinality(S)
         /\ \A i \in DOMAIN s : s[i] \in S
         /\ \A i, j \in DOMAIN s : s[i] = s[j] => i = j
         /\ \A x \in S : \E i \in DOMAIN s : s[i] = x
<1> DEFINE k == Cardinality(S)
<1>1. k \in Nat /\ s \in [1 .. k -> S] /\ \A i, j \in 1 .. k : i # j => s[i] # s[j]
  BY FS_CardinalityType DEF SetToSeqs
<1>2. s \in Injection(1 .. k, S)
  BY <1>1 DEF Injection, IsInjective
<1>3. Cardinality(1 .. k) = k
  BY <1>1, FS_Interval
<1>4. s \in Surjection(1 .. k, S)
  BY <1>2, <1>3, FS_Injection
<1>5. \A x \in S : \E i \in 1 .. k : s[i] = x
  BY <1>4 DEF Surjection
<1>6. QED BY <1>1, <1>5

\* The first of the parts of a sequence.
LEMMA HeadOfJoin ==
  ASSUME NEW S, NEW s \in Seq(S), s # <<>>, NEW t \in Seq(S)
  PROVE  Head(s \o t) = Head(s) /\ Tail(s \o t) = Tail(s) \o t /\ s \o t # <<>>
<1>a. Head(s) \in S /\ Tail(s) \in Seq(S) /\ s = <<Head(s)>> \o Tail(s)
  BY ConsOfHead
<1>1. PICK h \in S, r \in Seq(S) : h = Head(s) /\ r = Tail(s) /\ s = <<h>> \o r
  BY <1>a, Zenon
<1>2. <<h>> \in Seq(S) /\ r \o t \in Seq(S)
  BY OneIsSeq, ConcatProperties
<1>3. (<<h>> \o r) \o t = <<h>> \o (r \o t)
  BY <1>2, ConcatAssociative, SMTT(60)
<1>4. /\ Head(<<h>> \o (r \o t)) = h /\ Tail(<<h>> \o (r \o t)) = r \o t
      /\ <<h>> \o (r \o t) # <<>>
  BY <1>2, HeadOfCons
<1>5. QED BY <1>1, <1>3, <1>4

LEMMA BackDone ==
  ASSUME NEW a \in Actors, act'[a].call.op \in Checks, Edited(a, act'[a], before[a]),
         NEW later \in Seq(BackTasks(act'[a])), Once(later), act'[a].todo = later,
         \A u \in Seq(Names) : AsItShould(a, tree', act'[a], before[a], later, u)
  PROVE  StageAfter(a)
<1>1. WritingBack(a, tree', act'[a], before[a])
  BY DEF WritingBack
<1>2. ASSUME act'[a].todo = <<>> PROVE Done(a, tree', act'[a], before[a])
  <2>1. Len(later) = 0
    BY <1>2
  <2>2. \A u : ~Pending(later, u)
    BY <2>1 DEF Pending
  <2>3. QED BY <2>2 DEF Done, AsItShould, Removals, Fills, Gets, Checks
<1>3. QED BY <1>1, <1>2, StageIf DEF StageAfter

LEMMA BackOn ==
  ASSUME NEW a \in Actors, act'[a].call.op \in Checks, Edited(a, act'[a], before[a]),
         NEW later \in Seq(BackTasks(act'[a])), Once(later),
         NEW r \in Seq(Names), NEW w \in Seq(AnyTask), w # <<>>, act'[a].todo = w \o later,
         Writing(tree', act'[a], r, w), ~Pending(later, r), act'[a].buf = <<a>>,
         \A u \in Seq(Names) : u = r \/ AsItShould(a, tree', act'[a], before[a], later, u)
  PROVE  StageAfter(a)
<1>1. WritingBack(a, tree', act'[a], before[a])
  BY Zenon DEF WritingBack
<1>2. later \in Seq(AnyTask)
  BY SeqMonotonic DEF BackTasks
<1>3. act'[a].todo # <<>>
  BY <1>2, HeadOfJoin, Zenon
<1>4. QED BY <1>1, <1>3, StageIf DEF StageAfter

LEMMA RunStep ==
  ASSUME NEW a \in Actors, Own(a), act[a].call.op \in Checks, CheckingOut(tree, act[a], before[a]),
         act[a].todo # Refused, Run(a)
  PROVE  StageAfter(a)
<1> DEFINE c == act[a].call
           old == before[a]
           snap == act[a].snap
<1>1. /\ Clear(c) /\ c.src \in Seq(Names) /\ Intact(tree, c, old) /\ Local(act[a]) /\ ActFits
      /\ act[a].at = 0 /\ Snapped(act[a], old) /\ act[a].todo # <<>> /\ tree' = tree
  BY Ground DEF Own, CheckingOut, Typed, Run, At
<1>2. Tail(act[a].todo) = <<>> /\ IsFiniteSet(DOMAIN snap) /\ DOMAIN snap \subseteq Seq(Names)
  <2>1. CheckFits(act[a])
    BY <1>1 DEF ActFits, Fits
  <2>2. QED BY <1>1, <2>1, HeadFits DEF Run, At, WriteTask, CheckFits
<1>3. PICK edit \in SUBSET DOMAIN snap,
           new \in {{}} \cup {{<<n>>} : n \in Names} \cup {{<<n, n>>} : n \in Names} :
        LET files == DOMAIN snap \cup new
            text  == [r \in files |-> IF r \in edit \cup new THEN <<a>> ELSE snap[r]]
        IN \E backs \in Backs(a, files) :
             Goes(a, [act[a] EXCEPT !.scratch = text, !.edited = edit \cup new], backs)
  BY DEF Run
<1> DEFINE files == DOMAIN snap \cup new
           edited == edit \cup new
           text  == [r \in files |-> IF r \in edited THEN <<a>> ELSE snap[r]]
<1>4. IsFiniteSet(files) /\ files \subseteq Seq(Names) /\ edited \subseteq files
  <2>1. new = {} \/ \E r \in Seq(Names) : new = {r}
    <3>1. \A n \in Names : <<n>> \in Seq(Names) /\ <<n, n>> \in Seq(Names)
      BY OneIsSeq, TwoAreSeq
    <3>2. QED BY <3>1, Zenon
  <2>2. CASE new = {}
    BY <1>2, <2>2
  <2>3. CASE \E r \in Seq(Names) : new = {r}
    <3>1. PICK r \in Seq(Names) : new = {r}
      BY <2>3
    <3>2. IsFiniteSet(DOMAIN snap \cup {r})
      BY <1>2, FS_AddElement
    <3>3. QED BY <1>2, <3>1, <3>2
  <2>4. QED BY <2>1, <2>2, <2>3
<1>5. PICK backs \in Backs(a, files) :
        Goes(a, [act[a] EXCEPT !.scratch = text, !.edited = edited], backs)
  BY <1>3
<1>6. DOMAIN text = files /\ \A r \in files : text[r] = IF r \in edited THEN <<a>> ELSE snap[r]
  OBVIOUS
<1> HIDE DEF text, edited, files
<1>7. PICK local : /\ local = [act[a] EXCEPT !.scratch = text, !.edited = edited]
                   /\ Goes(a, local, backs)
  BY <1>5
<1>8. /\ Local(local) /\ local.call = c /\ local.at = 0 /\ local.snap = snap
      /\ local.scratch = text /\ local.edited = edited
  BY <1>1, <1>7 DEF Local, Fields
<1>9. /\ act'[a].call = c /\ act'[a].at = 0 /\ act'[a].snap = snap
      /\ act'[a].scratch = text /\ act'[a].edited = edited
      /\ act'[a].todo = backs \o Tail(act[a].todo)
  <2>1. ActFits /\ Local(local) /\ Goes(a, local, backs)
    BY <1>1, <1>7, <1>8
  <2>2. LET l == act'[a] IN
        /\ l.call = local.call /\ l.at = local.at /\ l.snap = local.snap
        /\ l.scratch = local.scratch /\ l.edited = local.edited
        /\ l.todo = backs \o Tail(act[a].todo)
    BY <2>1, RecordAfter
  <2>3. QED BY <1>8, <2>2
<1>10. PICK s \in SetToSeqs(files) : backs = [i \in DOMAIN s |-> Task("back", s[i], c.src \o s[i])]
  BY DEF Backs
<1>11. /\ Cardinality(files) \in Nat /\ DOMAIN s = 1 .. Cardinality(files)
       /\ \A i \in DOMAIN s : s[i] \in files
       /\ \A i, j \in DOMAIN s : s[i] = s[j] => i = j
       /\ \A x \in files : \E i \in DOMAIN s : s[i] = x
  BY <1>4, EachOnce
<1>12. /\ DOMAIN backs = 1 .. Cardinality(files)
       /\ \A i \in DOMAIN backs : backs[i].do = "back" /\ backs[i].s = s[i] /\ backs[i].d = c.src \o s[i]
  BY <1>10, <1>11 DEF Task
<1>13. \A i \in DOMAIN backs : backs[i] \in BackTasks(act'[a])
  <2> TAKE i \in DOMAIN backs
  <2>1. s[i] \in files /\ s[i] \in Seq(Names)
    BY <1>4, <1>11, <1>12
  <2>2. c.src \o s[i] \in Seq(Names)
    BY <1>1, <2>1, GroundBeneath DEF Own
  <2>3. backs[i] \in AnyTask
    BY <1>10, <1>11, <1>12, <2>1, <2>2 DEF Task, AnyTask, AnyDo, CheckDo
  <2>4. s[i] \in edited \/ (s[i] \in DOMAIN snap /\ snap[s[i]] = text[s[i]])
    BY <1>6, <2>1 DEF files, edited
  <2>5. QED BY <1>9, <1>12, <2>3, <2>4 DEF BackTasks
<1>14. backs \in Seq(BackTasks(act'[a])) /\ Len(backs) = Cardinality(files)
  <2>1. backs \in [1 .. Cardinality(files) -> BackTasks(act'[a])]
    BY <1>10, <1>12, <1>13
  <2>2. QED BY <1>11, <2>1, FunIsSeq
<1>15. act'[a].todo = backs
  BY <1>2, <1>9, <1>14, ConcatEmptySeq
<1>16. Once(backs)
  BY <1>11, <1>12, <1>14 DEF Once
<1>17. \A u \in Seq(Names) : AsItShould(a, tree', act'[a], old, backs, u)
  <2> TAKE u \in Seq(Names)
  <2>1. u \in edited => Pending(backs, u)
    BY <1>4, <1>11, <1>12, <1>14 DEF Pending
  <2>2. Node(tree', Walk(c.src) \o u) = Node(old, Walk(c.src) \o u)
    BY <1>1 DEF Intact, SameBeneath
  <2>3. QED BY <1>9, <2>1, <2>2 DEF AsItShould
<1>18. Edited(a, act'[a], old)
  BY <1>1, <1>2, <1>4, <1>6, <1>9 DEF Edited, Snapped
<1>19. act'[a].call.op \in Checks
  BY <1>9
<1>20. QED BY <1>14, <1>15, <1>16, <1>17, <1>18, <1>19, BackDone

LEMMA CheckingOutStep ==
  ASSUME NEW a \in Actors, Own(a), Call(a), act[a].call.op \in Checks,
         CheckingOut(tree, act[a], before[a])
  PROVE  StageAfter(a)
<1>1. CASE Fail(a)
  BY <1>1, ErrorStages DEF Checks
<1>2. CASE act[a].todo = Refused
  <2>1. Head(act[a].todo).do = "refuse"
    BY <1>2 DEF Refused, Task
  <2>2. QED BY <1>1, <2>1, CallIs DEF Refuse
<1>3. CASE act[a].todo # Refused /\ ~Fail(a)
  <2>1. Head(act[a].todo).do \in {"matfile", "matdir", "matent", "run"}
    <3> DEFINE T == MatTasks(act[a].call)
    <3>1. PICK todo \in Seq(T) : todo = act[a].todo /\ todo # <<>>
      BY <1>3 DEF CheckingOut
    <3>2. Head(todo) \in T
      <4> HIDE DEF T
      <4>1. QED BY <3>1, ConsOfHead
    <3>3. QED BY <3>1, <3>2 DEF MatTasks
  <2>2. MatFile(a) \/ MatDir(a) \/ MatEntry(a) \/ Run(a)
    BY <1>3, <2>1, CallIs DEF ClosureFails
  <2>3. QED BY <1>3, <2>2, MatStep, RunStep
<1>4. QED BY <1>1, <1>2, <1>3

\* The first of the files is no more among those that come later.
LEMMA FirstPending ==
  ASSUME NEW S, NEW later \in Seq(S), later # <<>>, Once(later)
  PROVE  LET r == Head(later).s
             rest == Tail(later)
         IN /\ Head(later) \in S /\ rest \in Seq(S) /\ Once(rest)
            /\ Pending(later, r) /\ ~Pending(rest, r)
            /\ \A u : u # r => (Pending(rest, u) <=> Pending(later, u))
<1>1. PICK h, rest : h = Head(later) /\ rest = Tail(later)
  OBVIOUS
<1>2. /\ h = later[1] /\ h \in S /\ rest \in Seq(S) /\ Len(rest) = Len(later) - 1
      /\ Len(later) \in Nat /\ Len(later) # 0
      /\ \A i \in 1 .. Len(rest) : rest[i] = later[i + 1]
  BY <1>1, HeadTailProperties, LenProperties, EmptySeq
<1>3. \A i \in 2 .. Len(later) : i - 1 \in 1 .. Len(rest) /\ rest[i - 1] = later[i]
  BY <1>2
<1>4. Pending(later, h.s)
  BY <1>2 DEF Pending
<1>5. Once(rest)
  BY <1>2 DEF Once
<1>6. ~Pending(rest, h.s)
  BY <1>2 DEF Once, Pending
<1>7. ASSUME NEW u, u # h.s, Pending(later, u) PROVE Pending(rest, u)
  <2>1. PICK i \in 1 .. Len(later) : later[i].s = u
    BY <1>7 DEF Pending
  <2>2. i \in 2 .. Len(later)
    BY <1>2, <1>7, <2>1
  <2>3. QED BY <1>3, <2>1, <2>2 DEF Pending
<1>8. ASSUME NEW u, Pending(rest, u) PROVE Pending(later, u)
  <2>1. PICK i \in 1 .. Len(rest) : rest[i].s = u
    BY <1>8 DEF Pending
  <2>2. i + 1 \in 1 .. Len(later)
    BY <1>2
  <2>3. QED BY <1>2, <2>1, <2>2 DEF Pending
<1>9. QED BY <1>1, <1>2, <1>4, <1>5, <1>6, <1>7, <1>8

\* What Back has still to do for a file that was changed.
LEMMA BackWrites ==
  ASSUME NEW p \in Seq(Names), NEW r
  PROVE  LET w == (IF r = <<>> THEN <<>> ELSE <<On("create", p)>>) \o <<On("trunc", p), On("put", p)>> IN
         w \in {Overwrite(p), <<On("trunc", p), On("put", p)>>} /\ w \in Seq(AnyTask) /\ w # <<>>
<1>1. PICK x, y, z : x = On("create", p) /\ y = On("trunc", p) /\ z = On("put", p)
  OBVIOUS
<1>2. x \in AnyTask /\ y \in AnyTask /\ z \in AnyTask
  BY <1>1 DEF On, Task, AnyTask, AnyDo
<1>3. PICK e, k : e = <<x>> /\ k = <<y, z>>
  OBVIOUS
<1>4. e \in Seq(AnyTask) /\ k \in Seq(AnyTask) /\ k # <<>>
  BY <1>2, <1>3, OneIsSeq, TwoAreSeq
<1>5. PICK t : t = <<x, y, z>>
  OBVIOUS
<1>6. t \in Seq(AnyTask) /\ Len(t) = 3 /\ t[1] = x /\ t[2] = y /\ t[3] = z /\ t # <<>>
  BY <1>2, <1>5
<1>7. e \o k = t
  <2>1. /\ <<x>> \o <<y, z>> \in Seq(AnyTask) /\ Len(<<x>> \o <<y, z>>) = 3
        /\ (<<x>> \o <<y, z>>)[1] = x /\ (<<x>> \o <<y, z>>)[2] = y /\ (<<x>> \o <<y, z>>)[3] = z
    BY <1>2
  <2>2. PICK u : u = <<x>> \o <<y, z>>
    OBVIOUS
  <2>3. u \in Seq(AnyTask) /\ Len(u) = 3 /\ u[1] = t[1] /\ u[2] = t[2] /\ u[3] = t[3]
    BY <1>6, <2>1, <2>2
  <2>4. u = t
    BY <1>6, <2>3, SeqEqual
  <2>5. QED BY <1>3, <2>2, <2>4
<1>8. <<>> \o k = k
  BY <1>4, ConcatEmptySeq
<1>9. Overwrite(p) = t
  BY <1>1, <1>5 DEF Overwrite
<1>10. CASE r = <<>>
  <2>1. (IF r = <<>> THEN <<>> ELSE e) \o k = k
    BY <1>8, <1>10
  <2>2. QED BY <1>1, <1>3, <1>4, <2>1
<1>11. CASE r # <<>>
  <2>1. (IF r = <<>> THEN <<>> ELSE e) \o k = t
    BY <1>7, <1>11
  <2>2. QED BY <1>1, <1>3, <1>6, <1>9, <2>1
<1>12. QED BY <1>10, <1>11

LEMMA SameBacks ==
  ASSUME NEW l, NEW m, m.call = l.call, m.edited = l.edited, m.snap = l.snap, m.scratch = l.scratch
  PROVE  BackTasks(m) = BackTasks(l)
BY DEF BackTasks

LEMMA BackStep ==
  ASSUME NEW a \in Actors, Own(a), Call(a), act[a].call.op \in Checks,
         Edited(a, act[a], before[a]), NEW later \in Seq(BackTasks(act[a])), Once(later),
         act[a].todo = later, \A u \in Seq(Names) : AsItShould(a, tree, act[a], before[a], later, u)
  PROVE  StageAfter(a)
<1> DEFINE l == act[a]
           c == act[a].call
           old == before[a]
           S == BackTasks(act[a])
<1>1. l.todo # <<>> /\ later # <<>> /\ Clear(c) /\ Local(l) /\ ActFits
  BY CallIs DEF Own, Typed
<1>2. PICK x, rest, r : x = Head(later) /\ rest = Tail(later) /\ r = x.s
  OBVIOUS
<1>3. /\ x \in S /\ rest \in Seq(S) /\ Once(rest) /\ Pending(later, r) /\ ~Pending(rest, r)
      /\ \A u : u # r => (Pending(rest, u) <=> Pending(later, u))
  <2> HIDE DEF S
  <2>1. later \in Seq(S)
    BY DEF S
  <2>2. QED BY <1>1, <1>2, <2>1, FirstPending
<1>4. /\ x.do = "back" /\ r \in Seq(Names) /\ x.d = c.src \o r
      /\ r \in l.edited \/ (r \in DOMAIN l.snap /\ l.snap[r] = l.scratch[r])
  BY <1>2, <1>3 DEF BackTasks, AnyTask
<1>5. Back(a) /\ From(a) = r /\ To(a) = c.src \o r /\ c.src \o r \in Seq(Names)
  BY <1>1, <1>2, <1>4, CallIs, GroundBeneath DEF Own, From, To
<1>6. tree' = tree
  BY <1>5 DEF Back
<1> DEFINE same == r \in DOMAIN l.snap /\ l.snap[r] = l.scratch[r]
<1>7. CASE same
  <2>1. Next1(a)
    BY <1>5, <1>7 DEF Back
  <2>2. /\ act'[a].call = c /\ act'[a].todo = rest /\ act'[a].at = l.at
        /\ act'[a].scratch = l.scratch /\ act'[a].snap = l.snap /\ act'[a].edited = l.edited
    BY <1>1, <1>2, <2>1, NextIs
  <2>3. BackTasks(act'[a]) = S
    BY <2>2, SameBacks
  <2>4. Edited(a, act'[a], old)
    BY <2>2 DEF Edited, Snapped
  <2>5. ASSUME NEW u \in Seq(Names) PROVE AsItShould(a, tree', act'[a], old, rest, u)
    <3>1. AsItShould(a, tree, l, old, later, u)
      OBVIOUS
    <3>2. CASE u # r
      BY <1>3, <1>6, <2>2, <3>1, <3>2 DEF AsItShould
    <3>3. CASE u = r
      <4>1. Node(tree, Walk(c.src) \o r) = Node(old, Walk(c.src) \o r)
        BY <1>3, <3>1, <3>3 DEF AsItShould
      <4>2. r \in l.edited => Node(old, Walk(c.src) \o r) = File(<<a>>)
        BY <1>7 DEF Edited, Snapped
      <4>3. QED BY <1>6, <2>2, <3>3, <4>1, <4>2 DEF AsItShould
    <3>4. QED BY <3>2, <3>3
  <2>6. act'[a].call.op \in Checks /\ rest \in Seq(BackTasks(act'[a]))
    BY <1>3, <2>2, <2>3
  <2>7. QED BY <1>3, <2>2, <2>4, <2>5, <2>6, BackDone
<1>8. CASE ~same
  <2> DEFINE w0 == (IF r = <<>> THEN <<>> ELSE <<On("create", c.src \o r)>>)
                     \o <<On("trunc", c.src \o r), On("put", c.src \o r)>>
  <2>1. r \in l.edited /\ l.scratch[r] = <<a>>
    BY <1>4, <1>8 DEF Edited
  <2>2. Goes(a, [l EXCEPT !.buf = l.scratch[r]], w0)
    BY <1>5, <1>8 DEF Back
  <2>3. PICK w : w = w0
    OBVIOUS
  <2>4. /\ w \in {Overwrite(c.src \o r), <<On("trunc", c.src \o r), On("put", c.src \o r)>>}
        /\ w \in Seq(AnyTask) /\ w # <<>>
    BY <1>5, <2>3, BackWrites
  <2> HIDE DEF w0
  <2>5. PICK local : local = [l EXCEPT !.buf = <<a>>] /\ Goes(a, local, w)
    BY <2>1, <2>2, <2>3
  <2>6. /\ Local(local) /\ local.call = c /\ local.buf = <<a>> /\ local.at = l.at
        /\ local.scratch = l.scratch /\ local.snap = l.snap /\ local.edited = l.edited
    BY <1>1, <2>5 DEF Local, Fields
  <2>7. /\ act'[a].call = c /\ act'[a].todo = w \o rest /\ act'[a].buf = <<a>> /\ act'[a].at = l.at
        /\ act'[a].scratch = l.scratch /\ act'[a].snap = l.snap /\ act'[a].edited = l.edited
    <3>1. ActFits /\ Local(local) /\ Goes(a, local, w)
      BY <1>1, <2>5, <2>6
    <3>2. LET m == act'[a] IN
          /\ m.call = local.call /\ m.todo = w \o Tail(act[a].todo) /\ m.buf = local.buf /\ m.at = local.at
          /\ m.scratch = local.scratch /\ m.snap = local.snap /\ m.edited = local.edited
      BY <3>1, RecordAfter
    <3>3. QED BY <1>2, <2>6, <3>2
  <2>8. BackTasks(act'[a]) = S
    BY <2>7, SameBacks
  <2>9. Edited(a, act'[a], old)
    BY <2>7 DEF Edited, Snapped
  <2>10. Writing(tree', act'[a], r, w)
    BY <2>1, <2>4, <2>7 DEF Writing
  <2>11. \A u \in Seq(Names) : u = r \/ AsItShould(a, tree', act'[a], old, rest, u)
    BY <1>3, <1>6, <2>7 DEF AsItShould
  <2>12. act'[a].call.op \in Checks /\ rest \in Seq(BackTasks(act'[a]))
    BY <1>3, <2>7, <2>8
  <2>13. QED BY <1>3, <1>4, <2>4, <2>7, <2>9, <2>10, <2>11, <2>12, BackOn
<1>9. QED BY <1>7, <1>8

\* The file in hand: its create, its truncation and its write.
LEMMA HandStep ==
  ASSUME NEW a \in Actors, Own(a), Call(a), ~Fail(a), act[a].call.op \in Checks,
         Edited(a, act[a], before[a]), NEW later \in Seq(BackTasks(act[a])), Once(later),
         NEW r \in Seq(Names), NEW w \in Seq(AnyTask),
         act[a].todo = w \o later, Writing(tree, act[a], r, w), ~Pending(later, r), act[a].buf = <<a>>,
         \A u \in Seq(Names) : u = r \/ AsItShould(a, tree, act[a], before[a], later, u)
  PROVE  StageAfter(a)
<1> DEFINE l == act[a]
           c == act[a].call
           old == before[a]
           p == act[a].call.src \o r
           q == Walk(act[a].call.src) \o r
           S == BackTasks(act[a])
<1>1. /\ l.todo # <<>> /\ Clear(c) /\ p \in Seq(Names) /\ p # <<>> /\ Walk(p) = q /\ q \in Seq(Names)
      /\ Walk(c.src) \in Seq(Names) /\ l.at = 0 /\ l.buf \in Seq(Chunks)
  BY CallIs, Ground, GroundBeneath DEF Own, Edited, Typed
<1>2. later \in Seq(AnyTask)
  BY SeqMonotonic DEF BackTasks
<1>3. /\ w # <<>> => Head(l.todo) = Head(w) /\ Tail(l.todo) = Tail(w) \o later
      /\ r \in l.edited
  BY <1>2, HeadOfJoin, Zenon DEF Writing
<1>4. ASSUME Next1(a), w # <<>>, Becoming(q, Node(tree', q)) \/ tree' = tree
      PROVE  /\ act'[a].call = c /\ act'[a].todo = Tail(w) \o later /\ act'[a].buf = <<a>>
             /\ act'[a].edited = l.edited /\ act'[a].call.op \in Checks
             /\ Edited(a, act'[a], old) /\ later \in Seq(BackTasks(act'[a]))
             /\ \A u \in Seq(Names) : u = r \/ AsItShould(a, tree', act'[a], old, later, u)
  <2>1. /\ act'[a].call = c /\ act'[a].todo = Tail(w) \o later /\ act'[a].buf = <<a>> /\ act'[a].at = l.at
        /\ act'[a].scratch = l.scratch /\ act'[a].snap = l.snap /\ act'[a].edited = l.edited
    BY <1>1, <1>3, <1>4, NextIs
  <2>2. BackTasks(act'[a]) = S
    BY <2>1, SameBacks
  <2>3. Edited(a, act'[a], old)
    BY <2>1 DEF Edited, Snapped
  <2>4. ASSUME NEW u \in Seq(Names), u # r PROVE AsItShould(a, tree', act'[a], old, later, u)
    <3>1. Walk(c.src) \o u # q
      BY <1>1, <2>4, SameAfter
    <3>2. Node(tree', Walk(c.src) \o u) = Node(tree, Walk(c.src) \o u)
      BY <1>4, <3>1 DEF Becoming
    <3>3. QED BY <2>1, <2>4, <3>2 DEF AsItShould
  <2>5. QED BY <2>1, <2>2, <2>3, <2>4
<1>5. ASSUME Next1(a), w # <<>>, Becoming(q, Node(tree', q)) \/ tree' = tree,
             NEW v \in Seq(AnyTask), v = Tail(w), v # <<>>, Writing(tree', act'[a], r, v)
      PROVE  StageAfter(a)
  BY <1>4, <1>5, BackOn
<1>6. CASE w = Overwrite(p)
  <2>1. w # <<>> /\ Head(w) = On("create", p) /\ Tail(w) = <<On("trunc", p), On("put", p)>>
    BY <1>6, ScriptAt DEF Overwrite
  <2>2. Create(a) /\ To(a) = p
    <3>1. Head(l.todo) = On("create", p)
      BY <1>3, <2>1, Zenon
    <3>2. On("create", p).do = "create" /\ On("create", p).d = p
      BY OnIs
    <3>3. Head(l.todo).do = "create" /\ Head(l.todo).d = p
      BY <3>1, <3>2, Zenon
    <3>4. QED BY <3>3, CallIs DEF To
  <2>3. Next1(a) /\ (tree' = tree \/ Becoming(q, File(<<>>)))
    BY <1>1, <2>2, CreateAt
  <2>4. Becoming(q, Node(tree', q)) \/ tree' = tree
    BY <2>3 DEF Becoming
  <2>5. PICK v : v = <<On("trunc", p), On("put", p)>>
    OBVIOUS
  <2>6. v \in Seq(AnyTask) /\ v = Tail(w) /\ v # <<>>
    BY <2>1, <2>5, ConsOfHead
  <2>7. Writing(tree', act'[a], r, v)
    BY <1>3, <1>4, <2>1, <2>3, <2>4, <2>5 DEF Writing
  <2>8. QED BY <1>5, <2>1, <2>3, <2>4, <2>5, <2>6, <2>7
<1>7. CASE w = <<On("trunc", p), On("put", p)>>
  <2>1. w # <<>> /\ Head(w) = On("trunc", p) /\ Tail(w) = <<On("put", p)>>
    BY <1>7, ScriptAt
  <2>2. Trunc(a) /\ To(a) = p
    <3>1. Head(l.todo) = On("trunc", p)
      BY <1>3, <2>1, Zenon
    <3>2. On("trunc", p).do = "trunc" /\ On("trunc", p).d = p
      BY OnIs
    <3>3. Head(l.todo).do = "trunc" /\ Head(l.todo).d = p
      BY <3>1, <3>2, Zenon
    <3>4. QED BY <3>3, CallIs DEF To
  <2>3. Next1(a) /\ Becoming(q, File(<<>>))
    BY <1>1, <2>2, TruncAt
  <2>4. Becoming(q, Node(tree', q)) \/ tree' = tree
    BY <2>3 DEF Becoming
  <2>5. PICK v : v = <<On("put", p)>>
    OBVIOUS
  <2>6. v \in Seq(AnyTask) /\ v = Tail(w) /\ v # <<>>
    BY <2>1, <2>5, ConsOfHead
  <2>7. Writing(tree', act'[a], r, v)
    BY <1>3, <1>4, <2>1, <2>3, <2>4, <2>5 DEF Writing, Becoming
  <2>8. QED BY <1>5, <2>1, <2>3, <2>4, <2>5, <2>6, <2>7
<1>8. CASE w = <<On("put", p)>> /\ Node(tree, q) = File(<<>>)
  <2>1. w # <<>> /\ Head(w) = On("put", p) /\ Tail(w) = <<>>
    BY <1>8, ScriptAt
  <2>2. Put(a) /\ To(a) = p
    <3>1. Head(l.todo) = On("put", p)
      BY <1>3, <2>1, Zenon
    <3>2. On("put", p).do = "put" /\ On("put", p).d = p
      BY OnIs
    <3>3. Head(l.todo).do = "put" /\ Head(l.todo).d = p
      BY <3>1, <3>2, Zenon
    <3>4. QED BY <3>3, CallIs DEF To
  <2>3. Next1(a) /\ Becoming(q, File(Written(<<>>, l.buf, l.at)))
    BY <1>1, <1>8, <2>2, PutAt
  <2>4. Written(<<>>, l.buf, l.at) = <<a>>
    BY <1>1, WrittenWhole
  <2>5. Becoming(q, Node(tree', q)) /\ Node(tree', q) = File(<<a>>)
    BY <2>3, <2>4 DEF Becoming
  <2>6. /\ act'[a].call = c /\ act'[a].todo = <<>> \o later
        /\ act'[a].edited = l.edited /\ act'[a].call.op \in Checks
        /\ Edited(a, act'[a], old) /\ later \in Seq(BackTasks(act'[a]))
        /\ \A u \in Seq(Names) : u = r \/ AsItShould(a, tree', act'[a], old, later, u)
    BY <1>4, <2>1, <2>3, <2>5
  <2>7. act'[a].todo = later
    BY <1>2, <2>6, ConcatEmptySeq
  <2>8. AsItShould(a, tree', act'[a], old, later, r)
    BY <1>3, <2>5, <2>6 DEF AsItShould
  <2>9. \A u \in Seq(Names) : AsItShould(a, tree', act'[a], old, later, u)
    BY <2>6, <2>8
  <2>10. QED BY <2>6, <2>7, <2>9, BackDone
<1>9. QED BY <1>6, <1>7, <1>8 DEF Writing

LEMMA WritingBackStep ==
  ASSUME NEW a \in Actors, Own(a), Call(a), act[a].call.op \in Checks,
         WritingBack(a, tree, act[a], before[a])
  PROVE  StageAfter(a)
<1>1. CASE Fail(a)
  BY <1>1, ErrorStages DEF Checks
<1>2. CASE ~Fail(a)
  <2>1. Edited(a, act[a], before[a])
    BY DEF WritingBack
  <2>2. PICK later \in Seq(BackTasks(act[a])) :
         /\ Once(later)
         /\ \/ /\ act[a].todo = later
               /\ \A u \in Seq(Names) : AsItShould(a, tree, act[a], before[a], later, u)
            \/ \E r \in Seq(Names), w \in Seq(AnyTask) :
                 /\ act[a].todo = w \o later /\ Writing(tree, act[a], r, w)
                 /\ ~Pending(later, r) /\ act[a].buf = <<a>>
                 /\ \A u \in Seq(Names) : u = r \/ AsItShould(a, tree, act[a], before[a], later, u)
    BY DEF WritingBack
  <2>3. QED BY <1>2, <2>1, <2>2, BackStep, HandStep
<1>3. QED BY <1>1, <1>2

-----------------------------------------------------------------------------
(* Every step leaves a call where it should be.                            *)

LEMMA OwnStage ==
  ASSUME NEW a \in Actors, Own(a), Call(a), Stage(a, tree, act[a], before[a])
  PROVE  StageAfter(a)
<1> DEFINE op == act[a].call.op
<1>1. act[a].todo # <<>>
  BY CallIs
<1>2. CASE op \in Removals
  BY <1>1, <1>2, RemovalStep, SeekingStep DEF Stage
<1>3. CASE op = "mkdir"
  BY <1>1, <1>3, MakingStep DEF Stage
<1>4. CASE op \in Gets \cup {"ls"}
  BY <1>1, <1>4, LookingStep DEF Stage
<1>5. CASE op \in Fills
  BY <1>1, <1>5, FillingStep DEF Stage
<1>6. CASE op = "append"
  BY <1>1, <1>6, AppendingStep DEF Stage
<1>7. CASE op = "find"
  BY <1>1, <1>7, FindingStep DEF Stage
<1>8. CASE op \in Checks
  BY <1>1, <1>8, CheckingOutStep, WritingBackStep DEF Stage
<1>9. CASE op \notin Removals \cup Fills \cup Gets \cup Checks \cup {"mkdir", "append", "find", "ls"}
  <2>1. PICK m : Becomes(a, m)
    BY CallStays DEF Own
  <2>2. act'[a].call = act[a].call
    BY <2>1 DEF Becomes, ActFits, Own
  <2>3. QED BY <1>9, <2>2, StageIf DEF StageAfter
<1>10. QED BY <1>2, <1>3, <1>4, <1>5, <1>6, <1>7, <1>8, <1>9

\* It depends on nothing but what is beneath its source.
LEMMA StageKept ==
  ASSUME FileOpsAssumption, NEW a, NEW t, NEW u, NEW l, NEW old, Clear(l.call), Stage(a, t, l, old),
         SameBeneath(u, Walk(l.call.src), t, Walk(l.call.src))
  PROVE  Stage(a, u, l, old)
<1> DEFINE c == l.call
<1>1. /\ \A r \in Seq(Names) : Node(u, Walk(c.src) \o r) = Node(t, Walk(c.src) \o r)
      /\ <<>> \in Seq(Names) /\ Walk(c.src) \o <<>> = Walk(c.src)
  BY ItsSource DEF SameBeneath
<1>2. Source(u, c) = Source(t, c)
  BY <1>1 DEF Source
<1>3. Intact(t, c, old) => Intact(u, c, old)
  BY <1>1 DEF Intact, SameBeneath
<1>4. Gone(t, c) => Gone(u, c)
  BY <1>1 DEF Gone
<1>5. Done(a, t, l, old) => Done(a, u, l, old)
  <2>1. \A r \in Seq(Names) : IsThere(u, c, r) <=> IsThere(t, c, r)
    BY <1>1 DEF IsThere
  <2>2. QED BY <1>1, <1>2, <1>4, <2>1 DEF Done
<1>6. Looking(t, l, old) => Looking(u, l, old)
  BY <1>3 DEF Looking
<1>7. Filling(a, t, l) => Filling(a, u, l)
  BY <1>2 DEF Filling
<1>8. Appending(a, t, l, old) => Appending(a, u, l, old)
  BY <1>2, <1>3 DEF Appending
<1>9. Finding(t, l, old) => Finding(u, l, old)
  BY <1>3 DEF Finding
<1>10. CheckingOut(t, l, old) => CheckingOut(u, l, old)
  BY <1>3 DEF CheckingOut
<1>11. WritingBack(a, t, l, old) => WritingBack(a, u, l, old)
  <2> SUFFICES ASSUME WritingBack(a, t, l, old) PROVE WritingBack(a, u, l, old)
    OBVIOUS
  <2>1. \A later : \A v \in Seq(Names) : AsItShould(a, t, l, old, later, v) => AsItShould(a, u, l, old, later, v)
    BY <1>1 DEF AsItShould
  <2>2. \A r \in Seq(Names) : \A w : Writing(t, l, r, w) => Writing(u, l, r, w)
    BY <1>1 DEF Writing
  <2>3. PICK later \in Seq(BackTasks(l)) :
         /\ Once(later)
         /\ \/ /\ l.todo = later
               /\ \A v \in Seq(Names) : AsItShould(a, t, l, old, later, v)
            \/ \E r \in Seq(Names), w \in Seq(AnyTask) :
                 /\ l.todo = w \o later /\ Writing(t, l, r, w)
                 /\ ~Pending(later, r) /\ l.buf = <<a>>
                 /\ \A v \in Seq(Names) : v = r \/ AsItShould(a, t, l, old, later, v)
    BY DEF WritingBack
  <2>4. CASE l.todo = later /\ \A v \in Seq(Names) : AsItShould(a, t, l, old, later, v)
    BY <2>1, <2>3, <2>4 DEF WritingBack
  <2>5. CASE \E r \in Seq(Names), w \in Seq(AnyTask) :
                 /\ l.todo = w \o later /\ Writing(t, l, r, w)
                 /\ ~Pending(later, r) /\ l.buf = <<a>>
                 /\ \A v \in Seq(Names) : v = r \/ AsItShould(a, t, l, old, later, v)
    <3>1. PICK r \in Seq(Names), w \in Seq(AnyTask) :
                 /\ l.todo = w \o later /\ Writing(t, l, r, w)
                 /\ ~Pending(later, r) /\ l.buf = <<a>>
                 /\ \A v \in Seq(Names) : v = r \/ AsItShould(a, t, l, old, later, v)
      BY <2>5
    <3>2. /\ l.todo = w \o later /\ Writing(u, l, r, w)
          /\ ~Pending(later, r) /\ l.buf = <<a>>
          /\ \A v \in Seq(Names) : v = r \/ AsItShould(a, u, l, old, later, v)
      BY <2>1, <2>2, <3>1
    <3>3. Edited(a, l, old)
      BY DEF WritingBack
    <3>4. QED BY <2>3, <3>2, <3>3, Zenon DEF WritingBack
  <2>6. QED BY <2>3, <2>4, <2>5
<1>12. QED
  <2>1. l.todo = <<>> /\ l.res = "ok" => Done(a, u, l, old)
    BY <1>5 DEF Stage
  <2>2. QED BY <1>6, <1>7, <1>8, <1>9, <1>10, <1>11, <2>1 DEF Stage

-----------------------------------------------------------------------------
(* A call that begins.                                                     *)

LEMMA RefusalCloses ==
  ASSUME NEW l, NEW dos, "refuse" \in dos, l.todo = Refused
  PROVE  Closing(l, dos)
<1>a. PICK none : none = <<>> /\ none \in Seq(Names)
  BY EmptySeq
<1>b. PICK x : x = Task("refuse", none, none)
  OBVIOUS
<1>c. x \in AnyTask /\ x.do = "refuse"
  BY <1>a, <1>b DEF Task, AnyTask, AnyDo
<1>1. x = Task("refuse", <<>>, <<>>) /\ x \in {y \in AnyTask : y.do \in dos} /\ x.do = "refuse"
  BY <1>a, <1>b, <1>c
<1>2. <<x>> \in Seq({y \in AnyTask : y.do \in dos}) /\ <<x>> # <<>> /\ Last(<<x>>) = x
  BY <1>1, OneIsSeq, LastIs, EmptySeq
<1>3. QED BY <1>1, <1>2 DEF Closing, Refused

LEMMA MkdirCloses ==
  ASSUME NEW l, l.call.src \in Seq(Names), l.call.src # <<>>, l.todo = MkdirScript(l.call.src)
  PROVE  Closing(l, Making)
<1> DEFINE p == l.call.src
           R == {x \in AnyTask : x.do \in Making}
           s == [i \in 1 .. Len(p) |-> On("mkdir", SubSeq(p, 1, i))]
<1>1. Len(p) \in Nat /\ Len(p) # 0
  BY LenProperties, EmptySeq
<1>2. \A i \in 1 .. Len(p) : s[i] \in R
  <2> TAKE i \in 1 .. Len(p)
  <2>1. SubSeq(p, 1, i) \in Seq(Names)
    BY <1>1, SubSeqProperties
  <2>2. On("mkdir", SubSeq(p, 1, i)) \in R
    BY <2>1 DEF On, Task, AnyTask, AnyDo, Making
  <2>3. QED BY <2>2
<1>3. s \in [1 .. Len(p) -> R]
  BY <1>2
<1>4. SubSeq(p, 1, Len(p)) = p
  <2>1. /\ SubSeq(p, 1, Len(p)) \in Seq(Names) /\ Len(SubSeq(p, 1, Len(p))) = Len(p)
        /\ \A i \in 1 .. Len(p) : SubSeq(p, 1, Len(p))[i] = p[i]
    BY <1>1, SubSeqProperties
  <2>2. QED BY <2>1, SeqEqual
<1>5. s[Len(p)] = On("mkdir", p)
  <2>1. Len(p) \in 1 .. Len(p)
    BY <1>1
  <2>2. s[Len(p)] = On("mkdir", SubSeq(p, 1, Len(p)))
    BY <2>1
  <2> HIDE DEF s
  <2>3. QED BY <1>4, <2>2
<1>6. l.todo = s
  BY DEF MkdirScript
<1> HIDE DEF s, R
<1>7. s \in Seq(R) /\ Len(s) = Len(p)
  BY <1>1, <1>3, FunIsSeq
<1>8. s # <<>>
  BY <1>1, <1>7
<1>9. Last(s) = On("mkdir", p)
  BY <1>5, <1>7 DEF Last
<1>10. Last(s).s = p /\ Last(s).d = p
  BY <1>9, OnIs
<1>11. QED BY <1>6, <1>7, <1>8, <1>10 DEF Closing, R

LEMMA FindBegins ==
  ASSUME FileOpsAssumption, NEW l, Clear(l.call), NEW old, l.out = {},
         l.todo = <<On("find", l.call.src)>>
  PROVE  FoundOrListed(l, old)
<1> DEFINE c == l.call
<1>1. PICK x : x = On("find", c.src)
  OBVIOUS
<1>2. c.src \in Seq(Names) /\ <<>> \in Seq(Names) /\ c.src \o <<>> = c.src
  BY Ground, ItsSource
<1>3. x \in FindTasks(c) /\ x.s = c.src
  BY <1>1, <1>2 DEF FindTasks, On, Task, AnyTask, AnyDo
<1>4. <<x>> \in Seq(FindTasks(c)) /\ Len(<<x>>) = 1 /\ <<x>>[1] = x
  BY <1>3, OneIsSeq
<1>5. PICK s : s = <<x>> /\ s \in Seq(FindTasks(c)) /\ Len(s) = 1 /\ s[1] = x /\ l.todo = s
  BY <1>1, <1>4
<1>6. ASSUME NEW u \in Seq(Names), u # <<>> PROVE Heads(c, x, u)
  <2>1. <<>> \o u = u
    BY ConcatEmptySeq
  <2>2. IsPrefix(<<>>, u)
    BY <1>2, <2>1, PrefixOfConcat
  <2>3. QED BY <1>2, <1>3, <1>6, <2>2 DEF Heads
<1>7. \A u \in Seq(Names) : u # <<>> => \E i \in 1 .. Len(s) : Heads(c, s[i], u)
  BY <1>5, <1>6
<1>8. QED BY <1>5, <1>7 DEF FoundOrListed

LEMMA LastOfTwo ==
  ASSUME NEW S, NEW s \in Seq(S), Len(s) = 2
  PROVE  s # <<>> /\ Last(s) = s[2]
BY DEF Last

LEMMA CheckBegins ==
  ASSUME FileOpsAssumption, NEW l, Clear(l.call), NEW old, l.at = 0, l.snap = <<>>, Intact(old, l.call, old),
         NEW do \in {"matdir", "matfile"}, l.todo = <<On(do, l.call.src), On("run", l.call.src)>>
  PROVE  CheckingOut(old, l, old)
<1> DEFINE c == l.call
           T == MatTasks(c)
<1>1. PICK x, y : x = On(do, c.src) /\ y = On("run", c.src)
  OBVIOUS
<1>2. c.src \in Seq(Names) /\ <<>> \in Seq(Names) /\ c.src \o <<>> = c.src
  BY Ground, ItsSource
<1>3. x \in T /\ y \in T /\ y.do = "run"
  BY <1>1, <1>2 DEF MatTasks, On, Task, AnyTask, AnyDo, CheckDo
<1>4. PICK s : s = <<x, y>>
  OBVIOUS
<1> HIDE DEF T
<1>5. s \in Seq(T) /\ Len(s) = 2 /\ s[2] = y
  BY <1>3, <1>4, TwoAreSeq
<1>6. s # <<>> /\ Last(s) = y
  <2>1. s # <<>> /\ Last(s) = s[2]
    BY <1>5, LastOfTwo, Zenon
  <2>2. QED BY <1>5, <2>1
<1>7. Snapped(l, old) /\ DOMAIN l.snap \subseteq Seq(Names)
  BY DEF Snapped
<1>8. QED BY <1>1, <1>3, <1>4, <1>5, <1>6, <1>7 DEF CheckingOut, T

\* With which tasks a call begins.
LEMMA ScriptsAre ==
  ASSUME NEW c, c.src # <<>>
  PROVE  LET s == Script(c)
             p == c.src IN
         /\ c.op = "rm" => s \in {Refused, <<On("remove", p)>>}
         /\ c.op = "unsetenv" => s = UnsetenvScript(p)
         /\ c.op \in {"rmdir", "rmdir_r"} => s \in {Refused, <<On("remove", p)>>, <<On("rmtree", p)>>}
         /\ c.op = "mkdir" => s = MkdirScript(p)
         /\ c.op \in Fills => s = WriteScript(p)
         /\ c.op = "append" => s = AppendScript(p)
         /\ c.op = "getenv" => s = <<On("read", p)>>
         /\ c.op = "cat" => s \in {Refused, <<On("read", p)>>}
         /\ c.op = "find" => s \in {Refused, <<On("find", p)>>}
         /\ c.op = "ls" => s \in {Refused, <<On("ls", p)>>}
         /\ c.op \in Checks => \/ s = Refused
                               \/ \E do \in {"matdir", "matfile"} : s = <<On(do, p), On("run", p)>>
<1> DEFINE s == Script(c)
           p == c.src
<1>1. c.op = "rm" => s = RmScript(p)
  BY DEF Script
<1>2. c.op = "unsetenv" => s = UnsetenvScript(p)
  BY DEF Script
<1>3. c.op = "rmdir" => s = RmdirScript(p, FALSE)
  BY DEF Script
<1>4. c.op = "rmdir_r" => s = RmdirScript(p, TRUE)
  BY DEF Script
<1>5. c.op = "mkdir" => s = MkdirScript(p)
  BY DEF Script
<1>6. c.op \in Fills => s = WriteScript(p)
  BY DEF Script, Fills
<1>7. c.op = "append" => s = AppendScript(p)
  BY DEF Script
<1>8. c.op = "cat" => s = CatScript(p)
  BY DEF Script
<1>13. c.op = "getenv" => s = <<On("read", p)>>
  BY DEF Script, GetenvScript
<1>9. (c.op = "find" => s = FindScript(p)) /\ (c.op = "ls" => s = LsScript(p))
  BY DEF Script
<1>10. c.op \in Checks => s = CheckoutScript(p)
  BY DEF Script, Checks
<1> HIDE DEF s, p
<1>11. /\ RmScript(p) \in {Refused, <<On("remove", p)>>}
       /\ \A b : RmdirScript(p, b) \in {Refused, <<On("remove", p)>>, <<On("rmtree", p)>>}
       /\ CatScript(p) \in {Refused, <<On("read", p)>>}
       /\ FindScript(p) \in {Refused, <<On("find", p)>>} /\ LsScript(p) \in {Refused, <<On("ls", p)>>}
  BY DEF RmScript, RmdirScript, CatScript, FindScript, LsScript
<1>12. \/ CheckoutScript(p) = Refused
       \/ CheckoutScript(p) = <<On("matdir", p), On("run", p)>>
       \/ CheckoutScript(p) = <<On("matfile", p), On("run", p)>>
  BY DEF CheckoutScript
<1>14. c.op = "rm" => s \in {Refused, <<On("remove", p)>>}
  BY <1>1, <1>11
<1>15. c.op \in {"rmdir", "rmdir_r"} => s \in {Refused, <<On("remove", p)>>, <<On("rmtree", p)>>}
  <2>1. c.op \in {"rmdir", "rmdir_r"} => \E b : s = RmdirScript(p, b)
    BY <1>3, <1>4
  <2>2. QED BY <1>11, <2>1
<1>16. c.op = "cat" => s \in {Refused, <<On("read", p)>>}
  BY <1>8, <1>11
<1>17. /\ c.op = "find" => s \in {Refused, <<On("find", p)>>}
       /\ c.op = "ls" => s \in {Refused, <<On("ls", p)>>}
  BY <1>9, <1>11
<1>18. c.op \in Checks => \/ s = Refused
                          \/ \E do \in {"matdir", "matfile"} : s = <<On(do, p), On("run", p)>>
  BY <1>10, <1>12
<1>19. QED BY <1>2, <1>5, <1>6, <1>7, <1>13, <1>14, <1>15, <1>16, <1>17, <1>18, Zenon DEF s, p

LEMMA BeginStage ==
  ASSUME FileOpsAssumption, ActFits, AllTyped, NEW a \in Actors, NEW c \in Calls[a], Begin(a, c),
         Clear(Resolved(c))
  PROVE  Stage(a, tree', act'[a], tree)
<1> DEFINE k == Resolved(c)
           m == [Idle EXCEPT !.call = k, !.todo = Script(c), !.buf = <<a>>]
<1>1. act' = [act EXCEPT ![a] = m] /\ tree' = tree
  BY DEF Begin
<1>2. /\ m.call = k /\ m.todo = Script(c) /\ m.buf = <<a>> /\ m.at = 0 /\ m.out = {} /\ m.snap = <<>>
      /\ m.res = "none"
  BY <1>1 DEF Idle
<1>3. act'[a] = m
  BY <1>1 DEF ActFits
<1> HIDE DEF m
<1>4. SUFFICES Stage(a, tree, m, tree)
  BY <1>1, <1>3
<1>5. k.op = c.op
  BY DEF Resolved, FileOpsAssumption
<1>6. Intact(tree, k, tree)
  BY DEF Intact, SameBeneath
<1>7. CASE c.op \notin Removals \cup Fills \cup Gets \cup Checks \cup {"mkdir", "append", "find", "ls"}
  BY <1>2, <1>5, <1>7, StageIf
<1>8. CASE c.op \in Removals \cup Fills \cup Gets \cup Checks \cup {"mkdir", "append", "find", "ls"}
  <2>1. m.call = c /\ Clear(c) /\ Intact(tree, c, tree)
    BY <1>2, <1>6, <1>8 DEF Resolved, Removals, Fills, Gets, Checks
  <2> DEFINE p == c.src
  <2>2. p \in Seq(Names) /\ p # <<>> /\ m.call.src = p
    BY <2>1, Ground
  <2>3. CASE c.op \in Removals
    <3>1. m.todo \in {Refused, <<On("remove", p)>>, <<On("rmtree", p)>>} \/ Seeking(m)
      BY <1>2, <2>1, <2>2, <2>3, ScriptsAre DEF Removals, Seeking
    <3>2. /\ "refuse" \in Emptying /\ "remove" \in Emptying \cap AnyDo /\ "rmtree" \in Emptying \cap AnyDo
      BY DEF Emptying, AnyDo
    <3>3. Closing(m, Emptying) \/ Seeking(m)
      BY <2>2, <3>1, <3>2, OneCloses, RefusalCloses
    <3>4. QED BY <1>2, <2>1, <2>3, <3>3, StageIf
  <2>4. CASE c.op = "mkdir"
    <3>1. Closing(m, Making)
      BY <1>2, <2>2, <2>4, ScriptsAre, MkdirCloses
    <3>2. QED BY <1>2, <2>1, <2>4, <3>1, StageIf
  <2>5. CASE c.op \in Gets
    <3>1. /\ m.todo = <<On("read", p)>> \/ (m.todo = Refused /\ c.op # "getenv")
          /\ c.op # "ls"
      BY <1>2, <2>2, <2>5, ScriptsAre DEF Gets
    <3>2. Looking(tree, m, tree)
      BY <2>1, <3>1 DEF Looking
    <3>3. QED BY <1>2, <2>1, <2>5, <3>2, StageIf
  <2>6. CASE c.op = "ls"
    <3>1. m.todo \in {Refused, <<On("ls", p)>>}
      BY <1>2, <2>2, <2>6, ScriptsAre
    <3>2. Looking(tree, m, tree)
      BY <2>1, <2>6, <3>1 DEF Looking
    <3>3. QED BY <1>2, <2>1, <2>6, <3>2, StageIf
  <2>7. CASE c.op \in Fills
    <3>1. Filling(a, tree, m)
      BY <1>2, <2>1, <2>2, <2>7, ScriptsAre DEF Filling
    <3>2. QED BY <1>2, <2>1, <2>7, <3>1, StageIf
  <2>8. CASE c.op = "append"
    <3>1. Appending(a, tree, m, tree)
      BY <1>2, <2>1, <2>2, <2>8, ScriptsAre DEF Appending
    <3>2. QED BY <1>2, <2>1, <2>8, <3>1, StageIf
  <2>9. CASE c.op = "find"
    <3>1. m.todo = Refused \/ m.todo = <<On("find", m.call.src)>>
      BY <1>2, <2>2, <2>9, ScriptsAre
    <3>2. Finding(tree, m, tree)
      BY <1>2, <2>1, <3>1, FindBegins DEF Finding
    <3>3. QED BY <1>2, <2>1, <2>9, <3>2, StageIf
  <2>10. CASE c.op \in Checks
    <3>1. \/ m.todo = Refused
          \/ \E do \in {"matdir", "matfile"} : m.todo = <<On(do, m.call.src), On("run", m.call.src)>>
      BY <1>2, <2>2, <2>10, ScriptsAre
    <3>2. CheckingOut(tree, m, tree)
      BY <1>2, <2>1, <3>1, CheckBegins DEF CheckingOut
    <3>3. QED BY <1>2, <2>1, <2>10, <3>2, StageIf
  <2>11. QED BY <1>8, <2>3, <2>4, <2>5, <2>6, <2>7, <2>8, <2>9, <2>10
<1>9. QED BY <1>7, <1>8

LEMMA StagesInit == FileOpsAssumption /\ Init => Stages
<1> SUFFICES ASSUME FileOpsAssumption, Init, NEW a \in Actors PROVE ~Clear(act[a].call)
  BY DEF Stages
<1>1. act[a].call.src = <<>>
  BY DEF Init, Idle
<1>2. QED BY <1>1, Ground

LEMMA OthersKeepStage ==
  ASSUME FileOpsAssumption, NEW a \in Actors, NEW b \in Actors, b # a, Meddle(b), ~meddled'[a],
         act'[a] = act[a], before'[a] = before[a], Clear(act[a].call),
         Stage(a, tree, act[a], before[a])
  PROVE  Stage(a, tree', act'[a], before'[a])
<1> DEFINE c == act[a].call
<1>1. Walk(c.src) \in Seq(Names) /\ Walk(c.src) # <<>>
  BY Ground
<1>2. SameBeneath(tree', Walk(c.src), tree, Walk(c.src))
  BY <1>1, OthersKeep DEF SameBeneath
<1>3. Stage(a, tree', act[a], before[a])
  BY <1>2, StageKept
<1>4. QED BY <1>3

LEMMA StagesNext ==
  ASSUME FileOpsAssumption, ActFits, AllTyped, Stages, [Next]_vars
  PROVE  Stages'
<1>1. CASE UNCHANGED vars
  BY <1>1 DEF vars, Stages
<1>2. CASE Next
  <2>1. PICK b \in Actors : Step(b)
    BY <1>2 DEF Next
  <2>2. Meddle(b)
    BY <2>1 DEF Step
  <2>3. SUFFICES ASSUME NEW a \in Actors, Clear(act'[a].call), ~meddled'[a], act'[a].todo # <<>>
                 PROVE  Stage(a, tree', act'[a], before'[a])
    BY DEF Stages
  <2>4. CASE a # b
    <3>1. act'[a] = act[a] /\ before'[a] = before[a]
      BY <2>1, <2>4, OthersStay
    <3>2. ~meddled[a]
      BY <2>2, <2>3, <2>4 DEF Meddle
    <3>3. Stage(a, tree, act[a], before[a]) /\ Clear(act[a].call)
      BY <2>3, <3>1, <3>2 DEF Stages
    <3>4. QED BY <2>2, <2>3, <2>4, <3>1, <3>3, OthersKeepStage
  <2>5. CASE a = b /\ \E c \in Calls[a] : Begin(a, c)
    <3>1. PICK c \in Calls[a] : Begin(a, c)
      BY <2>5
    <3>2. act'[a].call = Resolved(c)
      <4>1. act' = [act EXCEPT ![a] = [Idle EXCEPT !.call = Resolved(c), !.todo = Script(c), !.buf = <<a>>]]
        BY <3>1 DEF Begin
      <4>2. QED BY <4>1 DEF ActFits, Idle
    <3>3. before'[a] = tree
      BY <3>1 DEF Begin, AllTyped
    <3>4. Stage(a, tree', act'[a], tree)
      BY <2>3, <3>1, <3>2, BeginStage
    <3>5. QED BY <3>3, <3>4
  <2>6. ASSUME a = b, act[a].todo # <<>>, act'[a].call = act[a].call, UNCHANGED before
        PROVE  Own(a) /\ Stage(a, tree, act[a], before[a])
    <3>1. ~meddled[a]
      BY <2>2, <2>3, <2>6 DEF Meddle
    <3>2. Stage(a, tree, act[a], before[a])
      BY <2>3, <2>6, <3>1 DEF Stages
    <3>3. QED BY <2>3, <2>6, <3>2 DEF Own, AllTyped
  <2>7. CASE a = b /\ Call(a) /\ UNCHANGED before
    <3>1. act'[a].call = act[a].call /\ act[a].todo # <<>>
      <4>1. PICK m : Becomes(a, m)
        BY <2>7, CallStays
      <4>2. act'[a].call = act[a].call
        BY <4>1 DEF Becomes, ActFits
      <4>3. QED BY <2>7, <4>2, CallIs
    <3>2. StageAfter(a)
      BY <2>6, <2>7, <3>1, OwnStage
    <3>3. QED BY <2>7, <3>2 DEF StageAfter
  <2>8. CASE a = b /\ Breaks(a) /\ UNCHANGED before
    <3>1. act'[a].todo = <<>>
      BY <2>8, FailedIs DEF Breaks, AllTyped
    <3>2. QED BY <2>3, <3>1
  <2>9. QED BY <2>1, <2>4, <2>5, <2>7, <2>8 DEF Step
<1>3. QED BY <1>1, <1>2

-----------------------------------------------------------------------------
(* What is promised, node by node.                                         *)

\* A node of a tree that lies at s or beneath it.
LEMMA BelowIt ==
  ASSUME NEW u, WellFormed(u), NEW s \in Seq(Names), NEW q \in DOMAIN u, IsWithin(q, s)
  PROVE  /\ q \in Seq(Names) /\ Below(q, s) \in Seq(Names) /\ q = s \o Below(q, s)
         /\ Node(u, q) = u[q] /\ Node(u, q).kind # "absent"
<1>1. q \in Seq(Names) /\ q # <<>>
  BY PathsAre DEF WellFormed
<1>2. Node(u, q) = u[q]
  BY <1>1 DEF Node
<1>3. Node(u, q).kind # "absent"
  BY <1>1, NodesOf
<1>4. Below(q, s) \in Seq(Names) /\ q = s \o Below(q, s)
  BY <1>1, PrefixSplits DEF IsWithin
<1>5. QED BY <1>1, <1>2, <1>3, <1>4

LEMMA ThereIsOne ==
  ASSUME NEW u, NEW s \in Seq(Names), s # <<>>, NEW r \in Seq(Names), Node(u, s \o r).kind # "absent"
  PROVE  /\ s \o r \in DOMAIN u /\ u[s \o r] = Node(u, s \o r)
         /\ IsWithin(s \o r, s) /\ Below(s \o r, s) = r
<1>1. s \o r # <<>>
  BY ConcatEqualIffEmpty
<1>2. s \o r \in DOMAIN u /\ u[s \o r] = Node(u, s \o r)
  BY <1>1 DEF Node, Absent
<1>3. QED BY <1>2, PrefixOfConcat DEF IsWithin

LEMMA PromiseOf ==
  ASSUME FileOpsAssumption, NEW a \in Actors, NEW t, NEW l, l.call = act[a].call, Clear(l.call),
         WellFormed(t), WellFormed(before[a]),
         l.call.op \in {"mv", "cp"} => Transferred(t, l.call, before[a]),
         Done(a, t, l, before[a])
  PROVE  Promise(a, l.call, before[a], t, l)
<1> DEFINE c == l.call
           old == before[a]
           s == Walk(c.src)
           Below0(u) == {q \in DOMAIN u : IsWithin(q, s)}
           Found == {Walk(p) : p \in l.out}
<1>1. c.src \in Seq(Names) /\ s \in Seq(Names) /\ s # <<>> /\ <<>> \in Seq(Names) /\ s \o <<>> = s
  BY Ground, ItsSource
<1>2. ASSUME NEW q \in Below0(old)
      PROVE  /\ q \in Seq(Names) /\ Below(q, s) \in Seq(Names) /\ q = s \o Below(q, s)
             /\ Node(old, q) = old[q] /\ IsThere(old, c, Below(q, s))
             /\ Image(a, q) = Walk(c.dst) \o Below(q, s)
  <2>1. q \in DOMAIN old /\ IsWithin(q, s) /\ WellFormed(old)
    OBVIOUS
  <2>2. /\ q \in Seq(Names) /\ Below(q, s) \in Seq(Names) /\ q = s \o Below(q, s)
        /\ Node(old, q) = old[q] /\ Node(old, q).kind # "absent"
    BY <1>1, <2>1, BelowIt
  <2>3. Image(a, q) = Walk(c.dst) \o Below(q, s)
    BY DEF Image
  <2>4. QED BY <2>2, <2>3 DEF IsThere
<1>3. ASSUME NEW q \in Below0(t)
      PROVE  /\ q \in Seq(Names) /\ Below(q, s) \in Seq(Names) /\ q = s \o Below(q, s)
             /\ Node(t, q) = t[q] /\ IsThere(t, c, Below(q, s))
  <2>1. q \in DOMAIN t /\ IsWithin(q, s)
    OBVIOUS
  <2>2. /\ q \in Seq(Names) /\ Below(q, s) \in Seq(Names) /\ q = s \o Below(q, s)
        /\ Node(t, q) = t[q] /\ Node(t, q).kind # "absent"
    BY <1>1, <2>1, BelowIt
  <2>3. QED BY <2>2 DEF IsThere
<1>4. ASSUME NEW r \in Seq(Names), IsThere(old, c, r)
      PROVE  /\ s \o r \in Below0(old) /\ old[s \o r] = Node(old, s \o r) /\ Below(s \o r, s) = r
             /\ Walk(c.src \o r) = s \o r
  <2>1. Node(old, s \o r).kind # "absent"
    BY <1>4 DEF IsThere
  <2>2. /\ s \o r \in DOMAIN old /\ old[s \o r] = Node(old, s \o r)
        /\ IsWithin(s \o r, s) /\ Below(s \o r, s) = r
    BY <1>1, <2>1, ThereIsOne
  <2>3. Walk(c.src \o r) = s \o r
    BY GroundBeneath
  <2>4. QED BY <2>2, <2>3
<1>5. Source(t, c).kind # "absent" => t[s] = Source(t, c)
  BY <1>1 DEF Source, Node, Absent
<1>6. Source(old, c).kind # "absent" => old[s] = Source(old, c)
  BY <1>1 DEF Source, Node, Absent
<1>7. Gone(t, c) => Below0(t) = {}
  BY <1>3 DEF Gone, IsThere, Absent
<1>8. CASE c.op = "mv"
  <2>1. Brought(t, c, old) /\ Gone(t, c)
    BY <1>8 DEF Transferred
  <2>2. ASSUME NEW q \in FilesBelow(a, c.src) PROVE Node(t, Image(a, q)) = old[q]
    <3>1. q \in Below0(old)
      BY DEF FilesBelow
    <3>2. QED BY <1>2, <2>1, <3>1 DEF Brought, Arrived
  <2>3. QED BY <1>7, <1>8, <2>1, <2>2 DEF Promise
<1>9. CASE c.op = "cp"
  <2>1. Brought(t, c, old) /\ Intact(t, c, old)
    BY <1>9 DEF Transferred
  <2>2. ASSUME NEW q \in Below0(old) PROVE t[q] = old[q] /\ Node(t, Image(a, q)) = old[q]
    <3>1. Node(t, q) = old[q]
      BY <1>2, <2>1 DEF Intact, SameBeneath
    <3>2. Node(t, s \o Below(q, s)).kind # "absent"
      BY <1>2, <3>1 DEF IsThere
    <3>3. t[q] = Node(t, q)
      <4>1. t[s \o Below(q, s)] = Node(t, s \o Below(q, s))
        BY <1>1, <1>2, <3>2, ThereIsOne
      <4>2. QED BY <1>2, <4>1
    <3>4. Node(t, Image(a, q)) = old[q]
      BY <1>2, <2>1 DEF Brought, Arrived
    <3>5. QED BY <3>1, <3>3, <3>4
  <2>3. QED BY <1>9, <2>2 DEF Promise
<1>10. CASE c.op \in Removals
  <2>1. Below0(t) = {}
    BY <1>7, <1>10 DEF Done
  <2>2. QED BY <1>10, <2>1 DEF Promise, Removals
<1>11. CASE c.op = "mkdir"
  <2>1. t[s] = Dir
    BY <1>5, <1>11 DEF Done, Dir, Removals, Fills, Gets, Checks
  <2>2. QED BY <1>11, <2>1 DEF Promise
<1>12. CASE c.op \in Fills
  <2>1. t[s] = File(<<a>>)
    BY <1>5, <1>12 DEF Done, File
  <2>2. QED BY <1>12, <2>1 DEF Promise, Fills
<1>13. CASE c.op = "append"
  <2>1. t[s] = File(Node(old, s).data \o <<a>>)
    BY <1>5, <1>13 DEF Done, File, Source
  <2>2. QED BY <1>13, <2>1 DEF Promise
<1>14. CASE c.op \in Gets
  <2>1. c.op = "cat" => old[s] = File(l.buf)
    BY <1>6 DEF Done, File
  <2>2. c.op = "getenv" => l.buf = Node(old, s).data
    BY DEF Done, Source
  <2>3. QED BY <1>14, <2>1, <2>2 DEF Promise, Gets
<1>15. CASE c.op = "find"
  <2>1. l.out = Descendants(old, c)
    BY <1>15 DEF Done
  <2>2. Found \subseteq Below0(old) \ {s}
    <3> SUFFICES ASSUME NEW p \in l.out PROVE Walk(p) \in Below0(old) \ {s}
      OBVIOUS
    <3>1. PICK r \in Seq(Names) : p = c.src \o r /\ r # <<>> /\ IsThere(old, c, r)
      BY <2>1 DEF Descendants
    <3>2. Walk(p) = s \o r /\ s \o r \in Below0(old)
      BY <1>4, <3>1
    <3>3. s \o r # s
      BY <1>1, <3>1, SameAfter
    <3>4. QED BY <3>2, <3>3
  <2>3. Below0(old) \ {s} \subseteq Found
    <3> SUFFICES ASSUME NEW q \in Below0(old), q # s PROVE q \in Found
      OBVIOUS
    <3>1. PICK r \in Seq(Names) : r = Below(q, s) /\ q = s \o r /\ IsThere(old, c, r)
      BY <1>2
    <3>2. r # <<>>
      BY <1>1, <3>1
    <3>3. c.src \o r \in l.out
      BY <2>1, <3>1, <3>2 DEF Descendants
    <3>4. Walk(c.src \o r) = q
      BY <1>4, <3>1
    <3>5. QED BY <3>3, <3>4
  <2>4. Found = Below0(old) \ {s}
    BY <2>2, <2>3
  <2>5. QED BY <1>15, <2>4 DEF Promise
<1>16. CASE c.op = "ls"
  <2> DEFINE Entry == {q \in Below0(old) : Len(q) = Len(s) + 1}
  <2>1. l.out = Children(old, c)
    BY <1>16 DEF Done
  <2>2. Found \subseteq Entry
    <3> SUFFICES ASSUME NEW p \in l.out PROVE Walk(p) \in Entry
      OBVIOUS
    <3>1. PICK n \in Names : p = c.src \o <<n>> /\ IsThere(old, c, <<n>>)
      BY <2>1 DEF Children
    <3>2. <<n>> \in Seq(Names) /\ Len(<<n>>) = 1
      BY OneIsSeq
    <3>3. Walk(p) = s \o <<n>> /\ s \o <<n>> \in Below0(old)
      BY <1>4, <3>1, <3>2
    <3>4. Len(s \o <<n>>) = Len(s) + 1
      BY <1>1, <3>2, ConcatProperties
    <3>5. QED BY <3>3, <3>4
  <2>3. Entry \subseteq Found
    <3> SUFFICES ASSUME NEW q \in Below0(old), Len(q) = Len(s) + 1 PROVE q \in Found
      OBVIOUS
    <3>1. PICK r \in Seq(Names) : q = s \o r /\ IsThere(old, c, r)
      BY <1>2
    <3>2. Len(q) = Len(s) + Len(r) /\ Len(s) \in Nat /\ Len(r) \in Nat
      BY <1>1, <3>1, ConcatProperties, LenProperties
    <3>3. Len(r) = 1
      <4>1. PICK i, j, k : i = Len(q) /\ j = Len(s) /\ k = Len(r)
        OBVIOUS
      <4>2. i = j + 1 /\ i = j + k /\ j \in Nat /\ k \in Nat
        BY <3>2, <4>1
      <4>3. QED BY <4>1, <4>2
    <3>4. PICK n \in Names : r = <<n>>
      <4>1. r[1] \in Names
        BY <3>3, ElementOfSeq
      <4>2. <<r[1]>> \in Seq(Names) /\ Len(<<r[1]>>) = 1 /\ <<r[1]>>[1] = r[1]
        BY <4>1, OneIsSeq
      <4>3. PICK e : e = <<r[1]>>
        OBVIOUS
      <4>4. r = e
        BY <3>3, <4>2, <4>3, SeqEqual
      <4>5. QED BY <4>1, <4>3, <4>4
    <3>5. c.src \o r \in l.out
      BY <2>1, <3>1, <3>4 DEF Children
    <3>6. Walk(c.src \o r) = q
      BY <1>4, <3>1
    <3>7. QED BY <3>5, <3>6
  <2>4. Found = Entry
    BY <2>2, <2>3
  <2>5. QED BY <1>16, <2>4 DEF Promise
<1>17. CASE c.op \in Checks
  <2>1. \A r \in Seq(Names) :
          IsThere(t, c, r) => Node(t, s \o r) = IF r \in l.edited THEN File(<<a>>) ELSE Node(old, s \o r)
    BY <1>17 DEF Done
  <2>2. ASSUME NEW q \in Below0(t)
        PROVE  t[q] = IF Below(q, s) \in l.edited THEN File(<<a>>) ELSE old[q]
    <3>1. PICK r \in Seq(Names) : r = Below(q, s) /\ q = s \o r /\ Node(t, q) = t[q] /\ IsThere(t, c, r)
      BY <1>3
    <3>2. t[q] = IF r \in l.edited THEN File(<<a>>) ELSE Node(old, q)
      BY <2>1, <3>1
    <3>3. r \notin l.edited => IsThere(old, c, r)
      BY <3>1, <3>2 DEF IsThere
    <3>4. r \notin l.edited => Node(old, q) = old[q]
      BY <1>4, <3>1, <3>3
    <3>5. QED BY <3>1, <3>2, <3>4
  <2>3. QED BY <1>17, <2>2 DEF Promise, Checks
<1>18. CASE c.op \notin Removals \cup Fills \cup Gets \cup Checks \cup {"mv", "cp", "mkdir", "append", "find", "ls"}
  BY <1>18 DEF Promise, Removals, Fills, Gets, Checks
<1>19. QED BY <1>8, <1>9, <1>10, <1>11, <1>12, <1>13, <1>14, <1>15, <1>16, <1>17, <1>18

\* A call says that it is done at its last step.
LEMMA EffectNext ==
  ASSUME FileOpsAssumption, ActFits, AllTyped, AllTyped', Moves', Stages, [Next]_vars,
         NEW a \in Actors, act[a].res = "none", act'[a].res = "ok",
         ~meddled[a], ~Aliased(a), ~Unnoticed(a)
  PROVE  Promise(a, act[a].call, before[a], tree', act'[a])
<1>1. PICK b \in Actors : Step(b)
  BY DEF Next, vars
<1>2. a = b
  BY <1>1, OthersStay
<1>3. ~(\E c \in Calls[a] : Begin(a, c))
  <2> SUFFICES ASSUME NEW c \in Calls[a], Begin(a, c) PROVE FALSE
    OBVIOUS
  <2>1. act' = [act EXCEPT ![a] = [Idle EXCEPT !.call = Resolved(c), !.todo = Script(c), !.buf = <<a>>]]
    BY DEF Begin
  <2>2. QED BY <2>1 DEF ActFits, Idle
<1>4. ~Breaks(a)
  <2> SUFFICES ASSUME Breaks(a) PROVE FALSE
    OBVIOUS
  <2>1. Fail(a) /\ ~Forgives(a)
    BY DEF Breaks, Unnoticed
  <2>2. QED BY <2>1, FailedIs DEF AllTyped
<1>5. Call(a) /\ UNCHANGED before /\ Meddle(a)
  BY <1>1, <1>2, <1>3, <1>4 DEF Step
<1>6. act'[a].call = act[a].call /\ act'[a].todo = <<>> /\ act[a].todo # <<>>
  <2>1. PICK m : Becomes(a, m)
    BY <1>5, CallStays
  <2>2. act'[a].call = act[a].call /\ (act'[a].res = "ok" => act'[a].todo = <<>>)
    BY <2>1 DEF Becomes, ActFits
  <2>3. QED BY <1>5, <2>2, CallIs
<1> DEFINE c == act'[a].call
<1>7. Clear(c)
  BY <1>6 DEF Aliased, IsWithin, Clear, AllTyped, Typed
<1>8. ~meddled'[a]
  BY <1>5, <1>6 DEF Meddle
<1>9. Done(a, tree', act'[a], before[a])
  <2>1. Own(a)
    BY <1>6, <1>7 DEF Own, AllTyped
  <2>2. Stage(a, tree, act[a], before[a])
    BY <1>6, <1>7 DEF Stages
  <2>3. StageAfter(a)
    BY <1>5, <2>1, <2>2, OwnStage
  <2>4. QED BY <1>6, <2>3 DEF Stage, StageAfter
<1>10. c.op \in {"mv", "cp"} => Transferred(tree', c, before[a])
  <2> SUFFICES ASSUME c.op \in {"mv", "cp"} PROVE Transferred(tree', c, before[a])
    OBVIOUS
  <2>1. Plain(c)
    BY <1>7 DEF Clear, Plain
  <2>2. Phase(tree', act'[a], before[a])
    BY <1>5, <1>8, <2>1 DEF Moves
  <2>3. QED BY <1>6, <2>1, <2>2, PhaseDone
<1>11. WellFormed(tree') /\ WellFormed(before[a])
  BY DEF AllTyped
<1>12. Promise(a, c, before[a], tree', act'[a])
  <2>1. PICK l, t : l = act'[a] /\ t = tree'
    OBVIOUS
  <2>2. Promise(a, l.call, before[a], t, l)
    BY <1>6, <1>7, <1>9, <1>10, <1>11, <2>1, PromiseOf
  <2>3. QED BY <2>1, <2>2
<1>13. QED BY <1>6, <1>12

\* A call that returns without an error has had its whole effect, whatever its steps were
\* and wherever those of other actors came between them, if none of them changed what it
\* is about, no second name is involved, and it is no getenv or unsetenv that has taken a
\* failing 9P call for a variable that is not set.
THEOREM CallsTakeEffect == Spec => WholeEffect
<1>1. Init => Moves /\ Stages
  BY MovesInit, StagesInit, FileOpsAssumption
<1>2. ActFits /\ AllTyped /\ Moves /\ Stages /\ [Next]_vars => Moves' /\ Stages'
  BY MovesNext, StagesNext, FileOpsAssumption
<1>3. ActFits /\ AllTyped /\ AllTyped' /\ Moves' /\ Stages /\ [Next]_vars
        => [\A a \in Actors :
              act[a].res = "none" /\ act'[a].res = "ok" /\ ~meddled[a] /\ ~Aliased(a) /\ ~Unnoticed(a) =>
                Promise(a, act[a].call, before[a], tree', act'[a])]_vars
  BY EffectNext, FileOpsAssumption
<1>4. QED BY <1>1, <1>2, <1>3, AlwaysTyped, PTL DEF Spec, WholeEffect

===============================================================================
