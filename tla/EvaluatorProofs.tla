-------------------------- MODULE EvaluatorProofs ---------------------------
(***************************************************************************)
(* What one step of a thread does to its stack and to the fields of the    *)
(* roots, for every program: the lemmas that the proof of PutBack rests on. *)
(*                                                                         *)
(* A frame is named by its height from the bottom of its stack, which no   *)
(* push or pop above it changes.  A step opens at most one frame of a call, *)
(* a source or an in_ns block, or closes the one on top, or unwinds to a   *)
(* lower one and undoes what it drops (Opened, Closed, Moved); the depth,  *)
(* the source depth and the namespace of a root move with it (Balance).    *)
(* That needs the stack to be shaped as the code leaves it: the frames of a *)
(* block have the scope of a program or of a call below them, and whatever *)
(* is a function names the root it was made in (Shapes).  Stepped says it  *)
(* all of one step; each kind of frame and of node has its lemma.          *)
(***************************************************************************)
EXTENDS Evaluator, FiniteSetTheorems, SequenceTheorems, WellFoundedInduction, TLAPS

-----------------------------------------------------------------------------
(* Stacks, from the bottom up.                                             *)

IsStack(s) == s \in Seq({s[i] : i \in DOMAIN s})

\* The frame at height h from the bottom.
FrameAt(s, h) == s[Len(s) - h + 1]

\* new is the stack s with one more frame.
OneMore(new, f, s) ==
  /\ IsStack(new) /\ new # <<>> /\ Len(s) \in Nat /\ Len(new) = Len(s) + 1
  /\ Head(new) = f /\ Tail(new) = s /\ FrameAt(new, Len(new)) = f
  /\ \A h \in 1 .. Len(s) : FrameAt(new, h) = FrameAt(s, h)

LEMMA OneIsSeq ==
  ASSUME NEW S, NEW t \in S
  PROVE  <<t>> \in Seq(S) /\ Len(<<t>>) = 1 /\ <<t>>[1] = t
  OBVIOUS

LEMMA SeqIsStack ==
  ASSUME NEW S, NEW s \in Seq(S)
  PROVE  IsStack(s) /\ Len(s) \in Nat /\ DOMAIN s = 1 .. Len(s)
<1>1. Len(s) \in Nat /\ DOMAIN s = 1 .. Len(s) /\ s \in [1 .. Len(s) -> S]
  BY LenProperties
<1>2. s \in [1 .. Len(s) -> {s[i] : i \in DOMAIN s}]
  BY <1>1
<1>3. \A T : \A n \in Nat : \A f \in [1 .. n -> T] : f \in Seq(T)
  OBVIOUS
<1>4. QED BY <1>1, <1>2, <1>3 DEF IsStack

LEMMA StackIs ==
  ASSUME NEW s, IsStack(s)
  PROVE  /\ Len(s) \in Nat /\ DOMAIN s = 1 .. Len(s) /\ (s # <<>> => Len(s) > 0)
         /\ \E S : s \in Seq(S)
<1> DEFINE S == {s[i] : i \in DOMAIN s}
<1>1. s \in Seq(S)
  BY DEF IsStack
<1> HIDE DEF S
<1>2. QED BY <1>1, LenProperties, EmptySeq

LEMMA Pushed ==
  ASSUME NEW s, IsStack(s), NEW f
  PROVE  OneMore(<<f>> \o s, f, s)
<1>1. PICK T : s \in Seq(T)
  BY StackIs
<1> DEFINE S == T \cup {f}
<1>2. s \in Seq(S)
  BY <1>1, SeqMonotonic
<1>3. f \in S
  OBVIOUS
<1> HIDE DEF S
<1>4. <<f>> \in Seq(S) /\ Len(<<f>>) = 1 /\ <<f>>[1] = f
  BY <1>3, OneIsSeq
<1>5. /\ <<f>> \o s \in Seq(S) /\ Len(<<f>> \o s) = 1 + Len(s) /\ Len(s) \in Nat
      /\ \A i \in 1 .. 1 + Len(s) : (<<f>> \o s)[i] = IF i <= 1 THEN <<f>>[i] ELSE s[i - 1]
  BY <1>2, <1>4, ConcatProperties, LenProperties
<1>6. PICK u : u = <<f>> \o s
  OBVIOUS
<1>7. /\ u \in Seq(S) /\ Len(u) = 1 + Len(s) /\ u[1] = f
      /\ \A i \in 1 .. Len(s) : u[i + 1] = s[i]
  BY <1>4, <1>5, <1>6
<1>8. u # <<>>
  BY <1>5, <1>7, EmptySeq
<1>9. Head(u) = f
  BY <1>7, <1>8
<1>10. /\ Tail(u) \in Seq(S) /\ Len(Tail(u)) = Len(s) /\ \A i \in 1 .. Len(s) : Tail(u)[i] = s[i]
  <2>1. /\ Tail(u) \in Seq(S) /\ Len(Tail(u)) = Len(u) - 1
        /\ \A i \in 1 .. Len(Tail(u)) : Tail(u)[i] = u[i + 1]
    BY <1>7, <1>8, HeadTailProperties
  <2>2. QED BY <1>5, <1>7, <2>1
<1>11. Tail(u) = s
  BY <1>2, <1>10, SeqEqual
<1>12. FrameAt(u, Len(u)) = f
  BY <1>5, <1>7 DEF FrameAt
<1>13. ASSUME NEW h \in 1 .. Len(s) PROVE FrameAt(u, h) = FrameAt(s, h)
  <2>1. Len(s) - h + 1 \in 1 .. Len(s) /\ Len(u) - h + 1 = (Len(s) - h + 1) + 1
    BY <1>5, <1>7
  <2>2. QED BY <1>7, <2>1 DEF FrameAt
<1>14. IsStack(u)
  BY <1>7, SeqIsStack
<1>15. QED
  BY <1>5, <1>6, <1>7, <1>8, <1>9, <1>11, <1>12, <1>13, <1>14 DEF OneMore

LEMMA Popped ==
  ASSUME NEW s, IsStack(s), s # <<>>
  PROVE  OneMore(s, Head(s), Tail(s)) /\ IsStack(Tail(s))
<1>1. PICK T : s \in Seq(T)
  BY StackIs
<1>2. /\ Len(s) \in Nat /\ Len(s) > 0 /\ Head(s) = s[1]
  BY <1>1, StackIs
<1>3. /\ Tail(s) \in Seq(T) /\ Len(Tail(s)) = Len(s) - 1
      /\ \A i \in 1 .. Len(Tail(s)) : Tail(s)[i] = s[i + 1]
  BY <1>1, HeadTailProperties
<1>4. PICK u : u = Tail(s)
  OBVIOUS
<1>5. u \in Seq(T) /\ Len(u) = Len(s) - 1 /\ \A i \in 1 .. Len(u) : u[i] = s[i + 1]
  BY <1>3, <1>4
<1>6. IsStack(u)
  BY <1>5, SeqIsStack
<1>7. ASSUME NEW h \in 1 .. Len(u) PROVE FrameAt(s, h) = FrameAt(u, h)
  <2>1. Len(u) - h + 1 \in 1 .. Len(u) /\ Len(s) - h + 1 = (Len(u) - h + 1) + 1
    BY <1>2, <1>5
  <2>2. QED BY <1>5, <2>1 DEF FrameAt
<1>8. FrameAt(s, Len(s)) = s[1]
  BY <1>2 DEF FrameAt
<1>9. Len(u) \in Nat /\ Len(s) = Len(u) + 1
  BY <1>2, <1>5
<1>10. QED
  BY <1>2, <1>4, <1>6, <1>7, <1>8, <1>9 DEF OneMore

\* The stack s with another frame at i.
Altered(s, i, f) == [s EXCEPT ![i] = f]

LEMMA Changed ==
  ASSUME NEW s, IsStack(s), NEW i \in 1 .. Len(s), NEW f, NEW u, u = Altered(s, i, f)
  PROVE  /\ IsStack(u) /\ Len(u) = Len(s) /\ FrameAt(u, Len(s) - i + 1) = f
         /\ \A h \in 1 .. Len(s) : h # Len(s) - i + 1 => FrameAt(u, h) = FrameAt(s, h)
<1>1. PICK T : s \in Seq(T)
  BY StackIs
<1>2. Len(s) \in Nat
  BY StackIs
<1> DEFINE S == T \cup {f}
<1>3. s \in Seq(S)
  BY <1>1, SeqMonotonic
<1>4. f \in S
  OBVIOUS
<1> HIDE DEF S
<1>6. u \in Seq(S) /\ Len(u) = Len(s) /\ \A j \in 1 .. Len(s) : u[j] = IF j = i THEN f ELSE s[j]
  BY <1>3, <1>4, ExceptSeq DEF Altered
<1>7. IsStack(u)
  BY <1>6, SeqIsStack
<1>8. FrameAt(u, Len(s) - i + 1) = f
  BY <1>2, <1>6 DEF FrameAt
<1>9. ASSUME NEW h \in 1 .. Len(s), h # Len(s) - i + 1 PROVE FrameAt(u, h) = FrameAt(s, h)
  <2>1. Len(s) - h + 1 \in 1 .. Len(s) /\ Len(s) - h + 1 # i
    BY <1>2, <1>9
  <2>2. QED BY <1>6, <2>1 DEF FrameAt
<1>10. QED BY <1>6, <1>7, <1>8, <1>9

\* The least of some positions of a stack.
LEMMA Least ==
  ASSUME NEW S, S \subseteq Nat, S # {}
  PROVE  \E i \in S : \A j \in S : i <= j
<1> DEFINE R == {p \in Nat \X Nat : p[1] < p[2]}
<1>1. IsWellFoundedOn(R, Nat)
  BY NatLessThanWellFounded DEF OpToRel
<1>2. \A x, y \in Nat : x < y => <<x, y>> \in R
  OBVIOUS
<1> HIDE DEF R
<1>3. PICK x \in S : \A y \in S : <<y, x>> \notin R
  <2>1. S \subseteq Nat /\ S # {}
    OBVIOUS
  <2>2. QED BY <1>1, <2>1, WFMin
<1>4. ASSUME NEW y \in S PROVE x <= y
  <2>1. x \in Nat /\ y \in Nat
    BY <1>3
  <2>2. y < x => <<y, x>> \in R
    BY <1>2, <2>1
  <2>3. ~(y < x)
    BY <1>3, <2>2
  <2>4. QED BY <2>1, <2>3
<1>5. QED BY <1>4

-----------------------------------------------------------------------------
(* What stacks hold.  L is the set of the roots in use.                    *)

ValueOK(v, L)  == v.kind = "fn" => v.home \in L
ValuesOK(f, L) == \A x \in DOMAIN f : ValueOK(f[x], L)

\* The scope of a program or of a call.
IsBase(f) == f.k = "scope" /\ f.level # "inner"

\* The frames whose rest is evaluated in the scope beneath them.
Inside(f) == f.k \notin {"call", "source", "config"} /\ ~IsBase(f)

Homed == {"scope", "call", "source", "in_ns", "config"}

FrameOK(f, L) ==
  /\ "k" \in DOMAIN f
  /\ f.k \in Homed => "home" \in DOMAIN f /\ f.home \in L
  /\ f.k = "scope" => {"level", "vars", "todo"} \subseteq DOMAIN f /\ ValuesOK(f.vars, L)
  /\ f.k = "in_ns" => "prev" \in DOMAIN f /\ f.prev \in Spaces
  /\ f.k = "args" => "got" \in DOMAIN f /\ IsStack(f.got) /\ ValuesOK(f.got, L)

HasBase(s) == \E h \in 1 .. Len(s) : IsBase(FrameAt(s, h))

StackOK(s, L) ==
  /\ IsStack(s)
  /\ \A h \in 1 .. Len(s) :
       /\ FrameOK(FrameAt(s, h), L)
       /\ Inside(FrameAt(s, h)) => \E g \in 1 .. h - 1 : IsBase(FrameAt(s, g))

CtlOK(c, s, L) ==
  /\ "do" \in DOMAIN c
  /\ c.do \notin {"val", "sig", "idle"} => HasBase(s)
  /\ c.do = "val" => ValueOK(c.v, L)
  /\ c.do = "loop" => Head(s).k = "while"
  /\ c.do = "reset" => Head(s).k = "reset"
  /\ c.do = "idle" => s = <<>>

ThreadOK(x, L) ==
  /\ x = [stack |-> x.stack, ctl |-> x.ctl]
  /\ StackOK(x.stack, L) /\ CtlOK(x.ctl, x.stack, L)

LEMMA MoreInUse ==
  ASSUME NEW L, NEW M, L \subseteq M
  PROVE  /\ \A v : ValueOK(v, L) => ValueOK(v, M)
         /\ \A f : ValuesOK(f, L) => ValuesOK(f, M)
         /\ \A f : FrameOK(f, L) => FrameOK(f, M)
         /\ \A s : StackOK(s, L) => StackOK(s, M)
         /\ \A x : ThreadOK(x, L) => ThreadOK(x, M)
<1>1. \A v : ValueOK(v, L) => ValueOK(v, M)
  BY DEF ValueOK
<1>2. \A f : ValuesOK(f, L) => ValuesOK(f, M)
  BY <1>1 DEF ValuesOK
<1>3. \A f : FrameOK(f, L) => FrameOK(f, M)
  BY <1>2 DEF FrameOK
<1>4. \A s : StackOK(s, L) => StackOK(s, M)
  BY <1>3 DEF StackOK
<1>5. \A c, s : CtlOK(c, s, L) => CtlOK(c, s, M)
  BY <1>1 DEF CtlOK
<1>6. QED
  BY <1>1, <1>2, <1>3, <1>4, <1>5 DEF ThreadOK

LEMMA EmptyOK ==
  ASSUME NEW L
  PROVE  StackOK(<<>>, L)
<1>1. IsStack(<<>>) /\ Len(<<>>) = 0
  BY EmptySeq, SeqIsStack
<1>2. QED BY <1>1 DEF StackOK

LEMMA PushOK ==
  ASSUME NEW L, NEW s, StackOK(s, L), NEW f, FrameOK(f, L), Inside(f) => HasBase(s)
  PROVE  LET u == <<f>> \o s IN
         /\ StackOK(u, L) /\ OneMore(u, f, s)
         /\ HasBase(s) \/ IsBase(f) => HasBase(u)
<1>1. PICK u : u = <<f>> \o s
  OBVIOUS
<1>2. OneMore(u, f, s)
  BY <1>1, Pushed DEF StackOK
<1>3. /\ Len(s) \in Nat /\ Len(u) = Len(s) + 1 /\ FrameAt(u, Len(u)) = f
      /\ \A h \in 1 .. Len(s) : FrameAt(u, h) = FrameAt(s, h)
  BY <1>2 DEF OneMore
<1>4. ASSUME NEW h \in 1 .. Len(u)
      PROVE  /\ FrameOK(FrameAt(u, h), L)
             /\ Inside(FrameAt(u, h)) => \E g \in 1 .. h - 1 : IsBase(FrameAt(u, g))
  <2>1. CASE h = Len(u)
    <3>1. h - 1 = Len(s)
      BY <1>3, <2>1
    <3>2. HasBase(s) => \E g \in 1 .. h - 1 : IsBase(FrameAt(u, g))
      BY <1>3, <3>1 DEF HasBase
    <3>3. QED BY <1>3, <2>1, <3>2
  <2>2. CASE h # Len(u)
    <3>1. h \in 1 .. Len(s) /\ FrameAt(u, h) = FrameAt(s, h)
      BY <1>3, <2>2
    <3>2. \A g \in 1 .. h - 1 : g \in 1 .. Len(s)
      BY <1>3, <3>1
    <3>3. QED BY <1>3, <3>1, <3>2 DEF StackOK
  <2>3. QED BY <2>1, <2>2
<1>5. HasBase(s) \/ IsBase(f) => HasBase(u)
  <2>1. Len(u) \in 1 .. Len(u) /\ \A h \in 1 .. Len(s) : h \in 1 .. Len(u)
    BY <1>3
  <2>2. QED BY <1>3, <2>1 DEF HasBase
<1>6. IsStack(u)
  BY <1>2 DEF OneMore
<1>7. StackOK(u, L)
  BY <1>4, <1>6 DEF StackOK
<1>8. QED BY <1>1, <1>2, <1>5, <1>7

LEMMA PopOK ==
  ASSUME NEW L, NEW s, StackOK(s, L), s # <<>>
  PROVE  /\ StackOK(Tail(s), L) /\ FrameOK(Head(s), L) /\ OneMore(s, Head(s), Tail(s))
         /\ Inside(Head(s)) => HasBase(Tail(s))
         /\ HasBase(s) /\ ~IsBase(Head(s)) => HasBase(Tail(s))
<1>1. PICK u, f : u = Tail(s) /\ f = Head(s)
  OBVIOUS
<1>2. OneMore(s, f, u) /\ IsStack(u)
  BY <1>1, Popped DEF StackOK
<1>3. /\ Len(u) \in Nat /\ Len(s) = Len(u) + 1 /\ FrameAt(s, Len(s)) = f
      /\ \A h \in 1 .. Len(u) : FrameAt(s, h) = FrameAt(u, h)
  BY <1>2 DEF OneMore
<1>4. ASSUME NEW h \in 1 .. Len(u)
      PROVE  /\ FrameOK(FrameAt(u, h), L)
             /\ Inside(FrameAt(u, h)) => \E g \in 1 .. h - 1 : IsBase(FrameAt(u, g))
  <2>1. h \in 1 .. Len(s) /\ FrameAt(u, h) = FrameAt(s, h)
    BY <1>3
  <2>2. \A g \in 1 .. h - 1 : g \in 1 .. Len(u)
    BY <1>3
  <2>3. QED BY <1>3, <2>1, <2>2 DEF StackOK
<1>5. StackOK(u, L)
  BY <1>2, <1>4 DEF StackOK
<1>6. Len(s) \in 1 .. Len(s) /\ Len(s) - 1 = Len(u)
  BY <1>3
<1>7. FrameOK(f, L)
  BY <1>3, <1>6 DEF StackOK
<1>8. Inside(f) => HasBase(u)
  BY <1>3, <1>6 DEF StackOK, HasBase
<1>9. HasBase(s) /\ ~IsBase(f) => HasBase(u)
  <2>1. \A h \in 1 .. Len(s) : h = Len(s) \/ h \in 1 .. Len(u)
    BY <1>3
  <2>2. QED BY <1>3, <2>1 DEF HasBase
<1>10. QED BY <1>1, <1>2, <1>5, <1>7, <1>8, <1>9

\* The frame on top gives way to one of its kind.
LEMMA ReplaceOK ==
  ASSUME NEW L, NEW s, StackOK(s, L), s # <<>>, NEW f, FrameOK(f, L), ~Inside(f) \/ Inside(Head(s))
  PROVE  /\ StackOK(<<f>> \o Tail(s), L) /\ OneMore(<<f>> \o Tail(s), f, Tail(s))
         /\ HasBase(s) /\ (IsBase(Head(s)) => IsBase(f)) => HasBase(<<f>> \o Tail(s))
  BY PopOK, PushOK

\* Some frame changes, and stays what it is to the frames above it.
LEMMA ChangeOK ==
  ASSUME NEW L, NEW s, StackOK(s, L), NEW i \in 1 .. Len(s), NEW f, FrameOK(f, L),
         Inside(f) => Inside(s[i]), IsBase(s[i]) => IsBase(f), NEW u, u = Altered(s, i, f)
  PROVE  StackOK(u, L) /\ (HasBase(s) => HasBase(u))
<1>1. PICK j : j = Len(s) - i + 1
  OBVIOUS
<1>2. /\ IsStack(u) /\ Len(u) = Len(s) /\ FrameAt(u, j) = f
      /\ \A h \in 1 .. Len(s) : h # j => FrameAt(u, h) = FrameAt(s, h)
  <2>1. IsStack(s)
    BY DEF StackOK
  <2>2. /\ IsStack(u) /\ Len(u) = Len(s) /\ FrameAt(u, Len(s) - i + 1) = f
        /\ \A h \in 1 .. Len(s) : h # Len(s) - i + 1 => FrameAt(u, h) = FrameAt(s, h)
    BY <2>1, Changed
  <2>3. QED BY <1>1, <2>2
<1>3. Len(s) \in Nat
  BY StackIs DEF StackOK
<1>4. j \in 1 .. Len(s) /\ FrameAt(s, j) = s[i]
  BY <1>1, <1>3 DEF FrameAt
<1>5. \A h \in 1 .. Len(s) : IsBase(FrameAt(s, h)) => IsBase(FrameAt(u, h))
  BY <1>2, <1>4
<1>6. ASSUME NEW h \in 1 .. Len(s)
      PROVE  /\ FrameOK(FrameAt(u, h), L)
             /\ Inside(FrameAt(u, h)) => \E g \in 1 .. h - 1 : IsBase(FrameAt(u, g))
  <2>1. FrameOK(FrameAt(u, h), L) /\ (Inside(FrameAt(u, h)) => Inside(FrameAt(s, h)))
    BY <1>2, <1>4 DEF StackOK
  <2>2. \A g \in 1 .. h - 1 : g \in 1 .. Len(s)
    BY <1>3
  <2>3. QED BY <1>5, <2>1, <2>2 DEF StackOK
<1>7. StackOK(u, L)
  BY <1>2, <1>6 DEF StackOK
<1>8. HasBase(s) => HasBase(u)
  BY <1>2, <1>5 DEF HasBase
<1>9. QED BY <1>1, <1>7, <1>8

\* The base nearest to the top.
BaseOf(s) ==
  CHOOSE i \in DOMAIN s :
    /\ s[i].k = "scope" /\ s[i].level # "inner"
    /\ \A h \in 1 .. i - 1 : s[h].k = "scope" => s[h].level = "inner"

LEMMA BaseIs ==
  ASSUME NEW L, NEW s, StackOK(s, L), HasBase(s)
  PROVE  /\ BaseOf(s) \in 1 .. Len(s) /\ IsBase(s[BaseOf(s)]) /\ s[BaseOf(s)].home \in L
         /\ s # <<>>
<1>1. Len(s) \in Nat /\ DOMAIN s = 1 .. Len(s)
  BY StackIs DEF StackOK
<1> DEFINE S == {i \in 1 .. Len(s) : IsBase(s[i])}
<1>2. S # {}
  <2>1. PICK h \in 1 .. Len(s) : IsBase(FrameAt(s, h))
    BY DEF HasBase
  <2>2. Len(s) - h + 1 \in S
    BY <1>1, <2>1 DEF FrameAt
  <2>3. QED BY <2>2
<1>3. S \subseteq Nat
  OBVIOUS
<1> HIDE DEF S
<1>4. PICK i \in S : \A j \in S : i <= j
  BY <1>2, <1>3, Least
<1>5. i \in 1 .. Len(s) /\ IsBase(s[i])
  BY <1>4 DEF S
<1>6. ASSUME NEW h \in 1 .. i - 1 PROVE s[h].k = "scope" => s[h].level = "inner"
  <2>1. h \in 1 .. Len(s) /\ h < i
    BY <1>1, <1>5
  <2>2. h \notin S
    BY <1>3, <1>4, <2>1
  <2>3. QED BY <2>1, <2>2 DEF S, IsBase
<1>7. \E x \in DOMAIN s : /\ s[x].k = "scope" /\ s[x].level # "inner"
                          /\ \A h \in 1 .. x - 1 : s[h].k = "scope" => s[h].level = "inner"
  BY <1>1, <1>5, <1>6 DEF IsBase
<1>8. BaseOf(s) \in 1 .. Len(s) /\ IsBase(s[BaseOf(s)])
  BY <1>1, <1>7, Zenon DEF BaseOf, IsBase
<1>9. FrameOK(s[BaseOf(s)], L)
  <2>1. PICK b : b = BaseOf(s)
    OBVIOUS
  <2>2. Len(s) - b + 1 \in 1 .. Len(s) /\ Len(s) - (Len(s) - b + 1) + 1 = b
    BY <1>1, <1>8, <2>1
  <2>3. FrameAt(s, Len(s) - b + 1) = s[b]
    BY <2>2 DEF FrameAt
  <2>4. QED BY <2>1, <2>2, <2>3 DEF StackOK
<1>10. s # <<>>
  BY <1>8, EmptySeq
<1>11. QED BY <1>8, <1>9, <1>10 DEF FrameOK, Homed, IsBase

-----------------------------------------------------------------------------
(* What is open: the frames that undo something, by their heights.         *)

Marked == {"call", "source", "in_ns"}

Marks(s, k, r) == {h \in 1 .. Len(s) : FrameAt(s, h).k = k /\ FrameAt(s, h).home = r}

\* The same is open on u as on s.
SameMarks(s, u) ==
  /\ \A k \in Marked : \A r : Marks(u, k, r) = Marks(s, k, r)
  /\ \A r : \A h \in Marks(s, "in_ns", r) : FrameAt(u, h).prev = FrameAt(s, h).prev

\* On u the frame f is open, at height m above all that is open on s.
AddsAt(u, f, s, m) ==
  /\ m \in Nat
  /\ \A k \in Marked : \A r : /\ Marks(u, k, r) = Marks(s, k, r) \cup (IF f.k = k /\ f.home = r THEN {m} ELSE {})
                              /\ \A h \in Marks(s, k, r) : h \in Nat /\ h < m
  /\ \A r : \A h \in Marks(s, "in_ns", r) : FrameAt(u, h).prev = FrameAt(s, h).prev
  /\ f.k = "in_ns" => FrameAt(u, m).prev = f.prev

Adds(u, f, s) == \E m : AddsAt(u, f, s, m)

LEMMA SameIsSame ==
  /\ \A s : SameMarks(s, s)
  /\ \A s, u : SameMarks(s, u) => SameMarks(u, s)
  /\ \A s, u, v : SameMarks(s, u) /\ SameMarks(u, v) => SameMarks(s, v)
  BY DEF SameMarks, Marked

LEMMA OneAdds ==
  ASSUME NEW u, NEW f, NEW s, OneMore(u, f, s)
  PROVE  Adds(u, f, s)
<1>1. /\ Len(s) \in Nat /\ Len(u) = Len(s) + 1 /\ FrameAt(u, Len(u)) = f
      /\ \A h \in 1 .. Len(s) : FrameAt(u, h) = FrameAt(s, h)
  BY DEF OneMore
<1>2. ASSUME NEW k, NEW r
      PROVE  /\ Marks(u, k, r) = Marks(s, k, r) \cup (IF f.k = k /\ f.home = r THEN {Len(u)} ELSE {})
             /\ \A h \in Marks(s, k, r) : h \in Nat /\ h < Len(u)
  <2>1. \A h : h \in 1 .. Len(u) <=> h \in 1 .. Len(s) \/ h = Len(u)
    BY <1>1
  <2>2. \A h \in 1 .. Len(s) : h \in Nat /\ h < Len(u)
    BY <1>1
  <2>3. QED BY <1>1, <2>1, <2>2 DEF Marks
<1>3. \A r : \A h \in Marks(s, "in_ns", r) : FrameAt(u, h).prev = FrameAt(s, h).prev
  BY <1>1 DEF Marks
<1>4. AddsAt(u, f, s, Len(u))
  BY <1>1, <1>2, <1>3 DEF AddsAt
<1>5. QED BY <1>4 DEF Adds

LEMMA PlainAdds ==
  ASSUME NEW u, NEW f, NEW s, OneMore(u, f, s), f.k \notin Marked
  PROVE  SameMarks(s, u) /\ SameMarks(u, s)
<1>1. PICK m : AddsAt(u, f, s, m)
  BY OneAdds DEF Adds
<1>2. \A k \in Marked : \A r : Marks(u, k, r) = Marks(s, k, r)
  BY <1>1 DEF AddsAt
<1>3. SameMarks(s, u)
  BY <1>1, <1>2 DEF AddsAt, SameMarks
<1>4. QED BY <1>3, SameIsSame

LEMMA SameAdds ==
  ASSUME NEW u, NEW f, NEW s, NEW v, NEW w, Adds(u, f, s), SameMarks(s, v), SameMarks(u, w)
  PROVE  Adds(w, f, v)
<1>1. PICK m : AddsAt(u, f, s, m)
  BY DEF Adds
<1>2. /\ m \in Nat
      /\ \A k \in Marked : \A r : /\ Marks(w, k, r) = Marks(v, k, r) \cup (IF f.k = k /\ f.home = r THEN {m} ELSE {})
                                  /\ \A h \in Marks(v, k, r) : h \in Nat /\ h < m
  BY <1>1 DEF AddsAt, SameMarks
<1>3. ASSUME NEW r, NEW h \in Marks(v, "in_ns", r) PROVE FrameAt(w, h).prev = FrameAt(v, h).prev
  <2>1. h \in Marks(s, "in_ns", r) /\ h \in Marks(u, "in_ns", r)
    BY <1>1 DEF AddsAt, SameMarks, Marked
  <2>2. QED BY <1>1, <2>1 DEF AddsAt, SameMarks
<1>4. f.k = "in_ns" => FrameAt(w, m).prev = f.prev
  <2>1. f.k = "in_ns" => m \in Marks(u, "in_ns", f.home)
    BY <1>1 DEF AddsAt, Marked
  <2>2. QED BY <1>1, <2>1 DEF AddsAt, SameMarks
<1>5. AddsAt(w, f, v, m)
  BY <1>2, <1>3, <1>4 DEF AddsAt
<1>6. QED BY <1>5 DEF Adds

\* A frame that changes, without ceasing to be what it was, leaves open what is open.
LEMMA ChangeMarks ==
  ASSUME NEW s, IsStack(s), NEW i \in 1 .. Len(s), NEW f, f.k \notin Marked, s[i].k \notin Marked,
         NEW u, u = Altered(s, i, f)
  PROVE  SameMarks(s, u)
<1>1. PICK j : j = Len(s) - i + 1
  OBVIOUS
<1>2. /\ Len(u) = Len(s) /\ FrameAt(u, j) = f
      /\ \A h \in 1 .. Len(s) : h # j => FrameAt(u, h) = FrameAt(s, h)
  <2>1. /\ IsStack(u) /\ Len(u) = Len(s) /\ FrameAt(u, Len(s) - i + 1) = f
        /\ \A h \in 1 .. Len(s) : h # Len(s) - i + 1 => FrameAt(u, h) = FrameAt(s, h)
    BY Changed
  <2>2. QED BY <1>1, <2>1
<1>3. FrameAt(s, j) = s[i]
  BY <1>1, StackIs DEF FrameAt
<1>4. \A h \in 1 .. Len(s) : FrameAt(s, h).k \in Marked \/ FrameAt(u, h).k \in Marked => FrameAt(u, h) = FrameAt(s, h)
  BY <1>2, <1>3
<1>5. ASSUME NEW k \in Marked, NEW r PROVE Marks(u, k, r) = Marks(s, k, r)
  BY <1>2, <1>4 DEF Marks
<1>6. \A r : \A h \in Marks(s, "in_ns", r) : FrameAt(u, h).prev = FrameAt(s, h).prev
  BY <1>4 DEF Marks, Marked
<1>7. QED BY <1>5, <1>6 DEF SameMarks

-----------------------------------------------------------------------------
(* Counting.  x and y are the threads before and after a step of t.        *)

OpensOf(x, k, r) == {p \in Roots \X Nat : p[2] \in Marks(x[p[1]].stack, k, r)}

Tally(x, k, r, n) == IsFiniteSet(OpensOf(x, k, r)) /\ Cardinality(OpensOf(x, k, r)) = n

OnlyStack(t, x, y) == \A u \in Roots : u # t => y[u].stack = x[u].stack

LEMMA TallySame ==
  ASSUME NEW t \in Roots, NEW x, NEW y, OnlyStack(t, x, y), NEW k, NEW r, NEW n, Tally(x, k, r, n),
         Marks(y[t].stack, k, r) = Marks(x[t].stack, k, r)
  PROVE  Tally(y, k, r, n)
<1>1. \A u \in Roots : Marks(y[u].stack, k, r) = Marks(x[u].stack, k, r)
  BY DEF OnlyStack
<1>2. OpensOf(y, k, r) = OpensOf(x, k, r)
  BY <1>1 DEF OpensOf
<1>3. QED BY <1>2 DEF Tally

LEMMA OpensMore ==
  ASSUME NEW t \in Roots, NEW x, NEW y, OnlyStack(t, x, y), NEW k, NEW r, NEW m \in Nat,
         m \notin Marks(x[t].stack, k, r), Marks(y[t].stack, k, r) = Marks(x[t].stack, k, r) \cup {m}
  PROVE  \E p : /\ OpensOf(y, k, r) = OpensOf(x, k, r) \cup {p} /\ OpensOf(x, k, r) = OpensOf(y, k, r) \ {p}
                /\ p \notin OpensOf(x, k, r) /\ p \in OpensOf(y, k, r)
<1>1. PICK p : p = <<t, m>>
  OBVIOUS
<1>2. p \in Roots \X Nat /\ p[1] = t /\ p[2] = m
  BY <1>1
<1>3. ASSUME NEW q \in Roots \X Nat
      PROVE  q[2] \in Marks(y[q[1]].stack, k, r) <=> q[2] \in Marks(x[q[1]].stack, k, r) \/ q = p
  <2>1. CASE q[1] = t
    <3>1. q = p <=> q[2] = m
      BY <1>1, <2>1
    <3>2. QED BY <2>1, <3>1
  <2>2. CASE q[1] # t
    <3>1. q # p /\ q[1] \in Roots
      BY <1>2, <2>2
    <3>2. QED BY <2>2, <3>1 DEF OnlyStack
  <2>3. QED BY <2>1, <2>2
<1>4. p \notin OpensOf(x, k, r)
  BY <1>2 DEF OpensOf
<1>5. OpensOf(y, k, r) = OpensOf(x, k, r) \cup {p}
  BY <1>2, <1>3 DEF OpensOf
<1>6. QED BY <1>4, <1>5

LEMMA TallyMore ==
  ASSUME NEW t \in Roots, NEW x, NEW y, OnlyStack(t, x, y), NEW k, NEW r, NEW n \in Nat, Tally(x, k, r, n),
         NEW m \in Nat, m \notin Marks(x[t].stack, k, r),
         Marks(y[t].stack, k, r) = Marks(x[t].stack, k, r) \cup {m}
  PROVE  Tally(y, k, r, n + 1)
<1>1. PICK p : OpensOf(y, k, r) = OpensOf(x, k, r) \cup {p} /\ p \notin OpensOf(x, k, r)
  BY OpensMore
<1>2. QED BY <1>1, FS_AddElement DEF Tally

LEMMA TallyLess ==
  ASSUME NEW t \in Roots, NEW x, NEW y, OnlyStack(t, x, y), NEW k, NEW r, NEW n \in Nat, Tally(x, k, r, n),
         NEW m \in Nat, m \notin Marks(y[t].stack, k, r),
         Marks(x[t].stack, k, r) = Marks(y[t].stack, k, r) \cup {m}
  PROVE  n > 0 /\ Tally(y, k, r, n - 1)
<1>1. OnlyStack(t, y, x)
  BY DEF OnlyStack
<1>2. PICK p : OpensOf(y, k, r) = OpensOf(x, k, r) \ {p} /\ p \in OpensOf(x, k, r)
  BY <1>1, OpensMore
<1>3. n # 0
  BY <1>2, FS_EmptySet DEF Tally
<1>4. QED BY <1>2, <1>3, FS_RemoveElement DEF Tally

-----------------------------------------------------------------------------
(* What the fields of the roots have to say of what is open.               *)

\* Every depth counts the frames that are open.
Balanced(x, rt) ==
  \A r \in Roots :
    /\ rt[r].depth \in 0 .. MaxCallDepth /\ Tally(x, "call", r, rt[r].depth)
    /\ rt[r].sdepth \in 0 .. MaxSourceDepth /\ Tally(x, "source", r, rt[r].sdepth)
    /\ rt[r].ns \in Spaces

Alike(rt, rn) ==
  \A r \in Roots : rn[r].depth = rt[r].depth /\ rn[r].sdepth = rt[r].sdepth /\ rn[r].ns = rt[r].ns

\* What f counts and puts aside when it is opened, and what it undoes when it is left.
Opened(f, rt, rn) ==
  \A r \in Roots :
    /\ IF f.k = "call" /\ f.home = r THEN rn[r].depth = rt[r].depth + 1 /\ rt[r].depth < MaxCallDepth
       ELSE rn[r].depth = rt[r].depth
    /\ IF f.k = "source" /\ f.home = r THEN rn[r].sdepth = rt[r].sdepth + 1 /\ rt[r].sdepth < MaxSourceDepth
       ELSE rn[r].sdepth = rt[r].sdepth
    /\ IF f.k = "in_ns" /\ f.home = r THEN f.prev = rt[r].ns /\ rn[r].ns \in Spaces
       ELSE rn[r].ns = rt[r].ns

Closed(f, rt, rn) ==
  \A r \in Roots :
    /\ rn[r].depth = IF f.k = "call" /\ f.home = r THEN rt[r].depth - 1 ELSE rt[r].depth
    /\ rn[r].sdepth = IF f.k = "source" /\ f.home = r THEN rt[r].sdepth - 1 ELSE rt[r].sdepth
    /\ IF f.k = "in_ns" /\ f.home = r THEN f.prev \in Spaces /\ rn[r].ns = f.prev ELSE rn[r].ns = rt[r].ns

\* A step of a thread from the stack s to the stack u.
Moved(s, u, rt, rn) ==
  \/ SameMarks(s, u) /\ Alike(rt, rn)
  \/ \E f : Adds(u, f, s) /\ Opened(f, rt, rn)
  \/ \E f : Adds(s, f, u) /\ Closed(f, rt, rn)

LEMMA BalanceOne ==
  ASSUME NEW t \in Roots, NEW x, NEW y, OnlyStack(t, x, y), NEW k \in {"call", "source"}, NEW r, NEW n \in Nat,
         Tally(x, k, r, n), NEW f, NEW s, NEW u, s = x[t].stack, u = y[t].stack
  PROVE  /\ Adds(u, f, s) => Tally(y, k, r, IF f.k = k /\ f.home = r THEN n + 1 ELSE n)
         /\ Adds(s, f, u) => (f.k = k /\ f.home = r => n > 0) /\ Tally(y, k, r, IF f.k = k /\ f.home = r THEN n - 1 ELSE n)
<1>1. ASSUME Adds(u, f, s) PROVE Tally(y, k, r, IF f.k = k /\ f.home = r THEN n + 1 ELSE n)
  <2>1. PICK m : /\ m \in Nat /\ m \notin Marks(s, k, r)
                 /\ Marks(u, k, r) = Marks(s, k, r) \cup (IF f.k = k /\ f.home = r THEN {m} ELSE {})
    BY <1>1 DEF Adds, AddsAt, Marked
  <2>2. CASE f.k = k /\ f.home = r
    BY <2>1, <2>2, TallyMore
  <2>3. CASE ~(f.k = k /\ f.home = r)
    <3>1. Marks(u, k, r) = Marks(s, k, r)
      BY <2>1, <2>3
    <3>2. Tally(y, k, r, n)
      BY <3>1, TallySame
    <3>3. QED BY <2>3, <3>2
  <2>4. QED BY <2>2, <2>3
<1>2. ASSUME Adds(s, f, u)
      PROVE  (f.k = k /\ f.home = r => n > 0) /\ Tally(y, k, r, IF f.k = k /\ f.home = r THEN n - 1 ELSE n)
  <2>1. PICK m : /\ m \in Nat /\ m \notin Marks(u, k, r)
                 /\ Marks(s, k, r) = Marks(u, k, r) \cup (IF f.k = k /\ f.home = r THEN {m} ELSE {})
    BY <1>2 DEF Adds, AddsAt, Marked
  <2>2. CASE f.k = k /\ f.home = r
    BY <2>1, <2>2, TallyLess
  <2>3. CASE ~(f.k = k /\ f.home = r)
    <3>1. Marks(u, k, r) = Marks(s, k, r)
      BY <2>1, <2>3
    <3>2. Tally(y, k, r, n)
      BY <3>1, TallySame
    <3>3. QED BY <2>3, <3>2
  <2>4. QED BY <2>2, <2>3
<1>3. QED BY <1>1, <1>2

LEMMA Balance ==
  ASSUME NEW t \in Roots, NEW x, NEW y, OnlyStack(t, x, y), NEW rt, NEW rn, Balanced(x, rt),
         Moved(x[t].stack, y[t].stack, rt, rn)
  PROVE  Balanced(y, rn)
<1>. DEFINE s == x[t].stack  u == y[t].stack
<1>. MaxCallDepth \in Nat /\ MaxSourceDepth \in Nat
  BY EvaluatorAssumption
<1>1. ASSUME NEW r \in Roots
      PROVE  /\ rt[r].depth \in Nat /\ rt[r].depth <= MaxCallDepth /\ Tally(x, "call", r, rt[r].depth)
             /\ rt[r].sdepth \in Nat /\ rt[r].sdepth <= MaxSourceDepth /\ Tally(x, "source", r, rt[r].sdepth)
             /\ rt[r].ns \in Spaces
  BY DEF Balanced
<1>2. CASE SameMarks(s, u) /\ Alike(rt, rn)
  <2>1. ASSUME NEW r \in Roots
        PROVE  Tally(y, "call", r, rt[r].depth) /\ Tally(y, "source", r, rt[r].sdepth)
    <3>1. Marks(u, "call", r) = Marks(s, "call", r) /\ Marks(u, "source", r) = Marks(s, "source", r)
      BY <1>2 DEF SameMarks, Marked
    <3>2. QED BY <1>1, <3>1, TallySame
  <2>2. QED BY <1>1, <1>2, <2>1 DEF Alike, Balanced
<1>3. ASSUME NEW f, Adds(u, f, s), Opened(f, rt, rn) PROVE Balanced(y, rn)
  <2>1. ASSUME NEW r \in Roots
        PROVE  /\ rn[r].depth \in 0 .. MaxCallDepth /\ Tally(y, "call", r, rn[r].depth)
               /\ rn[r].sdepth \in 0 .. MaxSourceDepth /\ Tally(y, "source", r, rn[r].sdepth)
               /\ rn[r].ns \in Spaces
    <3>1. /\ Tally(y, "call", r, IF f.k = "call" /\ f.home = r THEN rt[r].depth + 1 ELSE rt[r].depth)
          /\ Tally(y, "source", r, IF f.k = "source" /\ f.home = r THEN rt[r].sdepth + 1 ELSE rt[r].sdepth)
      BY <1>1, <1>3, BalanceOne
    <3>2. /\ rn[r].depth = IF f.k = "call" /\ f.home = r THEN rt[r].depth + 1 ELSE rt[r].depth
          /\ rn[r].sdepth = IF f.k = "source" /\ f.home = r THEN rt[r].sdepth + 1 ELSE rt[r].sdepth
      BY <1>3 DEF Opened
    <3>3. rn[r].depth \in 0 .. MaxCallDepth /\ rn[r].sdepth \in 0 .. MaxSourceDepth /\ rn[r].ns \in Spaces
      BY <1>1, <1>3 DEF Opened
    <3>4. QED BY <3>1, <3>2, <3>3
  <2>2. QED BY <2>1 DEF Balanced
<1>4. ASSUME NEW f, Adds(s, f, u), Closed(f, rt, rn) PROVE Balanced(y, rn)
  <2>1. ASSUME NEW r \in Roots
        PROVE  /\ rn[r].depth \in 0 .. MaxCallDepth /\ Tally(y, "call", r, rn[r].depth)
               /\ rn[r].sdepth \in 0 .. MaxSourceDepth /\ Tally(y, "source", r, rn[r].sdepth)
               /\ rn[r].ns \in Spaces
    <3>1. /\ Tally(y, "call", r, IF f.k = "call" /\ f.home = r THEN rt[r].depth - 1 ELSE rt[r].depth)
          /\ Tally(y, "source", r, IF f.k = "source" /\ f.home = r THEN rt[r].sdepth - 1 ELSE rt[r].sdepth)
          /\ f.k = "call" /\ f.home = r => rt[r].depth > 0
          /\ f.k = "source" /\ f.home = r => rt[r].sdepth > 0
      BY <1>1, <1>4, BalanceOne
    <3>2. /\ rn[r].depth = IF f.k = "call" /\ f.home = r THEN rt[r].depth - 1 ELSE rt[r].depth
          /\ rn[r].sdepth = IF f.k = "source" /\ f.home = r THEN rt[r].sdepth - 1 ELSE rt[r].sdepth
          /\ rn[r].ns \in Spaces
      BY <1>1, <1>4 DEF Closed
    <3>3. rn[r].depth \in 0 .. MaxCallDepth /\ rn[r].sdepth \in 0 .. MaxSourceDepth
      BY <1>1, <3>1, <3>2
    <3>4. QED BY <3>1, <3>2, <3>3
  <2>2. QED BY <2>1 DEF Balanced
<1>5. QED BY <1>2, <1>3, <1>4 DEF Moved

-----------------------------------------------------------------------------
(* The namespace of the prompt's root.                                     *)

NsMarks(s) == Marks(s, "in_ns", "fg")

\* The lowest of the open blocks has put aside the shell's own namespace.
Floor(s) == \A h \in NsMarks(s) : (\A g \in NsMarks(s) : h <= g) => FrameAt(s, h).prev = 0

AtMostOne(x) == \A t, u \in Roots : t = u \/ NsMarks(x[t].stack) = {} \/ NsMarks(x[u].stack) = {}

NsOK(x, ns) ==
  /\ \A t \in Roots : Floor(x[t].stack)
  /\ AtMostOne(x)
  /\ (\A t \in Roots : NsMarks(x[t].stack) = {}) => ns = 0

LEMMA FloorStays ==
  ASSUME NEW s, NEW u, SameMarks(s, u), Floor(s)
  PROVE  Floor(u) /\ NsMarks(u) = NsMarks(s)
  BY DEF SameMarks, Floor, NsMarks, Marked

LEMMA FloorMoves ==
  ASSUME NEW f, NEW s, NEW u, Adds(u, f, s)
  PROVE  /\ Floor(u) => Floor(s)
         /\ Floor(s) /\ (NsMarks(s) # {} \/ ~(f.k = "in_ns" /\ f.home = "fg") \/ f.prev = 0) => Floor(u)
         /\ ~(f.k = "in_ns" /\ f.home = "fg") => NsMarks(u) = NsMarks(s)
         /\ f.k = "in_ns" /\ f.home = "fg" => NsMarks(u) # {} /\ (Floor(u) /\ NsMarks(s) = {} => f.prev = 0)
<1>1. PICK m : AddsAt(u, f, s, m)
  BY DEF Adds
<1>2. /\ m \in Nat
      /\ NsMarks(u) = NsMarks(s) \cup (IF f.k = "in_ns" /\ f.home = "fg" THEN {m} ELSE {})
      /\ \A h \in NsMarks(s) : h \in Nat /\ h < m /\ FrameAt(u, h).prev = FrameAt(s, h).prev
      /\ f.k = "in_ns" => FrameAt(u, m).prev = f.prev
  BY <1>1 DEF AddsAt, NsMarks, Marked
<1>3. CASE ~(f.k = "in_ns" /\ f.home = "fg")
  <2>1. NsMarks(u) = NsMarks(s)
    BY <1>2, <1>3
  <2>2. Floor(u) <=> Floor(s)
    BY <1>2, <2>1 DEF Floor
  <2>3. QED BY <1>3, <2>1, <2>2
<1>4. CASE f.k = "in_ns" /\ f.home = "fg"
  <2>1. NsMarks(u) = NsMarks(s) \cup {m} /\ FrameAt(u, m).prev = f.prev
    BY <1>2, <1>4
  <2>2. Floor(u) => Floor(s)
    BY <1>2, <2>1 DEF Floor
  <2>3. Floor(s) /\ NsMarks(s) # {} => Floor(u)
    BY <1>2, <2>1 DEF Floor
  <2>4. NsMarks(s) = {} => (Floor(u) <=> f.prev = 0)
    BY <1>2, <2>1 DEF Floor
  <2>5. QED BY <1>4, <2>1, <2>2, <2>3, <2>4
<1>5. QED BY <1>3, <1>4

LEMMA NsMoves ==
  ASSUME NEW t \in Roots, NEW x, NEW y, OnlyStack(t, x, y), NEW rt, NEW rn, NsOK(x, rt["fg"].ns), AtMostOne(y),
         Moved(x[t].stack, y[t].stack, rt, rn)
  PROVE  NsOK(y, rn["fg"].ns)
<1>. DEFINE s == x[t].stack  u == y[t].stack
<1>0. "fg" \in Roots
  BY DEF Roots
<1>1. /\ \A v \in Roots : v # t => NsMarks(y[v].stack) = NsMarks(x[v].stack) /\ Floor(y[v].stack)
      /\ Floor(s)
  BY DEF OnlyStack, NsOK
<1>2. CASE SameMarks(s, u) /\ Alike(rt, rn)
  <2>1. Floor(u) /\ NsMarks(u) = NsMarks(s) /\ rn["fg"].ns = rt["fg"].ns
    BY <1>0, <1>1, <1>2, FloorStays DEF Alike
  <2>2. QED BY <1>1, <2>1 DEF NsOK
<1>3. ASSUME NEW f, Adds(u, f, s), Opened(f, rt, rn) PROVE NsOK(y, rn["fg"].ns)
  <2>1. CASE f.k = "in_ns" /\ f.home = "fg"
    <3>1. NsMarks(u) # {} /\ f.prev = rt["fg"].ns
      BY <1>0, <1>3, <2>1, FloorMoves DEF Opened
    <3>2. \A v \in Roots : v # t => NsMarks(x[v].stack) = {}
      BY <1>1, <3>1 DEF AtMostOne
    <3>3. NsMarks(s) # {} \/ f.prev = 0
      BY <3>1, <3>2 DEF NsOK
    <3>4. Floor(u)
      BY <1>1, <1>3, <3>3, FloorMoves
    <3>5. QED BY <1>1, <3>1, <3>4 DEF NsOK
  <2>2. CASE ~(f.k = "in_ns" /\ f.home = "fg")
    <3>1. Floor(u) /\ NsMarks(u) = NsMarks(s)
      BY <1>1, <1>3, <2>2, FloorMoves
    <3>2. rn["fg"].ns = rt["fg"].ns
      BY <1>0, <1>3, <2>2 DEF Opened
    <3>3. QED BY <1>1, <3>1, <3>2 DEF NsOK
  <2>3. QED BY <2>1, <2>2
<1>4. ASSUME NEW f, Adds(s, f, u), Closed(f, rt, rn) PROVE NsOK(y, rn["fg"].ns)
  <2>1. Floor(u)
    BY <1>1, <1>4, FloorMoves
  <2>2. CASE f.k = "in_ns" /\ f.home = "fg"
    <3>1. rn["fg"].ns = f.prev /\ (NsMarks(u) = {} => f.prev = 0)
      BY <1>0, <1>1, <1>4, <2>2, FloorMoves DEF Closed
    <3>2. QED BY <1>1, <2>1, <3>1 DEF NsOK
  <2>3. CASE ~(f.k = "in_ns" /\ f.home = "fg")
    <3>1. NsMarks(u) = NsMarks(s)
      BY <1>4, <2>3, FloorMoves
    <3>2. rn["fg"].ns = rt["fg"].ns
      BY <1>0, <1>4, <2>3 DEF Closed
    <3>3. QED BY <1>1, <2>1, <3>1, <3>2 DEF NsOK
  <2>4. QED BY <2>2, <2>3
<1>5. QED BY <1>2, <1>3, <1>4 DEF Moved

\* What the shell calls mixed.
LEMMA NotMixed ==
  ASSUME NEW x, \A t \in Roots : IsStack(x[t].stack),
         ~(Cardinality({t \in Roots : \E f \in ToSet(x[t].stack) : f.k = "in_ns" /\ f.home = "fg"}) > 1)
  PROVE  AtMostOne(x)
<1>. DEFINE S == {t \in Roots : \E f \in ToSet(x[t].stack) : f.k = "in_ns" /\ f.home = "fg"}
<1>1. IsFiniteSet(Roots)
  <2>1. IsFiniteSet({"fg"}) /\ IsFiniteSet(Jobs)
    BY EvaluatorAssumption, FS_Singleton
  <2>2. QED BY <2>1, FS_Union DEF Roots
<1>2. IsFiniteSet(S) /\ Cardinality(S) \in Nat
  BY <1>1, FS_Subset, FS_CardinalityType
<1>3. ASSUME NEW t \in Roots, NsMarks(x[t].stack) # {} PROVE t \in S
  <2>1. PICK h \in 1 .. Len(x[t].stack) : FrameAt(x[t].stack, h).k = "in_ns" /\ FrameAt(x[t].stack, h).home = "fg"
    BY <1>3 DEF NsMarks, Marks
  <2>2. Len(x[t].stack) - h + 1 \in DOMAIN x[t].stack
    BY <2>1, StackIs
  <2>3. FrameAt(x[t].stack, h) \in ToSet(x[t].stack)
    BY <2>2, Zenon DEF ToSet, FrameAt
  <2>4. QED BY <2>1, <2>3
<1>4. ASSUME NEW t \in Roots, NEW u \in Roots, t # u, t \in S, u \in S PROVE FALSE
  <2>1. IsFiniteSet({t, u}) /\ Cardinality({t, u}) = 2
    <3>1. IsFiniteSet({t}) /\ Cardinality({t}) = 1 /\ u \notin {t}
      BY <1>4, FS_Singleton
    <3>2. Cardinality({t} \cup {u}) = 1 + 1 /\ IsFiniteSet({t} \cup {u})
      BY <3>1, FS_AddElement
    <3>3. {t, u} = {t} \cup {u}
      OBVIOUS
    <3>4. QED BY <3>2, <3>3
  <2>2. {t, u} \subseteq S
    BY <1>4
  <2>3. Cardinality({t, u}) <= Cardinality(S)
    BY <1>2, <2>2, FS_Subset
  <2>4. ~(Cardinality(S) > 1)
    OBVIOUS
  <2>5. QED BY <1>2, <2>1, <2>3, <2>4
<1>5. QED BY <1>3, <1>4 DEF AtMostOne

-----------------------------------------------------------------------------
(* A step of one thread.                                                   *)

\* The roots in use.
Live == {r \in Roots : r \in Jobs => jobs[r].state # "free"}

FieldsOK(rt, L) ==
  /\ DOMAIN rt = Roots
  /\ \A r \in Roots : /\ {"ns", "vars", "depth", "sdepth", "handler"} \subseteq DOMAIN rt[r]
                      /\ ValuesOK(rt[r].vars, L)

IsFcn(x) == x = [t \in DOMAIN x |-> x[t]]

Shapes ==
  /\ DOMAIN th = Roots /\ IsFcn(th) /\ FieldsOK(root, Live)
  /\ \A t \in Roots : ThreadOK(th[t], Live)

Stepped(t) ==
  \E z : /\ th' = [th EXCEPT ![t] = z] /\ ThreadOK(z, Live)
         /\ Moved(Stack(t), z.stack, root, root') /\ FieldsOK(root', Live)

LEMMA GoesOK ==
  ASSUME NEW t \in Roots, NEW u, NEW c, Goes(t, u, c), StackOK(u, Live), CtlOK(c, u, Live),
         Moved(Stack(t), u, root, root'), FieldsOK(root', Live)
  PROVE  Stepped(t)
<1>1. PICK z : z = [stack |-> u, ctl |-> c]
  OBVIOUS
<1>2. th' = [th EXCEPT ![t] = z]
  BY <1>1 DEF Goes
<1>3. z.stack = u /\ z.ctl = c /\ ThreadOK(z, Live)
  BY <1>1 DEF ThreadOK
<1>4. QED BY <1>2, <1>3 DEF Stepped

LEMMA RootStays ==
  ASSUME Shapes, root' = root
  PROVE  Alike(root, root') /\ FieldsOK(root', Live)
  BY DEF Alike, Shapes

LEMMA DoesOK ==
  ASSUME Shapes, NEW t \in Roots, NEW c, Does(t, c), CtlOK(c, Stack(t), Live),
         Alike(root, root'), FieldsOK(root', Live)
  PROVE  Stepped(t)
<1>1. StackOK(Stack(t), Live) /\ Moved(Stack(t), Stack(t), root, root')
  BY SameIsSame DEF Shapes, ThreadOK, Stack, Moved
<1>2. QED BY <1>1, GoesOK DEF Does

LEMMA EasyCtl ==
  ASSUME NEW s, NEW L
  PROVE  /\ \A v : ValueOK(v, L) => CtlOK(Val(v), s, L)
         /\ \A x : CtlOK(Sig(x), s, L)
         /\ CtlOK(Error, s, L)
         /\ HasBase(s) => \A n : CtlOK(Eval(n), s, L)
         /\ HasBase(s) => \A c : "do" \in DOMAIN c /\ c.do \in {"started", "running", "attached"} => CtlOK(c, s, L)
  BY DEF CtlOK, Val, Sig, Error, Eval

LEMMA EasyValues ==
  ASSUME NEW L
  PROVE  /\ ValueOK(Null, L) /\ ValueOK(Bytes, L) /\ ValueOK(ErrorVal, L)
         /\ \A b : ValueOK(Bool(b), L)
         /\ \A j : ValueOK(JobVal(j), L)
         /\ \A v : ValueOK(Literal(v), L)
<1>1. /\ ValueOK(Null, L) /\ ValueOK(Bytes, L) /\ ValueOK(ErrorVal, L)
      /\ \A b : ValueOK(Bool(b), L)
      /\ \A j : ValueOK(JobVal(j), L)
  BY DEF ValueOK, Null, Bytes, ErrorVal, Bool, JobVal
<1>2. QED BY <1>1 DEF Literal

LEMMA EasyFrames ==
  ASSUME NEW L
  PROVE  /\ \A f : "k" \in DOMAIN f /\ f.k \notin Homed \cup {"args"} => FrameOK(f, L) /\ f.k \notin Marked /\ ~IsBase(f)
         /\ \A l, h, b, a : h \in L =>
              LET f == Scope(l, h, b, a) IN
              FrameOK(f, L) /\ f.k \notin Marked /\ (Inside(f) <=> l = "inner") /\ (IsBase(f) <=> l # "inner")
<1>1. \A f : "k" \in DOMAIN f /\ f.k \notin Homed \cup {"args"} => FrameOK(f, L) /\ f.k \notin Marked /\ ~IsBase(f)
  BY DEF FrameOK, Homed, Marked, IsBase
<1>2. ASSUME NEW l, NEW h \in L, NEW b, NEW a, NEW f, f = Scope(l, h, b, a)
      PROVE  FrameOK(f, L) /\ f.k \notin Marked /\ (Inside(f) <=> l = "inner") /\ (IsBase(f) <=> l # "inner")
  <2>1. f.k = "scope" /\ f.level = l /\ f.home = h /\ f.vars = <<>> /\ DOMAIN f = {"k", "level", "home", "todo", "vars", "at"}
    BY <1>2 DEF Scope
  <2>2. ValuesOK(f.vars, L)
    BY <2>1 DEF ValuesOK
  <2>3. QED BY <2>1, <2>2 DEF FrameOK, Homed, Marked, IsBase, Inside
<1>3. QED BY <1>1, <1>2

\* What a thread that is about to evaluate something stands on.
Stands(t) ==
  /\ StackOK(Stack(t), Live) /\ HasBase(Stack(t)) /\ Stack(t) # <<>>
  /\ Home(t) \in Live /\ Home(t) \in Roots /\ Base(t) \in 1 .. Len(Stack(t))

LEMMA HomeIs ==
  ASSUME NEW t, StackOK(Stack(t), Live), HasBase(Stack(t))
  PROVE  Stands(t)
<1>1. Base(t) = BaseOf(Stack(t))
  BY DEF Base, BaseOf
<1>2. QED BY <1>1, BaseIs DEF Stands, Home, Live

LEMMA Standing ==
  ASSUME Shapes, NEW t \in Roots, Ctl(t).do \notin {"val", "sig", "idle"}
  PROVE  Stands(t)
<1>1. StackOK(Stack(t), Live) /\ HasBase(Stack(t))
  BY DEF Shapes, ThreadOK, CtlOK, Stack, Ctl
<1>2. QED BY <1>1, HomeIs

LEMMA LookupOK ==
  ASSUME Shapes, NEW t \in Roots, Stands(t), NEW x
  PROVE  /\ Defined(t, x) => ValueOK(Lookup(t, x), Live)
         /\ Holding(t, x) # {} => LET i == Inmost(Holding(t, x)) IN
              /\ i \in 1 .. Len(Stack(t)) /\ Stack(t)[i].k = "scope" /\ x \in DOMAIN Stack(t)[i].vars
              /\ FrameOK(Stack(t)[i], Live)
<1>1. StackOK(Stack(t), Live) /\ IsStack(Stack(t)) /\ Base(t) \in 1 .. Len(Stack(t)) /\ Len(Stack(t)) \in Nat
      /\ Home(t) \in Roots
  BY StackIs DEF Stands, StackOK
<1>2. \A i \in 1 .. Len(Stack(t)) : FrameOK(Stack(t)[i], Live)
  <2>1. ASSUME NEW i \in 1 .. Len(Stack(t)) PROVE FrameOK(Stack(t)[i], Live)
    <3>1. Len(Stack(t)) - i + 1 \in 1 .. Len(Stack(t)) /\ Len(Stack(t)) - (Len(Stack(t)) - i + 1) + 1 = i
      BY <1>1
    <3>2. FrameAt(Stack(t), Len(Stack(t)) - i + 1) = Stack(t)[i]
      BY <3>1 DEF FrameAt
    <3>3. QED BY <1>1, <3>1, <3>2 DEF StackOK
  <2>2. QED BY <2>1
<1>3. Holding(t, x) \subseteq 1 .. Len(Stack(t)) /\ Holding(t, x) \subseteq Nat
  BY <1>1 DEF Holding, ScopesOf
<1>4. ASSUME Holding(t, x) # {} PROVE Inmost(Holding(t, x)) \in Holding(t, x)
  <2>1. \E i \in Holding(t, x) : \A h \in Holding(t, x) : i <= h
    BY <1>3, <1>4, Least
  <2>2. QED BY <2>1 DEF Inmost
<1>5. ASSUME Holding(t, x) # {}, NEW i, i = Inmost(Holding(t, x))
      PROVE  /\ i \in 1 .. Len(Stack(t)) /\ Stack(t)[i].k = "scope" /\ x \in DOMAIN Stack(t)[i].vars
             /\ FrameOK(Stack(t)[i], Live)
  <2>1. i \in Holding(t, x) /\ i \in 1 .. Len(Stack(t))
    BY <1>3, <1>4, <1>5
  <2>2. Stack(t)[i].k = "scope" /\ x \in DOMAIN Stack(t)[i].vars
    BY <2>1 DEF Holding, ScopesOf
  <2>3. QED BY <1>2, <2>1, <2>2
<1>6. ASSUME Defined(t, x) PROVE ValueOK(Lookup(t, x), Live)
  <2>1. CASE Holding(t, x) # {}
    <3>1. PICK i : i = Inmost(Holding(t, x))
      OBVIOUS
    <3>2. FrameOK(Stack(t)[i], Live) /\ Stack(t)[i].k = "scope" /\ x \in DOMAIN Stack(t)[i].vars
      BY <1>5, <2>1, <3>1
    <3>3. ValueOK(Stack(t)[i].vars[x], Live)
      BY <3>2 DEF FrameOK, ValuesOK
    <3>4. QED BY <2>1, <3>1, <3>3 DEF Lookup
  <2>2. CASE Holding(t, x) = {}
    <3>1. x \in DOMAIN root[Home(t)].vars
      BY <1>6, <2>2 DEF Defined
    <3>2. ValueOK(root[Home(t)].vars[x], Live)
      BY <1>1, <3>1 DEF Shapes, FieldsOK, ValuesOK
    <3>3. QED BY <2>2, <3>2 DEF Lookup
  <2>3. QED BY <2>1, <2>2
<1>7. QED BY <1>5, <1>6

-----------------------------------------------------------------------------
(* Steps that leave the stack alone.                                       *)

\* A field of a root is set that counts nothing.
LEMMA FieldSet ==
  ASSUME Shapes, NEW h \in Roots
  PROVE  /\ \A v : root' = [root EXCEPT ![h].cwd = v] => Alike(root, root') /\ FieldsOK(root', Live)
         /\ \A v : root' = [root EXCEPT ![h].ctx = v] => Alike(root, root') /\ FieldsOK(root', Live)
         /\ \A v : root' = [root EXCEPT ![h].hooks = v] => Alike(root, root') /\ FieldsOK(root', Live)
         /\ \A v : root' = [root EXCEPT ![h].handler = v] => Alike(root, root') /\ FieldsOK(root', Live)
         /\ \A v, c : root' = [root EXCEPT ![h].handler = v, ![h].code = c]
                        => Alike(root, root') /\ FieldsOK(root', Live)
         /\ \A v : ValuesOK(v, Live) /\ root' = [root EXCEPT ![h].vars = v]
                        => Alike(root, root') /\ FieldsOK(root', Live)
  BY DEF Shapes, FieldsOK, Alike

LEMMA QuietSteps ==
  ASSUME Shapes, NEW t \in Roots,
         EvalLit(t) \/ EvalVar(t) \/ EvalFn(t) \/ EvalJump(t) \/ EvalBind(t) \/ EvalUnbind(t)
           \/ EvalScreen(t) \/ EvalAttach(t) \/ Detach(t) \/ EvalKill(t) \/ EvalWait(t) \/ CmdStart(t)
  PROVE  Stepped(t)
<1>1. Stands(t)
  BY Standing DEF EvalLit, EvalVar, EvalFn, EvalJump, EvalBind, EvalUnbind, EvalScreen, EvalAttach, Detach,
     EvalKill, EvalWait, CmdStart, At, Doing
<1>2. root' = root
  BY DEF EvalLit, EvalVar, EvalFn, EvalJump, EvalBind, EvalUnbind, EvalScreen, EvalAttach, Detach,
     EvalKill, EvalWait, CmdStart
<1>3. ASSUME NEW c, Does(t, c), CtlOK(c, Stack(t), Live) PROVE Stepped(t)
  BY <1>2, <1>3, DoesOK, RootStays
<1>4. HasBase(Stack(t)) /\ Home(t) \in Live
  BY <1>1 DEF Stands
<1>5. /\ \A v : ValueOK(v, Live) => CtlOK(Val(v), Stack(t), Live)
      /\ \A x : CtlOK(Sig(x), Stack(t), Live)
      /\ CtlOK(Error, Stack(t), Live)
      /\ \A c : "do" \in DOMAIN c /\ c.do \in {"started", "running", "attached"} => CtlOK(c, Stack(t), Live)
  BY <1>4, EasyCtl
<1>6. CASE EvalLit(t)
  BY <1>3, <1>5, <1>6, EasyValues DEF EvalLit
<1>7. CASE EvalVar(t)
  BY <1>1, <1>3, <1>5, <1>7, LookupOK DEF EvalVar
<1>8. CASE EvalFn(t)
  <2>1. ValueOK(Closure(N(t), Home(t)), Live)
    BY <1>4 DEF Closure, ValueOK
  <2>2. QED BY <1>3, <1>5, <1>8, <2>1 DEF EvalFn
<1>9. CASE EvalJump(t)
  BY <1>3, <1>5, <1>9 DEF EvalJump
<1>10. CASE EvalBind(t) \/ EvalUnbind(t) \/ Detach(t) \/ EvalKill(t) \/ EvalWait(t)
  <2>1. Does(t, Val(Null)) \/ Does(t, Error)
    BY <1>10, Zenon DEF EvalBind, EvalUnbind, Detach, EvalKill, EvalWait
  <2>2. QED BY <1>3, <1>5, <2>1, EasyValues
<1>11. CASE EvalScreen(t) \/ EvalAttach(t) \/ CmdStart(t)
  <2>1. \/ Does(t, Val(Null)) \/ Does(t, Val(ErrorVal)) \/ Does(t, Error)
        \/ Does(t, [do |-> "started", n |-> N(t)]) \/ Does(t, [do |-> "attached"])
    BY <1>11, Zenon DEF EvalScreen, EvalAttach, CmdStart
  <2>2. \A n : "do" \in DOMAIN [do |-> "started", n |-> n] /\ [do |-> "started", n |-> n].do = "started"
    OBVIOUS
  <2>3. "do" \in DOMAIN [do |-> "attached"] /\ [do |-> "attached"].do = "attached"
    OBVIOUS
  <2>4. CtlOK([do |-> "started", n |-> N(t)], Stack(t), Live) /\ CtlOK([do |-> "attached"], Stack(t), Live)
    BY <1>5, <2>2, <2>3
  <2>5. QED BY <1>3, <1>5, <2>1, <2>4, EasyValues
<1>12. QED
  BY <1>6, <1>7, <1>8, <1>9, <1>10, <1>11

LEMMA FieldSteps ==
  ASSUME Shapes, NEW t \in Roots, EvalUnset(t) \/ EvalCd(t) \/ CmdHandler(t) \/ CmdEnds(t)
  PROVE  Stepped(t)
<1>1. Stands(t)
  BY Standing DEF EvalUnset, EvalCd, CmdHandler, CmdEnds, At, Doing
<1>2. HasBase(Stack(t)) /\ Home(t) \in Roots
  BY <1>1 DEF Stands
<1>3. ASSUME Alike(root, root'), FieldsOK(root', Live), NEW c, Does(t, c), CtlOK(c, Stack(t), Live)
      PROVE  Stepped(t)
  BY <1>3, DoesOK
<1>4. /\ \A v : ValueOK(v, Live) => CtlOK(Val(v), Stack(t), Live)
      /\ \A c : "do" \in DOMAIN c /\ c.do \in {"started", "running", "attached"} => CtlOK(c, Stack(t), Live)
  BY <1>2, EasyCtl
<1>5. CASE EvalUnset(t)
  <2>1. PICK reach : /\ root' = [root EXCEPT ![Home(t)].vars = [y \in DOMAIN root[Home(t)].vars \ reach |-> root[Home(t)].vars[y]]]
                     /\ Does(t, Val(Bool(reach # {})))
    BY <1>2, <1>5 DEF EvalUnset, Shapes, FieldsOK
  <2>2. ValuesOK([y \in DOMAIN root[Home(t)].vars \ reach |-> root[Home(t)].vars[y]], Live)
    BY <1>2 DEF ValuesOK, Shapes, FieldsOK
  <2>3. Alike(root, root') /\ FieldsOK(root', Live)
    BY <1>2, <2>1, <2>2, FieldSet
  <2>4. QED BY <1>3, <1>4, <2>1, <2>3, EasyValues
<1>6. CASE EvalCd(t)
  <2>1. Alike(root, root') /\ FieldsOK(root', Live)
    BY <1>2, <1>6, FieldSet, RootStays DEF EvalCd
  <2>2. QED BY <1>3, <1>4, <1>6, <2>1, EasyValues DEF EvalCd
<1>7. CASE CmdHandler(t)
  <2>1. Alike(root, root') /\ FieldsOK(root', Live)
    BY <1>2, <1>7, FieldSet DEF CmdHandler
  <2>2. PICK c : c = [do |-> "running", n |-> N(t), int |-> FALSE]
    OBVIOUS
  <2>3. "do" \in DOMAIN c /\ c.do = "running"
    BY <2>2
  <2>4. Does(t, c)
    BY <1>7, <2>2 DEF CmdHandler
  <2>5. QED BY <1>3, <1>4, <2>1, <2>3, <2>4
<1>8. CASE CmdEnds(t)
  <2>1. PICK how, code : /\ root' = [root EXCEPT ![Home(t)].handler = "none", ![Home(t)].code = code]
                         /\ Does(t, Val(IF how = "nostart" THEN ErrorVal ELSE Bytes))
    BY <1>2, <1>8 DEF CmdEnds, Shapes, FieldsOK
  <2>2. Alike(root, root') /\ FieldsOK(root', Live)
    BY <1>2, <2>1, FieldSet
  <2>3. ValueOK(IF how = "nostart" THEN ErrorVal ELSE Bytes, Live)
    BY EasyValues
  <2>4. QED BY <1>3, <1>4, <2>1, <2>2, <2>3
<1>9. QED
  BY <1>5, <1>6, <1>7, <1>8

-----------------------------------------------------------------------------
(* Steps that put a frame on the stack, or take one away.                  *)

\* A frame is pushed that undoes nothing.
LEMMA PushPlain ==
  ASSUME Shapes, root' = root, NEW t \in Roots, Stands(t), NEW f, FrameOK(f, Live), f.k \notin Marked,
         NEW c, Push(t, f, c), CtlOK(c, <<f>> \o Stack(t), Live)
  PROVE  Stepped(t)
<1>1. PICK u : u = <<f>> \o Stack(t)
  OBVIOUS
<1>2. StackOK(u, Live) /\ OneMore(u, f, Stack(t))
  BY <1>1, PushOK DEF Stands
<1>3. SameMarks(Stack(t), u)
  BY <1>2, PlainAdds
<1>4. Moved(Stack(t), u, root, root')
  BY <1>3, RootStays DEF Moved
<1>5. QED BY <1>1, <1>2, <1>4, GoesOK, RootStays DEF Push

\* The frame on top goes, and undid nothing.
LEMMA PopPlain ==
  ASSUME Shapes, NEW t \in Roots, Stack(t) # <<>>, Top(t).k \notin Marked, Alike(root, root'), FieldsOK(root', Live),
         NEW c, Pop(t, c), CtlOK(c, Tail(Stack(t)), Live)
  PROVE  Stepped(t)
<1>1. StackOK(Stack(t), Live)
  BY DEF Shapes, ThreadOK, Stack
<1>2. StackOK(Tail(Stack(t)), Live) /\ OneMore(Stack(t), Top(t), Tail(Stack(t)))
  BY <1>1, PopOK DEF Top
<1>3. SameMarks(Stack(t), Tail(Stack(t)))
  BY <1>2, PlainAdds
<1>4. QED BY <1>2, <1>3, GoesOK DEF Pop, Moved

\* It gives way to another that undoes nothing.
LEMMA ReplacePlain ==
  ASSUME Shapes, NEW t \in Roots, Stack(t) # <<>>, Top(t).k \notin Marked, Alike(root, root'), FieldsOK(root', Live),
         NEW f, FrameOK(f, Live), f.k \notin Marked, ~Inside(f) \/ Inside(Top(t)),
         NEW c, Goes(t, <<f>> \o Tail(Stack(t)), c), CtlOK(c, <<f>> \o Tail(Stack(t)), Live)
  PROVE  Stepped(t)
<1>1. StackOK(Stack(t), Live)
  BY DEF Shapes, ThreadOK, Stack
<1>2. PICK u : u = <<f>> \o Tail(Stack(t))
  OBVIOUS
<1>3. StackOK(u, Live) /\ OneMore(u, f, Tail(Stack(t))) /\ OneMore(Stack(t), Top(t), Tail(Stack(t)))
  BY <1>1, <1>2, PopOK, ReplaceOK DEF Top
<1>4. SameMarks(Stack(t), u)
  <2>1. SameMarks(Stack(t), Tail(Stack(t))) /\ SameMarks(Tail(Stack(t)), u)
    BY <1>3, PlainAdds
  <2>2. QED BY <2>1, SameIsSame
<1>5. QED BY <1>2, <1>3, <1>4, GoesOK DEF Moved

LEMMA PushSteps ==
  ASSUME Shapes, NEW t \in Roots, EvalFirst(t) \/ EvalOperands(t) \/ EvalWhile(t)
  PROVE  Stepped(t)
<1>1. Stands(t) /\ root' = root
  BY Standing DEF EvalFirst, EvalOperands, EvalWhile, At, Doing
<1>2. ASSUME NEW f, FrameOK(f, Live), f.k \notin Marked, Inside(f)
      PROVE  HasBase(<<f>> \o Stack(t))
  BY <1>1, <1>2, PushOK DEF Stands
<1>3. CASE EvalFirst(t)
  <2>1. PICK f, n : f = [k |-> N(t).op, n |-> N(t), first |-> TRUE] /\ Push(t, f, Eval(n))
    BY <1>3 DEF EvalFirst
  <2>2. "k" \in DOMAIN f /\ f.k \in {"def", "set", "if", "try", "and", "or"}
    BY <1>3, <2>1 DEF EvalFirst, Operand
  <2>3. FrameOK(f, Live) /\ f.k \notin Marked /\ Inside(f)
    BY <2>2, EasyFrames DEF Homed, Inside
  <2>4. CtlOK(Eval(n), <<f>> \o Stack(t), Live)
    BY <1>2, <2>3, EasyCtl
  <2>5. QED BY <1>1, <2>1, <2>3, <2>4, PushPlain
<1>4. CASE EvalOperands(t)
  <2>1. PICK f, n : f = [k |-> "args", n |-> N(t), got |-> <<>>] /\ Push(t, f, Eval(n))
    BY <1>4 DEF EvalOperands
  <2>2. "k" \in DOMAIN f /\ "got" \in DOMAIN f /\ f.k = "args" /\ f.got = <<>>
    BY <2>1
  <2>3. IsStack(<<>>) /\ ValuesOK(<<>>, Live)
    BY EmptyOK DEF StackOK, ValuesOK
  <2>4. FrameOK(f, Live) /\ f.k \notin Marked /\ Inside(f)
    BY <2>2, <2>3 DEF Homed, Inside, IsBase, Marked, FrameOK
  <2>5. CtlOK(Eval(n), <<f>> \o Stack(t), Live)
    BY <1>2, <2>4, EasyCtl
  <2>6. QED BY <1>1, <2>1, <2>4, <2>5, PushPlain
<1>5. CASE EvalWhile(t)
  <2>1. PICK f, c : f = [k |-> "while", n |-> N(t), part |-> "top"] /\ c = [do |-> "loop"]
    OBVIOUS
  <2>2. "k" \in DOMAIN f /\ f.k = "while" /\ "do" \in DOMAIN c /\ c.do = "loop" /\ Push(t, f, c)
    BY <1>5, <2>1 DEF EvalWhile
  <2>3. FrameOK(f, Live) /\ f.k \notin Marked /\ Inside(f)
    BY <2>2, EasyFrames DEF Homed, Inside
  <2>4. HasBase(<<f>> \o Stack(t)) /\ Head(<<f>> \o Stack(t)) = f
    BY <1>1, <1>2, <2>3, PushOK DEF Stands, OneMore
  <2>5. CtlOK(c, <<f>> \o Stack(t), Live)
    BY <2>2, <2>4 DEF CtlOK
  <2>6. QED BY <1>1, <2>2, <2>3, <2>5, PushPlain
<1>6. QED
  BY <1>3, <1>4, <1>5

-----------------------------------------------------------------------------
(* Steps that enter a block.                                               *)

LEMMA AddsPlain ==
  ASSUME NEW u, NEW f, NEW s, Adds(u, f, s), f.k \notin Marked
  PROVE  SameMarks(s, u)
  BY DEF Adds, AddsAt, SameMarks

\* A frame and the scope of a block on it.
LEMMA EnterOK ==
  ASSUME NEW L, NEW s, StackOK(s, L), NEW f, FrameOK(f, L), Inside(f) => HasBase(s),
         NEW l, NEW h \in L, NEW b, NEW a, l = "inner" => HasBase(s) \/ IsBase(f),
         NEW u, u = <<Scope(l, h, b, a)>> \o (<<f>> \o s)
  PROVE  StackOK(u, L) /\ Adds(u, f, s)
<1>1. PICK v, g : v = <<f>> \o s /\ g = Scope(l, h, b, a)
  OBVIOUS
<1>2. StackOK(v, L) /\ OneMore(v, f, s) /\ (HasBase(s) \/ IsBase(f) => HasBase(v))
  BY <1>1, PushOK
<1>3. FrameOK(g, L) /\ g.k \notin Marked /\ (Inside(g) => HasBase(v))
  BY <1>1, <1>2, EasyFrames
<1>4. StackOK(u, L) /\ OneMore(u, g, v)
  BY <1>1, <1>2, <1>3, PushOK
<1>5. Adds(v, f, s) /\ SameMarks(v, u) /\ SameMarks(s, s)
  BY <1>2, <1>3, <1>4, OneAdds, PlainAdds, SameIsSame
<1>6. QED BY <1>4, <1>5, SameAdds

\* The scope of a block alone.
LEMMA EnterBlock ==
  ASSUME NEW L, NEW s, StackOK(s, L), NEW l, NEW h \in L, NEW b, NEW a, l = "inner" => HasBase(s),
         NEW u, u = <<Scope(l, h, b, a)>> \o s
  PROVE  StackOK(u, L) /\ SameMarks(s, u)
<1>1. PICK g : g = Scope(l, h, b, a)
  OBVIOUS
<1>2. FrameOK(g, L) /\ g.k \notin Marked /\ (Inside(g) => HasBase(s))
  BY <1>1, EasyFrames
<1>3. StackOK(u, L) /\ OneMore(u, g, s)
  BY <1>1, <1>2, PushOK
<1>4. QED BY <1>2, <1>3, PlainAdds

LEMMA LoopTopStep ==
  ASSUME Shapes, NEW t \in Roots, LoopTop(t)
  PROVE  Stepped(t)
<1>1. Stands(t) /\ root' = root /\ Alike(root, root') /\ FieldsOK(root', Live)
  BY Standing, RootStays DEF LoopTop, Doing
<1>2. Top(t).k = "while"
  BY DEF Shapes, ThreadOK, CtlOK, LoopTop, Doing, Ctl, Top, Stack
<1>3. CASE Pop(t, Sig("cancelled"))
  BY <1>1, <1>2, <1>3, PopPlain, EasyCtl DEF Stands, Marked
<1>4. CASE ~IsCancelled(Home(t))
  <2>1. PICK f, n : f = [Top(t) EXCEPT !.part = "cond"] /\ Goes(t, <<f>> \o Tail(Stack(t)), Eval(n))
    BY <1>4 DEF LoopTop
  <2>2. FrameOK(Top(t), Live)
    BY <1>1, PopOK DEF Stands, Top
  <2>3. "k" \in DOMAIN f /\ f.k = "while"
    BY <1>2, <2>1, <2>2 DEF FrameOK
  <2>4. FrameOK(f, Live) /\ f.k \notin Marked /\ Inside(f) /\ Inside(Top(t)) /\ ~IsBase(Top(t))
    BY <1>2, <2>3, EasyFrames DEF Homed, Inside, IsBase
  <2>5. HasBase(<<f>> \o Tail(Stack(t)))
    BY <1>1, <2>4, ReplaceOK DEF Stands, Top
  <2>6. CtlOK(Eval(n), <<f>> \o Tail(Stack(t)), Live)
    BY <2>5, EasyCtl
  <2>7. QED BY <1>1, <1>2, <2>1, <2>4, <2>6, ReplacePlain DEF Stands, Marked
<1>5. QED
  BY <1>3, <1>4 DEF LoopTop

LEMMA AtHostStep ==
  ASSUME Shapes, NEW t \in Roots, EvalAtHost(t)
  PROVE  Stepped(t)
<1>1. Stands(t) /\ root' = root /\ Alike(root, root') /\ FieldsOK(root', Live)
  BY Standing, RootStays DEF EvalAtHost, At, Doing
<1>2. CASE Does(t, Error)
  BY <1>1, <1>2, DoesOK, EasyCtl
<1>3. ASSUME NEW u, u = <<Scope("inner", Home(t), N(t).body, N(t).host)>> \o (<<[k |-> "at"]>> \o Stack(t)),
             Goes(t, u, Val(Null))
      PROVE  Stepped(t)
  <2>1. PICK f : f = [k |-> "at"]
    OBVIOUS
  <2>2. "k" \in DOMAIN f /\ f.k = "at"
    BY <2>1
  <2>3. FrameOK(f, Live) /\ f.k \notin Marked
    BY <2>2, EasyFrames DEF Homed
  <2>4. StackOK(u, Live) /\ Adds(u, f, Stack(t))
    BY <1>1, <1>3, <2>1, <2>3, EnterOK DEF Stands
  <2>5. Moved(Stack(t), u, root, root')
    BY <1>1, <2>3, <2>4, AddsPlain DEF Moved
  <2>6. QED BY <1>1, <1>3, <2>4, <2>5, GoesOK, EasyCtl, EasyValues
<1>4. QED
  BY <1>2, <1>3 DEF EvalAtHost, Enter

LEMMA InNSStep ==
  ASSUME Shapes, Balanced(th, root), NEW t \in Roots, EvalInNS(t)
  PROVE  Stepped(t)
<1>1. Stands(t)
  BY Standing DEF EvalInNS, At, Doing
<1>2. PICK new, f, u :
        /\ new \in Spaces
        /\ root' = [root EXCEPT ![Home(t)].ns = new]
        /\ f = [k |-> "in_ns", home |-> Home(t), prev |-> root[Home(t)].ns]
        /\ u = <<Scope("inner", Home(t), N(t).body, "local")>> \o (<<f>> \o Stack(t))
        /\ Goes(t, u, Val(Null))
  BY DEF EvalInNS, Enter
<1>3. f.k = "in_ns" /\ f.home = Home(t) /\ f.prev = root[Home(t)].ns /\ DOMAIN f = {"k", "home", "prev"}
  BY <1>2
<1>4. FrameOK(f, Live)
  BY <1>1, <1>3 DEF FrameOK, Balanced, Stands, Homed
<1>5. StackOK(u, Live) /\ Adds(u, f, Stack(t))
  BY <1>1, <1>2, <1>4, EnterOK DEF Stands
<1>6. Opened(f, root, root')
  BY <1>1, <1>2, <1>3 DEF Opened, Shapes, FieldsOK, Stands
<1>7. FieldsOK(root', Live)
  BY <1>1, <1>2 DEF Shapes, FieldsOK, Stands
<1>8. Moved(Stack(t), u, root, root')
  BY <1>5, <1>6 DEF Moved
<1>9. QED
  BY <1>2, <1>5, <1>7, <1>8, GoesOK, EasyCtl, EasyValues

LEMMA SourceStep ==
  ASSUME Shapes, Balanced(th, root), NEW t \in Roots, EvalSource(t)
  PROVE  Stepped(t)
<1>1. Stands(t)
  BY Standing DEF EvalSource, At, Doing
<1>2. CASE (Does(t, Val(ErrorVal)) \/ Does(t, Error)) /\ root' = root
  BY <1>1, <1>2, DoesOK, RootStays, EasyCtl, EasyValues
<1>3. ASSUME root[Home(t)].sdepth < MaxSourceDepth, root' = [root EXCEPT ![Home(t)].sdepth = @ + 1],
             NEW f, f = [k |-> "source", home |-> Home(t)], NEW u, NEW v, Goes(t, u, Val(v)), ValueOK(v, Live),
             \/ u = <<f>> \o Stack(t)
             \/ \E p : u = <<Scope("root", Home(t), p, "local")>> \o (<<f>> \o Stack(t))
      PROVE  Stepped(t)
  <2>1. f.k = "source" /\ f.home = Home(t) /\ DOMAIN f = {"k", "home"}
    BY <1>3
  <2>2. FrameOK(f, Live) /\ ~Inside(f)
    BY <1>1, <2>1 DEF FrameOK, Stands, Inside
  <2>3. StackOK(u, Live) /\ Adds(u, f, Stack(t))
    BY <1>1, <1>3, <2>2, EnterOK, PushOK, OneAdds DEF Stands
  <2>4. Opened(f, root, root')
    BY <1>1, <1>3, <2>1 DEF Opened, Shapes, FieldsOK, Stands
  <2>5. FieldsOK(root', Live)
    BY <1>1, <1>3 DEF Shapes, FieldsOK, Stands
  <2>6. Moved(Stack(t), u, root, root')
    BY <2>3, <2>4 DEF Moved
  <2>7. QED
    BY <1>3, <2>3, <2>5, <2>6, GoesOK, EasyCtl
<1>4. CASE ~((Does(t, Val(ErrorVal)) \/ Does(t, Error)) /\ root' = root)
  <2>1. PICK f : f = [k |-> "source", home |-> Home(t)]
    OBVIOUS
  <2>2. /\ root[Home(t)].sdepth < MaxSourceDepth /\ root' = [root EXCEPT ![Home(t)].sdepth = @ + 1]
        /\ \/ Goes(t, <<f>> \o Stack(t), Val(ErrorVal))
           \/ \E p : Goes(t, <<Scope("root", Home(t), p, "local")>> \o (<<f>> \o Stack(t)), Val(Null))
    BY <1>4, <2>1 DEF EvalSource, Enter
  <2>3. PICK u, v : /\ Goes(t, u, Val(v)) /\ v \in {Null, ErrorVal}
                    /\ \/ u = <<f>> \o Stack(t)
                       \/ \E p : u = <<Scope("root", Home(t), p, "local")>> \o (<<f>> \o Stack(t))
    BY <2>2
  <2>4. ValueOK(v, Live)
    BY <2>3, EasyValues
  <2>5. QED
    BY <1>3, <2>1, <2>2, <2>3, <2>4
<1>5. QED
  BY <1>2, <1>4

LEMMA ConfigRuns ==
  ASSUME Shapes, NEW t \in Roots, Stands(t), root' = root, NEW s, StackOK(s, Live), SameMarks(Stack(t), s),
         RunConfig(t, s)
  PROVE  Stepped(t)
<1>1. PICK f, u : /\ f = [k |-> "config", home |-> Home(t), files |-> Config]
                  /\ u = <<f>> \o s /\ Goes(t, u, Val(Null))
  BY DEF RunConfig
<1>2. f.k = "config" /\ f.home = Home(t) /\ DOMAIN f = {"k", "home", "files"}
  BY <1>1
<1>3. FrameOK(f, Live) /\ ~Inside(f) /\ f.k \notin Marked
  BY <1>2 DEF FrameOK, Stands, Inside, Marked
<1>4. StackOK(u, Live) /\ OneMore(u, f, s)
  BY <1>1, <1>3, PushOK
<1>5. SameMarks(Stack(t), u)
  BY <1>3, <1>4, PlainAdds, SameIsSame
<1>6. Moved(Stack(t), u, root, root')
  BY <1>5, RootStays DEF Moved
<1>7. QED
  BY <1>1, <1>4, <1>6, GoesOK, RootStays, EasyCtl, EasyValues

LEMMA ConfigSteps ==
  ASSUME Shapes, NEW t \in Roots, EvalSourceConfig(t) \/ EvalResetConfig(t) \/ ResetStep(t)
  PROVE  Stepped(t)
<1>1. Stands(t)
  BY Standing DEF EvalSourceConfig, EvalResetConfig, ResetStep, At, Doing
<1>2. CASE Does(t, Error) /\ root' = root
  BY <1>1, <1>2, DoesOK, RootStays, EasyCtl
<1>3. CASE EvalSourceConfig(t) /\ ~(Does(t, Error) /\ root' = root)
  <2>1. RunConfig(t, Stack(t)) /\ root' = root
    BY <1>3 DEF EvalSourceConfig
  <2>2. QED BY <1>1, <2>1, ConfigRuns, SameIsSame DEF Stands
<1>4. CASE EvalResetConfig(t) /\ ~(Does(t, Error) /\ root' = root)
  <2>1. PICK f, c : /\ f = [k |-> "reset", names |-> SetToSeq(Bound(t) \ Protected)] /\ c = [do |-> "reset"]
                    /\ Push(t, f, c) /\ root' = [root EXCEPT ![Home(t)].vars = <<>>]
    BY <1>4 DEF EvalResetConfig
  <2>2. "k" \in DOMAIN f /\ f.k = "reset" /\ "do" \in DOMAIN c /\ c.do = "reset"
    BY <2>1
  <2>3. FrameOK(f, Live) /\ f.k \notin Marked /\ Inside(f)
    BY <2>2, EasyFrames DEF Homed, Inside
  <2>4. PICK u : u = <<f>> \o Stack(t)
    OBVIOUS
  <2>5. StackOK(u, Live) /\ OneMore(u, f, Stack(t)) /\ HasBase(u)
    BY <1>1, <2>3, <2>4, PushOK DEF Stands
  <2>6. CtlOK(c, u, Live)
    BY <2>2, <2>5 DEF CtlOK, OneMore
  <2>7. Alike(root, root') /\ FieldsOK(root', Live)
    <3>1. ValuesOK(<<>>, Live)
      BY DEF ValuesOK
    <3>2. QED BY <1>1, <2>1, <3>1, FieldSet DEF Stands
  <2>8. Moved(Stack(t), u, root, root')
    BY <2>3, <2>5, <2>7, PlainAdds DEF Moved
  <2>9. QED BY <2>1, <2>4, <2>5, <2>6, <2>7, <2>8, GoesOK DEF Push
<1>5. CASE ResetStep(t)
  <2>1. root' = root /\ Alike(root, root') /\ FieldsOK(root', Live) /\ Top(t).k = "reset" /\ Ctl(t).do = "reset"
    BY <1>5, RootStays DEF ResetStep, Doing, Shapes, ThreadOK, CtlOK, Ctl, Top, Stack
  <2>2. /\ StackOK(Tail(Stack(t)), Live) /\ FrameOK(Top(t), Live) /\ OneMore(Stack(t), Top(t), Tail(Stack(t)))
        /\ Inside(Top(t)) /\ ~IsBase(Top(t)) /\ Top(t).k \notin Marked
    BY <1>1, <2>1, PopOK DEF Stands, Top, Inside, IsBase, Marked
  <2>3. SameMarks(Stack(t), Tail(Stack(t)))
    BY <2>2, PlainAdds
  <2>4. CASE RunConfig(t, Tail(Stack(t)))
    BY <1>1, <2>1, <2>2, <2>3, <2>4, ConfigRuns
  <2>5. CASE Pop(t, Val(ErrorVal))
    BY <1>1, <2>1, <2>2, <2>5, PopPlain, EasyCtl, EasyValues DEF Stands
  <2>6. ASSUME NEW f, f = [Top(t) EXCEPT !.names = Tail(@)], NEW c, c = [do |-> "reset"],
               Goes(t, <<f>> \o Tail(Stack(t)), c)
        PROVE  Stepped(t)
    <3>1. "k" \in DOMAIN f /\ f.k = "reset" /\ "do" \in DOMAIN c /\ c.do = "reset"
      BY <2>1, <2>2, <2>6 DEF FrameOK
    <3>2. FrameOK(f, Live) /\ f.k \notin Marked /\ Inside(f)
      BY <3>1, EasyFrames DEF Homed, Inside
    <3>3. HasBase(<<f>> \o Tail(Stack(t))) /\ Head(<<f>> \o Tail(Stack(t))) = f
      BY <1>1, <2>2, <3>2, ReplaceOK DEF Stands, Top, OneMore
    <3>4. CtlOK(c, <<f>> \o Tail(Stack(t)), Live)
      BY <3>1, <3>3 DEF CtlOK
    <3>5. QED BY <1>1, <2>1, <2>2, <2>6, <3>2, <3>4, ReplacePlain DEF Stands
  <2>7. QED BY <1>5, <2>4, <2>5, <2>6 DEF ResetStep
<1>6. QED
  BY <1>2, <1>3, <1>4, <1>5

-----------------------------------------------------------------------------
(* A value or a signal comes to a frame.                                   *)

LEMMA TopIs ==
  ASSUME Shapes, NEW t \in Roots, Stack(t) # <<>>
  PROVE  /\ StackOK(Stack(t), Live) /\ StackOK(Tail(Stack(t)), Live) /\ FrameOK(Top(t), Live)
         /\ OneMore(Stack(t), Top(t), Tail(Stack(t)))
         /\ Inside(Top(t)) => HasBase(Tail(Stack(t))) /\ HasBase(Stack(t))
         /\ Ctl(t).do = "val" => ValueOK(Ctl(t).v, Live)
<1>1. StackOK(Stack(t), Live) /\ (Ctl(t).do = "val" => ValueOK(Ctl(t).v, Live))
  BY DEF Shapes, ThreadOK, CtlOK, Stack, Ctl
<1>2. /\ StackOK(Tail(Stack(t)), Live) /\ FrameOK(Top(t), Live)
      /\ OneMore(Stack(t), Top(t), Tail(Stack(t))) /\ (Inside(Top(t)) => HasBase(Tail(Stack(t))))
  BY <1>1, PopOK DEF Top
<1>3. HasBase(Tail(Stack(t))) => HasBase(Stack(t))
  <2>1. /\ Len(Tail(Stack(t))) \in Nat /\ Len(Stack(t)) = Len(Tail(Stack(t))) + 1
        /\ \A h \in 1 .. Len(Tail(Stack(t))) : FrameAt(Stack(t), h) = FrameAt(Tail(Stack(t)), h)
    BY <1>2 DEF OneMore
  <2>2. \A h \in 1 .. Len(Tail(Stack(t))) : h \in 1 .. Len(Stack(t))
    BY <2>1
  <2>3. QED BY <2>1, <2>2 DEF HasBase
<1>4. QED BY <1>1, <1>2, <1>3

\* The frame is left, and undoes what it has to.
LEMMA LeaveOK ==
  ASSUME Shapes, NEW t \in Roots, Stack(t) # <<>>, root' = Undone(Top(t)),
         NEW c, Pop(t, c), CtlOK(c, Tail(Stack(t)), Live)
  PROVE  Stepped(t)
<1>1. /\ StackOK(Tail(Stack(t)), Live) /\ FrameOK(Top(t), Live)
      /\ OneMore(Stack(t), Top(t), Tail(Stack(t)))
  BY TopIs
<1>2. Top(t).k \in Marked => Top(t).home \in Roots
  BY <1>1 DEF FrameOK, Live, Marked, Homed
<1>3. Closed(Top(t), root, root') /\ FieldsOK(root', Live)
  <2>1. CASE Top(t).k = "call"
    BY <1>2, <2>1 DEF Undone, Closed, Shapes, FieldsOK, Marked
  <2>2. CASE Top(t).k = "source"
    BY <1>2, <2>2 DEF Undone, Closed, Shapes, FieldsOK, Marked
  <2>3. CASE Top(t).k = "in_ns"
    <3>1. Top(t).prev \in Spaces
      BY <1>1, <2>3 DEF FrameOK
    <3>2. QED BY <1>2, <2>3, <3>1 DEF Undone, Closed, Shapes, FieldsOK, Marked
  <2>4. CASE Top(t).k \notin Marked
    BY <2>4 DEF Undone, Closed, Shapes, FieldsOK, Marked
  <2>5. QED BY <2>1, <2>2, <2>3, <2>4 DEF Marked
<1>4. Moved(Stack(t), Tail(Stack(t)), root, root')
  BY <1>1, <1>3, OneAdds DEF Moved
<1>5. QED BY <1>1, <1>3, <1>4, GoesOK DEF Pop

LEMMA UnwindStep ==
  ASSUME Shapes, NEW t \in Roots, Unwind(t)
  PROVE  Stepped(t)
<1>1. Stack(t) # <<>> /\ FrameOK(Top(t), Live)
  BY TopIs DEF Unwind
<1>2. CASE Top(t).k = "while" /\ Pop(t, Val(Null)) /\ root' = root
  BY <1>1, <1>2, PopPlain, RootStays, EasyCtl, EasyValues DEF Marked
<1>3. CASE Top(t).k = "while" /\ Does(t, [do |-> "loop"]) /\ root' = root
  <2>1. HasBase(Stack(t)) /\ Top(t) = Head(Stack(t))
    BY <1>1, <1>3, TopIs DEF Inside, IsBase, Top
  <2>2. CtlOK([do |-> "loop"], Stack(t), Live)
    BY <1>3, <2>1 DEF CtlOK
  <2>3. QED BY <1>3, <2>2, DoesOK, RootStays
<1>4. CASE Does(t, Val(Null)) /\ root' = root
  BY <1>4, DoesOK, RootStays, EasyCtl, EasyValues
<1>5. ASSUME root' = Undone(Top(t)), NEW c, Pop(t, c), c = Error \/ c = Ctl(t), Ctl(t).do = "sig"
      PROVE  Stepped(t)
  <2>1. "do" \in DOMAIN Ctl(t)
    BY DEF Shapes, ThreadOK, CtlOK, Ctl
  <2>2. CtlOK(c, Tail(Stack(t)), Live)
    BY <1>5, <2>1, EasyCtl DEF CtlOK
  <2>3. QED BY <1>1, <1>5, <2>2, LeaveOK
<1>6. Ctl(t).do = "sig"
  BY DEF Unwind, Doing
<1>7. CASE root' = Undone(Top(t)) /\ (Pop(t, Error) \/ Pop(t, Ctl(t)))
  BY <1>5, <1>6, <1>7
<1>8. QED
  BY <1>2, <1>3, <1>4, <1>7 DEF Unwind

LEMMA CallOK ==
  ASSUME Shapes, NEW t \in Roots, NEW s, StackOK(s, Live), SameMarks(Stack(t), s), NEW f, ValueOK(f, Live), NEW n,
         Call(t, s, f, n)
  PROVE  Stepped(t)
<1>1. CASE root' = root /\ (Goes(t, s, Error) \/ Goes(t, s, Sig("cancelled")))
  <2>1. Moved(Stack(t), s, root, root')
    BY <1>1, RootStays DEF Moved
  <2>2. QED BY <1>1, <2>1, GoesOK, RootStays, EasyCtl
<1>2. CASE f.kind = "fn" /\ root[f.home].depth < MaxCallDepth /\ root' = [root EXCEPT ![f.home].depth = @ + 1]
           /\ LET r == <<[k |-> "call", home |-> f.home]>> \o s IN
              IF n # f.params THEN Goes(t, r, Error) ELSE Enter(t, r, Scope("call", f.home, f.body, "local"))
  <2>1. f.home \in Live /\ f.home \in Roots
    BY <1>2 DEF ValueOK, Live
  <2>2. PICK g : g = [k |-> "call", home |-> f.home]
    OBVIOUS
  <2>3. g.k = "call" /\ g.home = f.home /\ DOMAIN g = {"k", "home"}
    BY <2>2
  <2>4. FrameOK(g, Live) /\ ~Inside(g)
    BY <2>1, <2>3 DEF FrameOK, Inside
  <2>5. PICK u, c : /\ Goes(t, u, c) /\ c \in {Error, Val(Null)}
                    /\ u = <<g>> \o s \/ u = <<Scope("call", f.home, f.body, "local")>> \o (<<g>> \o s)
    BY <1>2, <2>2 DEF Enter
  <2>6. StackOK(u, Live) /\ Adds(u, g, s)
    BY <2>1, <2>4, <2>5, PushOK, OneAdds, EnterOK
  <2>7. Opened(g, root, root') /\ FieldsOK(root', Live)
    BY <1>2, <2>1, <2>3 DEF Opened, Shapes, FieldsOK
  <2>8. Adds(u, g, Stack(t))
    BY <2>6, SameAdds, SameIsSame
  <2>9. Moved(Stack(t), u, root, root')
    BY <2>7, <2>8 DEF Moved
  <2>10. CtlOK(c, u, Live)
    BY <2>5, EasyCtl, EasyValues
  <2>11. QED BY <2>5, <2>6, <2>7, <2>9, <2>10, GoesOK
<1>3. QED BY <1>1, <1>2 DEF Call

LEMMA SetOK ==
  ASSUME NEW L, NEW f, ValuesOK(f, L), NEW x, NEW v, ValueOK(v, L)
  PROVE  ValuesOK(Set(f, x, v), L)
  BY DEF ValuesOK, Set

\* What is open stays open if the frame on top only changes what is of no matter to that.
LEMMA SwapMarks ==
  ASSUME NEW s, NEW u, NEW w, NEW f, NEW g, OneMore(s, f, w), OneMore(u, g, w), g.k = f.k,
         f.k \in Marked => g.home = f.home, f.k = "in_ns" => g.prev = f.prev
  PROVE  SameMarks(s, u)
<1>1. /\ Len(s) = Len(w) + 1 /\ Len(u) = Len(s) /\ Len(w) \in Nat
      /\ FrameAt(s, Len(s)) = f /\ FrameAt(u, Len(s)) = g
      /\ \A h \in 1 .. Len(w) : FrameAt(u, h) = FrameAt(s, h)
  BY DEF OneMore
<1>2. \A h \in 1 .. Len(s) : h = Len(s) \/ h \in 1 .. Len(w)
  BY <1>1
<1>3. \A h \in 1 .. Len(s) : /\ FrameAt(u, h).k = FrameAt(s, h).k
                             /\ FrameAt(s, h).k \in Marked => FrameAt(u, h).home = FrameAt(s, h).home
                             /\ FrameAt(s, h).k = "in_ns" => FrameAt(u, h).prev = FrameAt(s, h).prev
  BY <1>1, <1>2
<1>4. ASSUME NEW k \in Marked, NEW r PROVE Marks(u, k, r) = Marks(s, k, r)
  BY <1>1, <1>3 DEF Marks
<1>5. \A r : \A h \in Marks(s, "in_ns", r) : FrameAt(u, h).prev = FrameAt(s, h).prev
  BY <1>3 DEF Marks
<1>6. QED BY <1>4, <1>5 DEF SameMarks

LEMMA DefineOK ==
  ASSUME Shapes, NEW t \in Roots, Stack(t) # <<>>, Top(t).k = "def", NEW x, NEW v, ValueOK(v, Live),
         Define(t, Tail(Stack(t)), x, v)
  PROVE  Stepped(t)
<1>. DEFINE s == Tail(Stack(t))  f == Head(s)  w == Tail(s)
<1>1. StackOK(s, Live) /\ HasBase(s) /\ s # <<>> /\ OneMore(Stack(t), Top(t), s)
  BY TopIs, BaseIs DEF Inside, IsBase
<1>2. SameMarks(Stack(t), s)
  BY <1>1, PlainAdds DEF Marked
<1>3. CASE root' = [root EXCEPT ![f.home].vars = Set(@, x, v)] /\ Goes(t, s, Val(Null))
  <2>1. f.home \in Roots => ValuesOK(Set(root[f.home].vars, x, v), Live)
    BY SetOK DEF Shapes, FieldsOK
  <2>2. Alike(root, root') /\ FieldsOK(root', Live)
    BY <1>3, <2>1 DEF Shapes, FieldsOK, Alike
  <2>3. Moved(Stack(t), s, root, root')
    BY <1>2, <2>2 DEF Moved
  <2>4. QED BY <1>1, <1>3, <2>2, <2>3, GoesOK, EasyCtl, EasyValues
<1>4. ASSUME NEW g, g = [f EXCEPT !.vars = Set(@, x, v)], Goes(t, <<g>> \o w, Val(Null)), root' = root
      PROVE  Stepped(t)
  <2>1. FrameOK(f, Live) /\ OneMore(s, f, w)
    BY <1>1, PopOK
  <2>2. /\ g.k = f.k /\ DOMAIN g = DOMAIN f
        /\ \A y \in DOMAIN f : y # "vars" => g[y] = f[y]
        /\ "vars" \in DOMAIN f => g.vars = Set(f.vars, x, v)
    BY <1>4, <2>1 DEF FrameOK
  <2>3. /\ f.k \in Homed => g.home = f.home
        /\ f.k = "in_ns" => g.prev = f.prev
        /\ f.k = "args" => g.got = f.got
        /\ f.k = "scope" => g.level = f.level /\ ValuesOK(g.vars, Live)
    BY <2>1, <2>2, SetOK DEF FrameOK
  <2>4. FrameOK(g, Live)
    BY <2>1, <2>2, <2>3 DEF FrameOK
  <2>5. (Inside(g) <=> Inside(f)) /\ (IsBase(g) <=> IsBase(f))
    BY <2>2, <2>3 DEF Inside, IsBase
  <2>6. PICK u : u = <<g>> \o w
    OBVIOUS
  <2>7. StackOK(u, Live) /\ OneMore(u, g, w)
    BY <1>1, <2>4, <2>5, <2>6, ReplaceOK
  <2>8. SameMarks(s, u)
    BY <2>1, <2>2, <2>3, <2>7, SwapMarks DEF Marked, Homed
  <2>9. Moved(Stack(t), u, root, root')
    BY <1>2, <1>4, <2>8, SameIsSame, RootStays DEF Moved
  <2>10. QED BY <1>4, <2>6, <2>7, <2>9, GoesOK, RootStays, EasyCtl, EasyValues
<1>5. QED BY <1>3, <1>4 DEF Define

LEMMA AssignOK ==
  ASSUME Shapes, NEW t \in Roots, Stack(t) # <<>>, Top(t).k = "set", NEW x, NEW v, ValueOK(v, Live), Assign(t, x, v)
  PROVE  Stepped(t)
<1>. DEFINE s == Stack(t)
<1>1. StackOK(s, Live) /\ HasBase(s) /\ OneMore(s, Top(t), Tail(s)) /\ Top(t).k \notin Marked
  BY TopIs DEF Inside, IsBase, Marked
<1>2. Stands(t)
  BY <1>1, HomeIs
<1>3. CASE Pop(t, Error) /\ root' = root
  BY <1>1, <1>3, PopPlain, RootStays, EasyCtl
<1>4. CASE x \in DOMAIN root[Home(t)].vars /\ root' = [root EXCEPT ![Home(t)].vars[x] = v] /\ Pop(t, Val(Null))
  <2>1. PICK w : w = [root[Home(t)].vars EXCEPT ![x] = v]
    OBVIOUS
  <2>2. ValuesOK(w, Live)
    BY <1>2, <1>4, <2>1 DEF Stands, Shapes, FieldsOK, ValuesOK
  <2>3. root' = [root EXCEPT ![Home(t)].vars = w]
    BY <1>2, <1>4, <2>1 DEF Stands, Shapes, FieldsOK
  <2>4. Alike(root, root') /\ FieldsOK(root', Live)
    BY <1>2, <2>2, <2>3, FieldSet DEF Stands
  <2>5. QED BY <1>1, <1>4, <2>4, PopPlain, EasyCtl, EasyValues
<1>5. CASE Holding(t, x) # {}
  <2>1. PICK i : i = Inmost(Holding(t, x))
    OBVIOUS
  <2>2. i \in 1 .. Len(s) /\ s[i].k = "scope" /\ x \in DOMAIN s[i].vars /\ FrameOK(s[i], Live)
    BY <1>2, <1>5, <2>1, LookupOK
  <2>3. PICK w, f, z : /\ w = [s[i].vars EXCEPT ![x] = v] /\ f = [s[i] EXCEPT !.vars = w]
                       /\ z = Altered(s, i, f)
    OBVIOUS
  <2>4. z = [s EXCEPT ![i].vars[x] = v]
    <3>1. IsStack(s) /\ DOMAIN s = 1 .. Len(s)
      BY <1>1, StackIs DEF StackOK
    <3>2. QED BY <2>2, <2>3, <3>1 DEF Altered
  <2>5. Goes(t, Tail(z), Val(Null)) /\ root' = root
    BY <1>5, <2>1, <2>4 DEF Assign
  <2>6. ValuesOK(w, Live)
    BY <2>2, <2>3 DEF FrameOK, ValuesOK
  <2>7. /\ f.k = "scope" /\ DOMAIN f = DOMAIN s[i] /\ f.home = s[i].home /\ f.level = s[i].level /\ f.vars = w
    BY <2>2, <2>3 DEF FrameOK, Homed
  <2>8. FrameOK(f, Live) /\ (Inside(f) <=> Inside(s[i])) /\ (IsBase(f) <=> IsBase(s[i]))
    BY <2>2, <2>6, <2>7 DEF FrameOK, Inside, IsBase, Homed
  <2>9. StackOK(z, Live) /\ SameMarks(s, z) /\ Len(z) = Len(s)
    <3>1. IsStack(s) /\ f.k \notin Marked /\ s[i].k \notin Marked /\ z = Altered(s, i, f)
      BY <1>1, <2>2, <2>3, <2>7 DEF StackOK, Marked
    <3>2. StackOK(z, Live)
      BY <1>1, <2>2, <2>8, <3>1, ChangeOK
    <3>3. SameMarks(s, z)
      BY <2>2, <3>1, ChangeMarks
    <3>4. Len(z) = Len(s)
      BY <2>2, <3>1, Changed
    <3>. QED BY <3>2, <3>3, <3>4
  <2>10. z # <<>>
    BY <2>2, <2>3, <2>9, BaseIs, ChangeOK, <1>1, <2>8
  <2>11. StackOK(Tail(z), Live) /\ OneMore(z, Head(z), Tail(z))
    BY <2>9, <2>10, PopOK
  <2>12. Head(z).k \notin Marked
    <3>1. FrameAt(z, Len(s)) = Head(z) /\ FrameAt(s, Len(s)) = Top(t) /\ Len(s) \in 1 .. Len(s)
      BY <1>1, <2>9, <2>11 DEF OneMore
    <3>2. FrameAt(z, Len(s)) \in {f, FrameAt(s, Len(s))}
      BY <1>1, <2>2, <2>3, <3>1, Changed DEF StackOK
    <3>3. QED BY <1>1, <2>7, <3>1, <3>2 DEF Marked
  <2>13. SameMarks(s, Tail(z))
    BY <2>9, <2>11, <2>12, PlainAdds, SameIsSame
  <2>14. Moved(s, Tail(z), root, root')
    BY <2>5, <2>13, RootStays DEF Moved
  <2>15. QED BY <2>5, <2>11, <2>14, GoesOK, RootStays, EasyCtl, EasyValues
<1>6. QED BY <1>3, <1>4, <1>5 DEF Assign

-----------------------------------------------------------------------------
(* The frames a value may come to.                                         *)

LEMMA ScopeReturn ==
  ASSUME Shapes, NEW t \in Roots, Stack(t) # <<>>, Top(t).k = "scope", NEW v, ValueOK(v, Live), ReturnToScope(t, v)
  PROVE  Stepped(t)
<1>. DEFINE f == Top(t)
<1>1. /\ StackOK(Stack(t), Live) /\ FrameOK(f, Live) /\ f.k \notin Marked /\ root' = root
      /\ OneMore(Stack(t), f, Tail(Stack(t))) /\ (Inside(f) => HasBase(Tail(Stack(t))))
  BY TopIs DEF Marked, ReturnToScope
<1>2. CASE Pop(t, Val(v))
  BY <1>1, <1>2, PopPlain, RootStays, EasyCtl
<1>3. ASSUME NEW g, g = [f EXCEPT !.todo = Tail(@)], NEW n, Goes(t, <<g>> \o Tail(Stack(t)), Eval(n))
      PROVE  Stepped(t)
  <2>1. /\ g.k = "scope" /\ DOMAIN g = DOMAIN f /\ g.home = f.home /\ g.level = f.level /\ g.vars = f.vars
    BY <1>1, <1>3 DEF FrameOK, Homed
  <2>2. FrameOK(g, Live) /\ (Inside(g) <=> Inside(f)) /\ (IsBase(g) <=> IsBase(f)) /\ g.k \notin Marked
    BY <1>1, <2>1 DEF FrameOK, Inside, IsBase, Homed, Marked
  <2>3. HasBase(<<g>> \o Tail(Stack(t)))
    <3>1. HasBase(Tail(Stack(t))) \/ IsBase(g)
      BY <1>1, <2>2 DEF Inside
    <3>2. StackOK(Tail(Stack(t)), Live) /\ (Inside(g) => HasBase(Tail(Stack(t))))
      BY <1>1, <2>2, TopIs
    <3>3. QED BY <2>2, <3>1, <3>2, PushOK
  <2>4. QED BY <1>1, <1>3, <2>2, <2>3, ReplacePlain, RootStays, EasyCtl
<1>4. QED BY <1>2, <1>3 DEF ReturnToScope

\* The frames that evaluate something more in the scope beneath.
LEMMA AgainOK ==
  ASSUME Shapes, root' = root, NEW t \in Roots, Stack(t) # <<>>, Inside(Top(t)), Top(t).k \notin Marked,
         NEW g, FrameOK(g, Live), g.k \notin Marked, Inside(g), NEW n, Goes(t, <<g>> \o Tail(Stack(t)), Eval(n))
  PROVE  Stepped(t)
<1>1. StackOK(Tail(Stack(t)), Live) /\ HasBase(Tail(Stack(t)))
  BY TopIs
<1>2. HasBase(<<g>> \o Tail(Stack(t)))
  BY <1>1, PushOK
<1>3. QED BY <1>2, ReplacePlain, RootStays, EasyCtl

LEMMA BranchReturn ==
  ASSUME Shapes, NEW t \in Roots, Stack(t) # <<>>, NEW v,
         \/ Top(t).k = "if" /\ ReturnToIf(t, v)
         \/ Top(t).k = "while" /\ ReturnToWhile(t, v)
         \/ Top(t).k \in {"and", "or"} /\ ReturnToLogic(t, v)
  PROVE  Stepped(t)
<1>. DEFINE f == Top(t)
<1>1. /\ StackOK(Stack(t), Live) /\ FrameOK(f, Live) /\ f.k \notin Marked /\ Inside(f) /\ root' = root
      /\ StackOK(Tail(Stack(t)), Live) /\ OneMore(Stack(t), f, Tail(Stack(t)))
      /\ HasBase(Tail(Stack(t))) /\ HasBase(Stack(t))
  BY TopIs DEF Marked, Inside, IsBase, ReturnToIf, ReturnToWhile, ReturnToLogic
<1>2. Home(t) \in Live
  BY <1>1, HomeIs DEF Stands
<1>3. ASSUME NEW c, Pop(t, c), c \in {Val(Null), Val(Bool(TRUE)), Val(Bool(FALSE))} PROVE Stepped(t)
  BY <1>1, <1>3, PopPlain, RootStays, EasyCtl, EasyValues
<1>4. CASE f.k = "if" /\ ReturnToIf(t, v)
  <2>1. ASSUME NEW b, Enter(t, Tail(Stack(t)), Scope("inner", Home(t), b, "local")) PROVE Stepped(t)
    <3>1. PICK u : u = <<Scope("inner", Home(t), b, "local")>> \o Tail(Stack(t)) /\ Goes(t, u, Val(Null))
      BY <2>1 DEF Enter
    <3>2. StackOK(u, Live) /\ SameMarks(Tail(Stack(t)), u)
      BY <1>1, <1>2, <3>1, EnterBlock
    <3>3. SameMarks(Stack(t), u)
      BY <1>1, <3>2, PlainAdds, SameIsSame
    <3>4. Moved(Stack(t), u, root, root')
      BY <1>1, <3>3, RootStays DEF Moved
    <3>5. QED BY <1>1, <3>1, <3>2, <3>4, GoesOK, RootStays, EasyCtl, EasyValues
  <2>2. QED BY <1>3, <1>4, <2>1 DEF ReturnToIf
<1>5. CASE f.k = "while" /\ ReturnToWhile(t, v)
  <2>1. CASE Does(t, [do |-> "loop"])
    <3>1. CtlOK([do |-> "loop"], Stack(t), Live)
      BY <1>1, <1>5 DEF CtlOK, Top
    <3>2. QED BY <1>1, <2>1, <3>1, DoesOK, RootStays
  <2>2. ASSUME NEW g, g = [f EXCEPT !.part = "body"],
               NEW b, Enter(t, <<g>> \o Tail(Stack(t)), Scope("inner", Home(t), b, "local"))
        PROVE  Stepped(t)
    <3>1. "k" \in DOMAIN g /\ g.k = "while"
      BY <1>1, <1>5, <2>2 DEF FrameOK
    <3>2. FrameOK(g, Live) /\ g.k \notin Marked
      BY <3>1, EasyFrames DEF Homed
    <3>3. PICK u : u = <<Scope("inner", Home(t), b, "local")>> \o (<<g>> \o Tail(Stack(t))) /\ Goes(t, u, Val(Null))
      BY <2>2 DEF Enter
    <3>4. StackOK(u, Live) /\ Adds(u, g, Tail(Stack(t)))
      BY <1>1, <1>2, <3>2, <3>3, EnterOK
    <3>5. SameMarks(Stack(t), u)
      BY <1>1, <3>2, <3>4, AddsPlain, PlainAdds, SameIsSame
    <3>6. Moved(Stack(t), u, root, root')
      BY <1>1, <3>5, RootStays DEF Moved
    <3>7. QED BY <1>1, <3>3, <3>4, <3>6, GoesOK, RootStays, EasyCtl, EasyValues
  <2>3. QED BY <1>3, <1>5, <2>1, <2>2 DEF ReturnToWhile
<1>6. CASE f.k \in {"and", "or"} /\ ReturnToLogic(t, v)
  <2>1. ASSUME NEW g, g = [f EXCEPT !.first = FALSE], NEW n, Goes(t, <<g>> \o Tail(Stack(t)), Eval(n)) PROVE Stepped(t)
    <3>1. "k" \in DOMAIN g /\ g.k \in {"and", "or"}
      BY <1>1, <1>6, <2>1 DEF FrameOK
    <3>2. FrameOK(g, Live) /\ g.k \notin Marked /\ Inside(g)
      BY <3>1, EasyFrames DEF Homed, Inside
    <3>3. QED BY <1>1, <2>1, <3>2, AgainOK
  <2>2. ASSUME NEW b, Pop(t, Val(Bool(b))) PROVE Stepped(t)
    BY <1>1, <2>2, PopPlain, RootStays, EasyCtl, EasyValues
  <2>3. QED BY <1>6, <2>1, <2>2 DEF ReturnToLogic
<1>7. QED BY <1>4, <1>5, <1>6

LEMMA GotOK ==
  ASSUME NEW L, NEW s, IsStack(s), ValuesOK(s, L), NEW v, ValueOK(v, L)
  PROVE  /\ IsStack(Append(s, v)) /\ ValuesOK(Append(s, v), L) /\ 1 \in DOMAIN Append(s, v)
<1>1. PICK S : s \in Seq(S)
  BY StackIs
<1>2. s \in Seq(S \cup {v}) /\ v \in S \cup {v}
  BY <1>1
<1>3. PICK a : a = Append(s, v)
  OBVIOUS
<1>4. /\ a \in Seq(S \cup {v}) /\ Len(a) = Len(s) + 1 /\ Len(s) \in Nat
      /\ \A i \in 1 .. Len(s) : a[i] = s[i]
      /\ a[Len(s) + 1] = v /\ DOMAIN s = 1 .. Len(s) /\ DOMAIN a = 1 .. Len(s) + 1
  BY <1>2, <1>3
<1>5. \A i \in DOMAIN a : ValueOK(a[i], L)
  BY <1>4 DEF ValuesOK
<1>6. IsStack(a)
  BY <1>4, SeqIsStack
<1>7. 1 \in DOMAIN a
  BY <1>4
<1>8. QED BY <1>3, <1>5, <1>6, <1>7 DEF ValuesOK

LEMMA ArgsReturn ==
  ASSUME Shapes, NEW t \in Roots, Stack(t) # <<>>, Top(t).k = "args", NEW v, ValueOK(v, Live), ReturnToArgs(t, v)
  PROVE  Stepped(t)
<1>. DEFINE f == Top(t)  under == Tail(Stack(t))
<1>1. /\ StackOK(Stack(t), Live) /\ FrameOK(f, Live) /\ f.k \notin Marked /\ Inside(f)
      /\ StackOK(under, Live) /\ OneMore(Stack(t), f, under) /\ HasBase(under)
  BY TopIs DEF Marked, Inside, IsBase
<1>2. PICK n, got : n = f.n /\ got = Append(f.got, v)
  OBVIOUS
<1>3. IsStack(got) /\ ValuesOK(got, Live) /\ 1 \in DOMAIN got /\ \A i \in DOMAIN got : ValueOK(got[i], Live)
  <2>1. IsStack(f.got) /\ ValuesOK(f.got, Live)
    BY <1>1 DEF FrameOK
  <2>2. QED BY <1>2, <2>1, GotOK DEF ValuesOK
<1>4. SameMarks(Stack(t), under)
  BY <1>1, PlainAdds
<1>5. PICK g : g = [f EXCEPT !.got = got]
  OBVIOUS
<1>6. FrameOK(g, Live) /\ g.k \notin Marked /\ Inside(g)
  <2>1. "k" \in DOMAIN g /\ g.k = "args" /\ "got" \in DOMAIN g /\ g.got = got
    BY <1>1, <1>5 DEF FrameOK
  <2>2. QED BY <1>3, <2>1 DEF FrameOK, Marked, Inside, IsBase, Homed
<1>7. StackOK(<<g>> \o under, Live) /\ SameMarks(Stack(t), <<g>> \o under)
  <2>1. StackOK(<<g>> \o under, Live) /\ OneMore(<<g>> \o under, g, under)
    BY <1>1, <1>6, PushOK
  <2>2. QED BY <1>4, <1>6, <2>1, PlainAdds, SameIsSame
<1>8. CASE Goes(t, under, Val(Bytes)) /\ root' = root
  <2>1. Moved(Stack(t), under, root, root')
    BY <1>4, <1>8, RootStays DEF Moved
  <2>2. QED BY <1>1, <1>8, <2>1, GoesOK, RootStays, EasyCtl, EasyValues
<1>9. ASSUME NEW m, Goes(t, <<g>> \o under, Eval(m)), root' = root PROVE Stepped(t)
  BY <1>1, <1>6, <1>9, AgainOK
<1>10. ASSUME NEW i \in DOMAIN got, NEW k, Call(t, under, got[i], k) PROVE Stepped(t)
  BY <1>1, <1>3, <1>4, <1>10, CallOK
<1>11. CASE Call(t, <<g>> \o under, got[1], 1)
  BY <1>3, <1>7, <1>11, CallOK
<1>12. \/ Goes(t, under, Val(Bytes)) /\ root' = root
       \/ \E m : Goes(t, <<g>> \o under, Eval(m)) /\ root' = root
       \/ \E i \in DOMAIN got : \E k : Call(t, under, got[i], k)
       \/ Call(t, <<g>> \o under, got[1], 1)
  BY <1>2, <1>5, Zenon DEF ReturnToArgs
<1>13. QED BY <1>8, <1>9, <1>10, <1>11, <1>12

LEMMA ConfigReturn ==
  ASSUME Shapes, NEW t \in Roots, Stack(t) # <<>>, Top(t).k = "config", ReturnToConfig(t)
  PROVE  Stepped(t)
<1>. DEFINE f == Top(t)
<1>1. /\ StackOK(Tail(Stack(t)), Live) /\ FrameOK(f, Live) /\ f.k \notin Marked /\ root' = root
      /\ OneMore(Stack(t), f, Tail(Stack(t)))
  BY TopIs DEF Marked, ReturnToConfig
<1>2. CASE Pop(t, Val(Null))
  BY <1>1, <1>2, PopPlain, RootStays, EasyCtl, EasyValues
<1>3. ASSUME NEW g, g = [f EXCEPT !.files = Tail(@)],
             NEW b, Enter(t, <<g>> \o Tail(Stack(t)), Scope("root", f.home, b, "local"))
      PROVE  Stepped(t)
  <2>1. "k" \in DOMAIN g /\ g.k = "config" /\ "home" \in DOMAIN g /\ g.home = f.home /\ f.home \in Live
    BY <1>1, <1>3 DEF FrameOK, Homed
  <2>2. FrameOK(g, Live) /\ g.k \notin Marked /\ ~Inside(g)
    BY <2>1 DEF FrameOK, Marked, Inside
  <2>3. PICK u : u = <<Scope("root", f.home, b, "local")>> \o (<<g>> \o Tail(Stack(t))) /\ Goes(t, u, Val(Null))
    BY <1>3 DEF Enter
  <2>4. StackOK(u, Live) /\ Adds(u, g, Tail(Stack(t)))
    BY <1>1, <2>1, <2>2, <2>3, EnterOK
  <2>5. SameMarks(Stack(t), u)
    BY <1>1, <2>2, <2>4, AddsPlain, PlainAdds, SameIsSame
  <2>6. Moved(Stack(t), u, root, root')
    BY <1>1, <2>5, RootStays DEF Moved
  <2>7. QED BY <1>1, <2>3, <2>4, <2>6, GoesOK, RootStays, EasyCtl, EasyValues
<1>4. QED BY <1>2, <1>3 DEF ReturnToConfig

LEMMA ReturnStep ==
  ASSUME Shapes, NEW t \in Roots, Return(t)
  PROVE  Stepped(t)
<1>1. PICK v, f : /\ v = Ctl(t).v /\ f = Top(t) /\ Stack(t) # <<>> /\ ValueOK(v, Live) /\ FrameOK(f, Live)
  BY TopIs DEF Return, Doing
<1>2. CASE f.k = "scope"
  BY <1>1, <1>2, ScopeReturn DEF Return
<1>3. CASE f.k = "def"
  BY <1>1, <1>3, DefineOK DEF Return
<1>4. CASE f.k = "set"
  BY <1>1, <1>4, AssignOK DEF Return
<1>5. CASE f.k \in {"if", "while", "and", "or"}
  <2>1. \/ f.k = "if" /\ ReturnToIf(t, v)
        \/ f.k = "while" /\ ReturnToWhile(t, v)
        \/ f.k \in {"and", "or"} /\ ReturnToLogic(t, v)
    BY <1>1, <1>5 DEF Return
  <2>2. QED BY <1>1, <2>1, BranchReturn
<1>6. CASE f.k = "try"
  <2>1. PICK c : Pop(t, c) /\ c \in {Error, Val(v)} /\ root' = root
    BY <1>1, <1>6 DEF Return
  <2>2. CtlOK(c, Tail(Stack(t)), Live)
    BY <1>1, <2>1, EasyCtl
  <2>3. QED BY <1>1, <1>6, <2>1, <2>2, PopPlain, RootStays DEF Marked
<1>7. CASE f.k = "args"
  BY <1>1, <1>7, ArgsReturn DEF Return
<1>8. CASE f.k = "config"
  BY <1>1, <1>8, ConfigReturn DEF Return
<1>9. CASE f.k \notin {"scope", "def", "set", "if", "while", "and", "or", "try", "args", "config"}
  <2>1. root' = Undone(f) /\ \E w \in {v, Null} : Pop(t, Val(w))
    BY <1>1, <1>9 DEF Return
  <2>2. PICK w \in {v, Null} : Pop(t, Val(w))
    BY <2>1
  <2>3. CtlOK(Val(w), Tail(Stack(t)), Live)
    BY <1>1, EasyCtl, EasyValues
  <2>4. QED BY <1>1, <2>1, <2>2, <2>3, LeaveOK
<1>10. QED
  BY <1>2, <1>3, <1>4, <1>5, <1>6, <1>7, <1>8, <1>9

LEMMA StepStepped ==
  ASSUME Shapes, Balanced(th, root), NEW t \in Roots, ThreadStep(t), ~EvalBackground(t)
  PROVE  Stepped(t)
  BY QuietSteps, FieldSteps, PushSteps, LoopTopStep, AtHostStep, InNSStep, SourceStep, ConfigSteps, UnwindStep,
   ReturnStep DEF ThreadStep
=============================================================================
