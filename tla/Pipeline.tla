------------------------------- MODULE Pipeline -------------------------------
(***************************************************************************)
(* `xs | where { ... } | sort_by("state") | take(2)`: a list on its way    *)
(* through the builtins of kyu.  A stage that calls a closure, or reads a  *)
(* field, does so one element after the other, and the field of a job's    *)
(* record is read from /jobs each time, while the jobs go on.              *)
(*                                                                         *)
(* Integers have a width, floats a precision; a text is its place in the   *)
(* order of texts.                                                         *)
(***************************************************************************)
EXTENDS Integers, FiniteSets, SequencesExt

CONSTANTS
  Jobs,         (* jobs whose records are in the list                       *)
  Elements,     (* elements of the lists without jobs                       *)
  MaxLength,    (* bound: elements of the first list                        *)
  MaxStages,    (* bound: stages of a pipeline                              *)
  MaxMoves,     (* bound: changes of the jobs' states                       *)
  MaxInt,       (* the largest integer, 2^63 - 1 in the code                *)
  Exact,        (* floats have every integer up to this one, 2^53           *)
  MaxRangeLen   (* a range is not longer                                    *)

ASSUME WidthAssumption == /\ MaxInt \in Nat /\ Exact \in 1..MaxInt
                          /\ MaxRangeLen \in Nat \ {0}

VARIABLES
  live,     (* the state of each job, empty if the list has none            *)
  moves,    (* how often they changed                                       *)
  pipe,     (* the value on the pipe, or how the pipeline failed            *)
  stage,    (* the stage that runs, or ran last                             *)
  stages    (* how many have run                                            *)

pipeVars == <<live, moves, pipe, stage, stages>>

-----------------------------------------------------------------------------
(* Values.                                                                 *)

IntV(n) == [int |-> n]
FloatV(n) == [float |-> n]
StrV(n) == [str |-> n]
BoolV(b) == [bool |-> b]
ListV(s) == [list |-> s]
RecordV(fields) == [record |-> fields]
JobV(j) == [job |-> j]
ErrorV == [error |-> TRUE]
Null == [null |-> TRUE]

\* The names of fields, in the order of texts.
FieldNames == <<"items", "key", "state">>

\* A Go error: it ends the statement, or (break) the loop around it.
Fail(how) == [fail |-> how]

Is(v, kind) == kind \in DOMAIN v
Number(v) == IF Is(v, "int") THEN v.int ELSE v.float
IsNumber(v) == Is(v, "int") \/ Is(v, "float")

Truthy(v) == v \notin {Null, ErrorV, BoolV(FALSE)}

Wrap(n) == ((n + MaxInt + 1) % (2 * (MaxInt + 1))) - (MaxInt + 1)

Magnitude(n) == IF n < 0 THEN -n ELSE n

\* The nearest float, the even one of two.
FloatOf(n) ==
  LET m == Magnitude(n)
      unit == IF m <= Exact THEN 1 ELSE IF m <= 2 * Exact THEN 2 ELSE 4
      q == n \div unit
      r == n % unit
  IN IF 2 * r > unit \/ (2 * r = unit /\ q % 2 = 1) THEN (q + 1) * unit ELSE q * unit

Comparable(a, b) == (IsNumber(a) /\ IsNumber(b)) \/ (Is(a, "str") /\ Is(b, "str"))

Less(a, b) ==
  IF Is(a, "str") THEN a.str < b.str
  ELSE IF Is(a, "int") /\ Is(b, "int") THEN a.int < b.int
  ELSE FloatOf(Number(a)) < FloatOf(Number(b))

\* Division rounds to zero, and the remainder has the sign of the dividend.
Quotient(m, n) ==
  LET q == Magnitude(m) \div Magnitude(n) IN IF (m < 0) = (n < 0) THEN q ELSE -q

Exactly(op, m, n) ==
  CASE op = "+" -> m + n
    [] op = "-" -> m - n
    [] op = "*" -> m * n
    [] op = "/" -> Quotient(m, n)
    [] op = "%" -> m - n * Quotient(m, n)

\* The quotient of two floats is not modelled.
Arith(op, l, r) ==
  IF op = "+" /\ Is(l, "list") /\ Is(r, "list") THEN ListV(l.list \o r.list)
  ELSE IF Is(l, "int") /\ Is(r, "int")
  THEN IF op \in {"/", "%"} /\ r.int = 0 THEN Fail("error") ELSE IntV(Wrap(Exactly(op, l.int, r.int)))
  ELSE IF IsNumber(l) /\ IsNumber(r) /\ op # "%"
  THEN FloatV(FloatOf(Exactly(op, FloatOf(Number(l)), FloatOf(Number(r)))))
  ELSE Fail("error")

Negated(v) ==
  IF Is(v, "int") THEN IntV(Wrap(-v.int)) ELSE IF Is(v, "float") THEN FloatV(-v.float) ELSE Fail("error")

\* l > r
Greater(l, r) == IF Comparable(l, r) THEN BoolV(Less(r, l)) ELSE Fail("error")

\* v?
ErrCheckV(v) == IF v = ErrorV THEN Fail("error") ELSE v

\* A record's field, read from /jobs if it is a job's; l has the states of the jobs at the moment.
Get(v, name, l) ==
  LET i == SelectInSeq(v.record, LAMBDA f : f[1] = name) IN
  IF Is(v, "job") THEN IF name = "state" THEN IntV(l[v.job]) ELSE Fail("error")
  ELSE IF i = 0 THEN Fail("error") ELSE v.record[i][2]

\* v.name
FieldAccessV(v, name, l) == IF Is(v, "job") \/ Is(v, "record") THEN Get(v, name, l) ELSE Fail("error")

\* What a call of the key returns for v: a field name, or one of these closures.
Outcome(key, v, l) ==
  LET state == FieldAccessV(v, "state", l) IN
  CASE key = "itself" -> v                                         \* { |r| r }
    [] key = "state" -> state                                      \* "state", { |r| r.state }
    [] key = "started" -> IF Is(state, "fail") THEN state ELSE Greater(state, IntV(0))
    [] key = "checked" -> ErrCheckV(v)                             \* { |r| r? }
    [] key = "negative" -> Negated(v)                              \* { |r| -r }
    [] key = "odd" -> Arith("%", v, IntV(2))                       \* { |r| r % 2 }
    [] key = "until null" -> IF v = Null THEN Fail("break") ELSE v \* { |r| if r == null { break } ... }

-----------------------------------------------------------------------------
(* The builtins that have seen all their keys: items are pairs [v, k] of   *)
(* an element and its key.                                                 *)

\* Mutant: less-or-equal in place of less, so that equal keys change places.
InsertUnstable(s, e) ==
  LET i == SelectLastInSeq(s.items, LAMBDA x : ~(Comparable(e.k, x.k) /\ ~Less(x.k, e.k)))
  IN [items |-> InsertAt(s.items, i + 1, e),
      failed |-> s.failed \/ (i > 0 /\ ~Comparable(e.k, s.items[i].k))]

\* sort.SliceStable moves e down until it is not less than the one below.
Insert(s, e) ==
  LET i == SelectLastInSeq(s.items, LAMBDA x : ~(Comparable(e.k, x.k) /\ Less(e.k, x.k)))
  IN [items |-> InsertAt(s.items, i + 1, e),
      failed |-> s.failed \/ (i > 0 /\ ~Comparable(e.k, s.items[i].k))]

SortValues(items) ==
  LET s == FoldLeft(Insert, [items |-> <<>>, failed |-> FALSE], items)
  IN IF s.failed THEN Fail("error") ELSE ListV([i \in DOMAIN items |-> s.items[i].v])

AddToGroup(groups, e) ==
  LET g == SelectInSeq(groups, LAMBDA x : x.key = e.k)
  IN IF g = 0 THEN Append(groups, [key |-> e.k, items |-> <<e.v>>])
     ELSE [groups EXCEPT ![g].items = Append(@, e.v)]

GroupBy(items) ==
  LET groups == FoldLeft(AddToGroup, <<>>, items)
  IN ListV([g \in DOMAIN groups |->
              RecordV(<<<<"key", groups[g].key>>, <<"items", ListV(groups[g].items)>>>>)])

Where(items) == ListV([i \in DOMAIN SelectSeq(items, LAMBDA e : Truthy(e.k)) |->
                         SelectSeq(items, LAMBDA e : Truthy(e.k))[i].v])

Each(items) == ListV([i \in DOMAIN items |-> items[i].k])
Select(items) == ListV([i \in DOMAIN items |-> RecordV(<<<<"state", items[i].k>>>>)])

\* any and all stop at the first element that decides.
AnyStops(k) == Truthy(k)
AllStops(k) == ~Truthy(k)

WithKeys == {"where", "each", "any", "all", "select", "sort_by", "group_by"}

Finished(fn, items) ==
  CASE fn = "where" -> Where(items)
    [] fn = "each" -> Each(items)
    [] fn = "select" -> Select(items)
    [] fn = "any" -> BoolV(FALSE)
    [] fn = "all" -> BoolV(TRUE)
    [] fn = "sort_by" -> SortValues(items)
    [] fn = "group_by" -> GroupBy(items)

-----------------------------------------------------------------------------
(* The builtins without a closure: a is the argument, xs the list.         *)

Count(a) == IF Is(a, "int") THEN a.int ELSE -1
AtMost(m, n) == IF m < n THEN m ELSE n

Take(a, xs) == IF Count(a) < 0 THEN Fail("error") ELSE ListV(SubSeq(xs, 1, AtMost(Count(a), Len(xs))))
Skip(a, xs) == IF Count(a) < 0 THEN Fail("error") ELSE ListV(SubSeq(xs, AtMost(Count(a), Len(xs)) + 1, Len(xs)))
LastN(a, xs) ==
  IF Count(a) < 0 THEN Fail("error")
  ELSE ListV(SubSeq(xs, Len(xs) - AtMost(Count(a), Len(xs)) + 1, Len(xs)))

First(xs) == IF xs = <<>> THEN Null ELSE xs[1]
LastOf(xs) == IF xs = <<>> THEN Null ELSE xs[Len(xs)]
Uniq(xs) == FoldLeft(LAMBDA out, e : IF \E i \in DOMAIN out : out[i] = e THEN out ELSE Append(out, e), <<>>, xs)
Flatten(xs) == FoldLeft(LAMBDA out, e : IF Is(e, "list") THEN out \o e.list ELSE Append(out, e), <<>>, xs)
Sum(xs) == FoldLeft(LAMBDA acc, e : IF Is(acc, "fail") THEN acc ELSE Arith("+", acc, e), IntV(0), xs)

Best(xs, Better(_, _)) ==
  IF xs = <<>> THEN Null
  ELSE FoldLeft(LAMBDA best, e : IF Is(best, "fail") \/ ~Comparable(e, best) THEN Fail("error")
                                 ELSE IF Better(e, best) THEN e ELSE best,
                xs[1], Tail(xs))
MinOf(xs) == Best(xs, Less)
MaxOf(xs) == Best(xs, LAMBDA e, best : Less(best, e))

CountOf(xs) == IntV(Len(xs))
LenOf(xs) == IntV(Len(xs))
Reversed(xs) == ListV(Reverse(xs))
Has(a, xs) == \E i \in DOMAIN xs : xs[i] = a
IndexOf(a, xs) == SelectInSeq(xs, LAMBDA e : e = a) - 1
Pairs(ys, xs) == [i \in 1..AtMost(Len(xs), Len(ys)) |-> ListV(<<xs[i], ys[i]>>)]

\* for i := start; i < stop; i += step, where i may wrap.
RECURSIVE RangeFrom(_, _, _, _)
RangeFrom(out, i, stop, step) ==
  IF ~((step > 0 /\ i < stop) \/ (step < 0 /\ i > stop)) THEN ListV(out)
  ELSE IF Len(out) >= MaxRangeLen THEN Fail("error")
  ELSE RangeFrom(Append(out, IntV(i)), Wrap(i + step), stop, step)

RangeOf(r) == IF r[3] = 0 THEN Fail("error") ELSE RangeFrom(<<>>, r[1], r[2], r[3])

\* encoding/json: to_json fails on an ErrorVal anywhere; from_json reads a number as a float
\* and makes an Int of one without a fraction.
RECURSIVE ToJSON(_)
ToJSON(v) ==
  LET parts == IF Is(v, "list") THEN v.list
               ELSE IF Is(v, "record") THEN [i \in DOMAIN v.record |-> v.record[i][2]] ELSE <<>>
      trees == [i \in DOMAIN parts |-> ToJSON(parts[i])]
  IN CASE v = ErrorV \/ \E i \in DOMAIN trees : trees[i] = ErrorV -> ErrorV
       [] IsNumber(v) -> [number |-> Number(v)]
       [] Is(v, "list") -> [array |-> trees]
       [] Is(v, "record") -> [object |-> {<<v.record[i][1], trees[i]>> : i \in DOMAIN trees}]
       [] OTHER -> v

RECURSIVE FromJSON(_)
FromJSON(t) ==
  IF Is(t, "number") THEN IntV(FloatOf(t.number))
  ELSE IF Is(t, "array") THEN ListV([i \in DOMAIN t.array |-> FromJSON(t.array[i])])
  ELSE IF Is(t, "object")
  THEN LET names == SelectSeq(FieldNames, LAMBDA name : \E f \in t.object : f[1] = name)
       IN RecordV([i \in DOMAIN names |->
                     <<names[i], FromJSON((CHOOSE f \in t.object : f[1] = names[i])[2])>>])
  ELSE t

Plain == DOMAIN live = {}     \* no record of a job: comparing or printing one waits for it

\* A builtin given v, or Fail: each checks the kind of its input and the number of arguments.
OnList(fn, a, xs) ==
  CASE fn = "take" -> Take(a, xs)
    [] fn = "skip" -> Skip(a, xs)
    [] fn = "last" -> IF a = Null THEN LastOf(xs) ELSE LastN(a, xs)
    [] fn = "first" -> First(xs)
    [] fn = "count" -> CountOf(xs)
    [] fn = "len" -> LenOf(xs)
    [] fn = "reverse" -> Reversed(xs)
    [] fn = "flatten" -> ListV(Flatten(xs))
    [] fn = "sum" -> Sum(xs)
    [] fn = "min" -> MinOf(xs)
    [] fn = "max" -> MaxOf(xs)
    [] fn = "uniq" -> ListV(Uniq(xs))
    [] fn = "contains" -> BoolV(Has(a, xs))
    [] fn = "index_of" -> IntV(IndexOf(a, xs))
    [] fn = "zip" -> IF Is(a, "list") THEN ListV(Pairs(a.list, xs)) ELSE Fail("error")

KeysOf(fields) ==
  ListV([i \in DOMAIN fields |-> StrV(SelectInSeq(FieldNames, LAMBDA name : name = fields[i][1]))])
ValuesOf(fields) == ListV([i \in DOMAIN fields |-> fields[i][2]])

GetField(name, fields) == Get(RecordV(fields), name, live)

OnRecord(fn, a, fields) ==
  CASE fn = "keys" -> KeysOf(fields)
    [] fn = "values" -> ValuesOf(fields)
    [] fn = "get_field" -> GetField(a, fields)

OfLists == {"take", "skip", "last", "first", "count", "len", "reverse", "flatten", "sum", "min", "max",
            "uniq", "contains", "index_of", "zip"}
OfRecords == {"keys", "values", "get_field"}

Apply(fn, a, v) ==
  CASE fn \in OfLists -> IF Is(v, "list") THEN OnList(fn, a, v.list) ELSE Fail("error")
    [] fn \in OfRecords -> IF Is(v, "record") THEN OnRecord(fn, a, v.record) ELSE Fail("error")
    [] fn = "to_json" -> IF ToJSON(v) = ErrorV THEN ErrorV ELSE [json |-> ToJSON(v)]
    [] fn = "from_json" -> IF Is(v, "json") THEN FromJSON(v.json) ELSE Fail("error")
    [] fn = "range" -> RangeOf(a)

-----------------------------------------------------------------------------
(* The stages, one after the other.                                        *)

Idle == [fn |-> "", arg |-> Null, input |-> Null, items |-> <<>>, was |-> <<>>, over |-> TRUE]

Lists == {ListV(s) : s \in BoundedSeq(Elements, MaxLength)}
JobLists == {ListV(s) : s \in BoundedSeq({JobV(j) : j \in Jobs}, MaxLength)}

PipeInit ==
  /\ \/ pipe \in Lists /\ live = <<>>
     \/ pipe \in JobLists /\ live = [j \in Jobs |-> 0]
  /\ moves = 0 /\ stages = 0
  /\ stage = Idle

\* A left-hand side that fails ends the pipeline.
Begins == stage.over /\ stages < MaxStages /\ ~Is(pipe, "fail")

Counts == {IntV(-1), IntV(0), IntV(2), StrV(1)}
Args(fn) ==
  CASE fn \in {"take", "skip"} -> Counts
    [] fn = "last" -> Counts \cup {Null}
    [] fn \in {"contains", "index_of"} -> {IntV(4), FloatV(4)}
    [] fn = "zip" -> {pipe, ListV(<<Null>>)}
    [] fn = "get_field" -> {"key", "state"}
    [] OTHER -> {Null}

\* Texts are opaque, and of a job's record only the state is here.
Modelled(fn, v) ==
  /\ Is(v, "str") \/ Is(v, "json") => fn \notin {"contains", "index_of", "len"}
  /\ Is(v, "str") => fn # "from_json"
  /\ Is(v, "job") => fn \notin OfRecords

Call1(fn, a) ==
  /\ Begins
  /\ fn \in {"uniq", "contains", "index_of", "to_json", "range"} => Plain
  /\ Modelled(fn, pipe)
  /\ pipe' = Apply(fn, a, pipe)
  /\ stage' = [Idle EXCEPT !.fn = fn, !.arg = a, !.input = pipe]
  /\ stages' = stages + 1
  /\ UNCHANGED <<live, moves>>

\* range takes no input: it is the start of a pipeline.
RangeArgs == {<<start, stop, step>> : start \in {0, MaxInt - 1, -MaxInt - 1}, stop \in {0, 4, MaxInt},
                                      step \in {-1, 0, 1, 5}}

CallBuiltin ==
  \/ \E fn \in OfLists \cup OfRecords \cup {"to_json", "from_json"} : \E a \in Args(fn) : Call1(fn, a)
  \/ stages = 0 /\ pipe = ListV(<<>>) /\ \E a \in RangeArgs : Call1("range", a)

Closures(fn) == IF fn = "select" THEN {"state"}
                ELSE {"itself", "state", "started", "checked", "negative", "odd", "until null"}

\* A stage that asks for a key of each element.
Begin ==
  /\ Begins
  /\ \E fn \in WithKeys : \E c \in Closures(fn) :
       /\ Plain \/ c \in {"state", "started"}
       /\ stage' = [fn |-> fn, arg |-> c, input |-> pipe, items |-> <<>>,
                    was |-> [j \in DOMAIN live |-> {live[j]}], over |-> ~Is(pipe, "list")]
  /\ pipe' = IF Is(pipe, "list") THEN pipe ELSE Fail("error")
  /\ stages' = stages + 1
  /\ UNCHANGED <<live, moves>>

Return(result) == pipe' = result /\ stage' = [stage EXCEPT !.over = TRUE]

Element == stage.input.list[Len(stage.items) + 1]

\* The next element's key.  sort_by keeps an error for later; a break through sort_by or group_by
\* is wrapped, and no longer one.
ReadKey ==
  /\ ~stage.over /\ Len(stage.items) < Len(stage.input.list)
  /\ LET k == Outcome(stage.arg, Element, live) IN
       IF Is(k, "fail") /\ stage.fn # "sort_by"
       THEN Return(IF stage.fn = "group_by" THEN Fail("error") ELSE k)
       ELSE IF (stage.fn = "any" /\ AnyStops(k)) \/ (stage.fn = "all" /\ AllStops(k))
       THEN Return(BoolV(stage.fn = "any"))
       ELSE stage' = [stage EXCEPT !.items = Append(@, [v |-> Element, k |-> k])] /\ UNCHANGED pipe
  /\ UNCHANGED <<live, moves, stages>>

AllRead ==
  /\ ~stage.over /\ Len(stage.items) = Len(stage.input.list)
  /\ Return(Finished(stage.fn, stage.items))
  /\ UNCHANGED <<live, moves, stages>>

JobMoves ==
  /\ ~stage.over /\ moves < MaxMoves
  /\ \E j \in DOMAIN live :
       /\ live' = [live EXCEPT ![j] = @ + 1]
       /\ stage' = [stage EXCEPT !.was[j] = @ \cup {live'[j]}]
  /\ moves' = moves + 1
  /\ UNCHANGED <<pipe, stages>>

PipeNext == CallBuiltin \/ Begin \/ ReadKey \/ AllRead \/ JobMoves

PipeSpec == PipeInit /\ [][PipeNext]_pipeVars

-----------------------------------------------------------------------------
(* What the stages mean.                                                   *)

\* The elements of xs at the places in S, in order.
Picked(xs, S) ==
  [n \in 1..Cardinality(S) |-> xs[CHOOSE i \in S : Cardinality({j \in S : j <= i}) = n]]

Firsts(ks) == {i \in DOMAIN ks : \A j \in 1..(i - 1) : ks[j] # ks[i]}

\* Beyond the precision of floats an integer and a float compare as equal though others see a
\* difference: then there is no order to sort by.
Imprecise(ks) ==
  /\ \E i \in DOMAIN ks : Is(ks[i], "float")
  /\ \E i \in DOMAIN ks : Is(ks[i], "int") /\ FloatOf(ks[i].int) # ks[i].int

AllComparable(ks) == \A i, j \in DOMAIN ks : i # j => Comparable(ks[i], ks[j])

\* Where the element at i goes in a stable sort.
Place(ks, i) ==
  Cardinality({j \in DOMAIN ks : Less(ks[j], ks[i]) \/ (~Less(ks[i], ks[j]) /\ j <= i)})

Sorted(xs, ks, out) ==
  IF Len(xs) < 2 THEN out = ListV(xs)
  ELSE IF ~AllComparable(ks) THEN out = Fail("error")
  ELSE Imprecise(ks) \/ \A i \in DOMAIN xs : out.list[Place(ks, i)] = xs[i]

Grouped(xs, ks, out) ==
  /\ Len(out.list) = Cardinality(Firsts(ks))
  /\ \A i \in Firsts(ks) :
       out.list[Cardinality({j \in Firsts(ks) : j <= i})]
         = RecordV(<<<<"key", ks[i]>>, <<"items", ListV(Picked(xs, {j \in DOMAIN ks : ks[j] = ks[i]}))>>>>)

\* The call that decides any and all.
Decides(fn, k) == IF fn = "any" THEN Truthy(k) ELSE ~Truthy(k)

MeansKeys(fn, xs, ks, out) ==
  LET bad == {i \in DOMAIN ks : Is(ks[i], "fail")}
      decisive == {i \in DOMAIN ks \ bad : fn \in {"any", "all"} /\ Decides(fn, ks[i])}
      first == CHOOSE i \in bad \cup decisive : \A j \in bad \cup decisive : i <= j
  IN IF fn = "sort_by" THEN Sorted(xs, ks, out)
     ELSE IF bad \cup decisive # {}
     THEN out = IF first \in decisive THEN BoolV(fn = "any")
                ELSE IF fn = "group_by" THEN Fail("error") ELSE ks[first]
     ELSE \/ fn = "where" /\ out = ListV(Picked(xs, {i \in DOMAIN xs : Truthy(ks[i])}))
          \/ fn = "each" /\ out = ListV(ks)
          \/ fn = "select" /\ out.list = [i \in DOMAIN xs |-> RecordV(<<<<"state", ks[i]>>>>)]
          \/ fn \in {"any", "all"} /\ out = BoolV(fn = "all")
          \/ fn = "group_by" /\ Grouped(xs, ks, out)

\* One state of the jobs for each element, among those they have had since the stage began.
Moments == {l \in [DOMAIN live -> 0..MaxMoves] : \A j \in DOMAIN live : l[j] \in stage.was[j]}

Extreme(xs, out, Better(_, _)) ==
  IF xs = <<>> THEN out = Null
  ELSE IF ~AllComparable(xs) THEN out = Fail("error")
  ELSE \/ Imprecise(xs)
       \/ \E i \in DOMAIN xs :
            /\ out = xs[i]
            /\ \A j \in DOMAIN xs \ {i} : ~Better(xs[j], xs[i])
            /\ \A j \in 1..(i - 1) : Better(xs[i], xs[j])

MeansList(fn, a, xs, out) ==
  LET n == Len(xs)
      counted(S) == IF Is(a, "int") /\ a.int >= 0 THEN out = ListV(Picked(xs, S)) ELSE out = Fail("error")
  IN \/ fn = "take" /\ counted({i \in DOMAIN xs : i <= a.int})
     \/ fn = "skip" /\ counted({i \in DOMAIN xs : i > a.int})
     \/ fn = "last" /\ a # Null /\ counted({i \in DOMAIN xs : i > n - a.int})
     \/ fn = "last" /\ a = Null /\ out = IF n = 0 THEN Null ELSE xs[n]
     \/ fn = "first" /\ out = IF n = 0 THEN Null ELSE xs[1]
     \/ fn \in {"count", "len"} /\ out = IntV(Cardinality(DOMAIN xs))
     \/ fn = "reverse" /\ n = Len(out.list) /\ \A i \in 1..n : out.list[i] = xs[n + 1 - i]
     \/ fn = "flatten" /\ out.list = FlattenSeq([i \in 1..n |-> IF Is(xs[i], "list") THEN xs[i].list ELSE <<xs[i]>>])
     \/ fn = "sum" /\ IF \E i \in 1..n : ~IsNumber(xs[i]) THEN out = Fail("error")
                      ELSE IF \A i \in 1..n : Is(xs[i], "int")
                      THEN out = IntV(Wrap(SumFunction([i \in 1..n |-> xs[i].int])))
                      ELSE Is(out, "float")
     \/ fn = "min" /\ Extreme(xs, out, Less)
     \/ fn = "max" /\ Extreme(xs, out, LAMBDA x, y : Less(y, x))
     \/ fn = "uniq" /\ out = ListV(Picked(xs, Firsts(xs)))
     \/ fn = "contains" /\ out = BoolV(a \in ToSet(xs))
     \/ fn = "index_of" /\ IF a \in ToSet(xs) THEN out.int + 1 \in Firsts(xs) /\ xs[out.int + 1] = a
                           ELSE out = IntV(-1)
     \/ fn = "zip" /\ IF ~Is(a, "list") THEN out = Fail("error")
                      ELSE /\ {Len(xs), Len(a.list)} \cap {Len(out.list)} # {}
                           /\ \A i \in DOMAIN out.list : out.list[i] = ListV(<<xs[i], a.list[i]>>)

\* start, start + step, ... before stop; a count that would pass the largest integer is exempt.
MeansRange(start, stop, step, out) ==
  LET before == {i \in 0..(2 * (MaxInt + 1)) :
                   IF step > 0 THEN start + i * step < stop ELSE start + i * step > stop}
  IN \/ step = 0 /\ out = Fail("error")
     \/ step # 0 /\ Cardinality(before) > MaxRangeLen /\ out = Fail("error")
     \/ step # 0 /\ out = ListV([i \in 1..Cardinality(before) |-> IntV(start + (i - 1) * step)])
     \/ step # 0 /\ start + Cardinality(before) * step \notin (-MaxInt - 1)..MaxInt

RECURSIVE NumbersIn(_)
NumbersIn(t) ==
  IF Is(t, "number") THEN {t.number}
  ELSE IF Is(t, "array") THEN UNION {NumbersIn(t.array[i]) : i \in DOMAIN t.array}
  ELSE IF Is(t, "object") THEN UNION {NumbersIn(f[2]) : f \in t.object}
  ELSE {}

\* Reading a text and writing it again gives the text, if floats have its numbers.
MeansJSON(t, out) == ToJSON(out) = t \/ \E n \in NumbersIn(t) : FloatOf(n) # n

(* What a stage returns is what its name says, for the keys its elements   *)
(* had when they were read, each at some moment since the stage began:     *)
(* where keeps the elements in order, sort_by is stable and by one key per *)
(* element, group_by puts each element in one group, any and all stop at   *)
(* the first that decides, a count beyond the list is the whole list, and  *)
(* whatever fails fails as a whole.                                        *)
Explained ==
  LET fn == stage.fn
      v == stage.input
  IN stage.over /\ fn # "" =>
       IF fn = "range" THEN MeansRange(stage.arg[1], stage.arg[2], stage.arg[3], pipe)
       ELSE IF fn = "from_json" THEN ~Is(v, "json") \/ MeansJSON(v.json, pipe)
       ELSE IF fn \in OfRecords \cup {"to_json"} THEN TRUE
       ELSE IF ~Is(v, "list") THEN pipe = Fail("error")
       ELSE IF fn \in WithKeys
       THEN \E ls \in [DOMAIN v.list -> Moments] :
              MeansKeys(fn, v.list, [i \in DOMAIN v.list |-> Outcome(stage.arg, v.list[i], ls[i])], pipe)
       ELSE MeansList(fn, stage.arg, v.list, pipe)
================================================================================
