------------------------------- MODULE Evaluator -------------------------------
(***************************************************************************)
(* The kyu evaluator as the shell runs it: one thread for the statement at *)
(* the prompt and one for each piece of kyu code in the background, over   *)
(* the fields of their root environments that every scope below shares.    *)
(*                                                                         *)
(* A thread is a stack of frames, top first, and what it is about to do    *)
(* (ctl): evaluate a node, hand a value to the top frame, or unwind with a *)
(* signal.  A frame that has something to undo (a call its depth, in_ns    *)
(* its namespace, source its depth) does so when it is left, whichever way.*)
(*                                                                         *)
(* A program is a sequence of nodes; Files, Config and the programs of the *)
(* shell's scenes give them.  Of a value only what decides control is kept *)
(* (a boolean, an error, a closure, a job).  A closure remembers the root  *)
(* environment it was made in, and not the scopes between.                 *)
(***************************************************************************)
EXTENDS Naturals, SequencesExt, FiniteSets

CONSTANTS
  Jobs,             (* bound: background jobs                               *)
  MaxCallDepth, MaxSourceDepth,
  Files,            (* name -> program, of the kyu files source() can read  *)
  Config,           (* the startup files, a sequence of programs            *)
  Protected,        (* names of the namespace that reset_config leaves      *)
  Mounts            (* names bound at first                                 *)

ASSUME EvaluatorAssumption ==
  /\ "fg" \notin Jobs /\ IsFiniteSet(Jobs)
  /\ MaxCallDepth \in Nat /\ MaxSourceDepth \in Nat

Roots == {"fg"} \cup Jobs
Spaces == 0 .. 2                       (* namespaces there are; 0 is the shell's *)

VARIABLES
  root,       (* per root environment: its process-wide fields              *)
  th,         (* per root environment: the thread that evaluates for it     *)
  spaces,     (* namespace -> the names bound in it                         *)
  jobs,       (* per background job: its state, and how it ended            *)
  cancelled,  (* the contexts that have been cancelled                      *)
  given       (* full-screen programs the running statement has handed over *)

evalVars == <<root, th, spaces, jobs, cancelled, given>>

-----------------------------------------------------------------------------
(* Values, frames and threads.                                             *)

Null     == [kind |-> "null"]
Bool(b)  == [kind |-> "bool", is |-> b]
Bytes    == [kind |-> "bytes"]
ErrorVal == [kind |-> "error"]
JobVal(j) == [kind |-> "job", j |-> j]
Closure(n, home) == [kind |-> "fn", body |-> n.body, params |-> n.params, home |-> home]

\* A literal also stands for an expression that comes to its value without a call. Null, the
\* booleans and errors are told apart, and every other value is one.
Literal(v) == IF v \in {Null, Bool(TRUE), Bool(FALSE), ErrorVal} THEN v ELSE Bytes

Truthy(v) == v \notin {Null, Bool(FALSE)}

NoCtx == <<"none", 0>>
Idle  == [stack |-> <<>>, ctl |-> [do |-> "idle"]]

Eval(n) == [do |-> "eval", n |-> n]
Val(v)  == [do |-> "val", v |-> v]
Sig(s)  == [do |-> "sig", s |-> s]
Error   == Sig("error")

\* A scope: a block's (inner), a call's, or that of a program, whose variables are its
\* root's.  at is the host whose jobs %cmd uses in it, if it says.
Scope(level, home, body, at) ==
  [k |-> "scope", level |-> level, home |-> home, todo |-> body, vars |-> <<>>, at |-> at]

FreshRoot(ns, vars, tui, cwd) ==
  [ns |-> ns, vars |-> vars, depth |-> 0, sdepth |-> 0, ctx |-> NoCtx, handler |-> "none",
   cwd |-> cwd, code |-> 0, hooks |-> FALSE, tui |-> tui, prompt |-> FALSE]

EvalInit(tui) ==
  /\ root = [r \in Roots |-> [FreshRoot(0, <<>>, tui /\ r = "fg", "start") EXCEPT !.prompt = (r = "fg")]]
  /\ th = [r \in Roots |-> Idle]
  /\ spaces = [i \in Spaces |-> IF i = 0 THEN Mounts ELSE {}]
  /\ jobs = [j \in Jobs |-> [state |-> "free", killed |-> FALSE, out |-> "none"]]
  /\ cancelled = {}
  /\ given = 0

Stack(t) == th[t].stack
Ctl(t)   == th[t].ctl
Top(t)   == Head(Stack(t))

Set(f, x, v) == [y \in DOMAIN f \cup {x} |-> IF y = x THEN v ELSE f[y]]

\* The scopes a thread sees end with the one of the program or call it is in.
Base(t) ==
  CHOOSE i \in DOMAIN Stack(t) :
    /\ Stack(t)[i].k = "scope" /\ Stack(t)[i].level # "inner"
    /\ \A h \in 1 .. i - 1 : Stack(t)[h].k = "scope" => Stack(t)[h].level = "inner"
Home(t)   == Stack(t)[Base(t)].home
ScopesOf(t) == {i \in 1 .. Base(t) : Stack(t)[i].k = "scope"}
Inmost(is) == CHOOSE i \in is : \A h \in is : i <= h

Holding(t, x) == {i \in ScopesOf(t) : x \in DOMAIN Stack(t)[i].vars}
Defined(t, x) == Holding(t, x) # {} \/ x \in DOMAIN root[Home(t)].vars
Lookup(t, x) ==
  IF Holding(t, x) # {} THEN Stack(t)[Inmost(Holding(t, x))].vars[x] ELSE root[Home(t)].vars[x]

\* Every name in sight with its value, for a job to start from.
Visible(t) ==
  LET names == DOMAIN root[Home(t)].vars \cup UNION {DOMAIN Stack(t)[i].vars : i \in ScopesOf(t)}
  IN [x \in names |-> Lookup(t, x)]

\* The host whose /jobs a command uses.
JobRoot(t) ==
  LET is == {i \in ScopesOf(t) : Stack(t)[i].at # "local"} IN
  IF is = {} THEN "local" ELSE Stack(t)[Inmost(is)].at

Bound(t)  == spaces[root[Home(t)].ns]
Context(r) == root[r].ctx
IsCancelled(r) == Context(r) \in cancelled

Goes(t, stack, ctl) == th' = [th EXCEPT ![t] = [stack |-> stack, ctl |-> ctl]]
Does(t, ctl)   == Goes(t, Stack(t), ctl)
Push(t, f, ctl) == Goes(t, <<f>> \o Stack(t), ctl)
Pop(t, ctl)    == Goes(t, Tail(Stack(t)), ctl)

\* A block begins: its value is null until a statement of it has one.
Enter(t, stack, scope) == Goes(t, <<scope>> \o stack, Val(Null))

Doing(t, do) == Ctl(t).do = do
At(t, op) == Doing(t, "eval") /\ Ctl(t).n.op = op
N(t)      == Ctl(t).n

-----------------------------------------------------------------------------
(* Expressions and statements.                                             *)

EvalLit(t)  == At(t, "lit") /\ Does(t, Val(Literal(N(t).v))) /\ UNCHANGED <<root, spaces, jobs, cancelled, given>>
EvalVar(t)  ==
  /\ At(t, "var")
  /\ Does(t, IF Defined(t, N(t).x) THEN Val(Lookup(t, N(t).x)) ELSE Error)
  /\ UNCHANGED <<root, spaces, jobs, cancelled, given>>
EvalFn(t)   ==
  /\ At(t, "fn") /\ Does(t, Val(Closure(N(t), Home(t))))
  /\ UNCHANGED <<root, spaces, jobs, cancelled, given>>
EvalJump(t) ==
  /\ Doing(t, "eval") /\ N(t).op \in {"break", "continue"} /\ Does(t, Sig(N(t).op))
  /\ UNCHANGED <<root, spaces, jobs, cancelled, given>>

\* x := e, x = e, if, e?, l && r, l || r: the first operand, and a frame for the rest.
Operand ==
  [def |-> "e", set |-> "e", if |-> "e", try |-> "e", and |-> "l", or |-> "l"]
EvalFirst(t) ==
  /\ Doing(t, "eval") /\ N(t).op \in DOMAIN Operand
  /\ Push(t, [k |-> N(t).op, n |-> N(t), first |-> TRUE], Eval(N(t)[Operand[N(t).op]]))
  /\ UNCHANGED <<root, spaces, jobs, cancelled, given>>

\* Operands are evaluated from the left; at is the place of the function among them
\* (behind the piped value, in a pipe), 0 in a list.
EvalOperands(t) ==
  /\ At(t, "call") \/ At(t, "list") \/ At(t, "each")
  /\ Push(t, [k |-> "args", n |-> N(t), got |-> <<>>], Eval(N(t).es[1]))
  /\ UNCHANGED <<root, spaces, jobs, cancelled, given>>

EvalWhile(t) ==
  /\ At(t, "while")
  /\ Push(t, [k |-> "while", n |-> N(t), part |-> "top"], [do |-> "loop"])
  /\ UNCHANGED <<root, spaces, jobs, cancelled, given>>

\* Mutant: a loop does not look at the context.
LoopTopBlind(t) ==
  /\ Doing(t, "loop")
  /\ Goes(t, <<[Top(t) EXCEPT !.part = "cond"]>> \o Tail(Stack(t)), Eval(Top(t).n.cond))
  /\ UNCHANGED <<root, spaces, jobs, cancelled, given>>

\* A loop looks at the context of its environment before every turn.
LoopTop(t) ==
  /\ Doing(t, "loop")
  /\ IF IsCancelled(Home(t)) THEN Pop(t, Sig("cancelled"))
     ELSE Goes(t, <<[Top(t) EXCEPT !.part = "cond"]>> \o Tail(Stack(t)), Eval(Top(t).n.cond))
  /\ UNCHANGED <<root, spaces, jobs, cancelled, given>>

\* callClosure: the context and the depth are those of the environment the closure was
\* made in.  A wrong number of arguments is found out with the depth already counted.
Call(t, stack, f, n) ==
  \/ f.kind # "fn" /\ Goes(t, stack, Error) /\ UNCHANGED root
  \/ /\ f.kind = "fn" /\ IsCancelled(f.home)
     /\ Goes(t, stack, Sig("cancelled")) /\ UNCHANGED root
  \/ /\ f.kind = "fn" /\ ~IsCancelled(f.home) /\ root[f.home].depth >= MaxCallDepth
     /\ Goes(t, stack, Error) /\ UNCHANGED root
  \/ /\ f.kind = "fn" /\ ~IsCancelled(f.home) /\ root[f.home].depth < MaxCallDepth
     /\ root' = [root EXCEPT ![f.home].depth = @ + 1]
     /\ LET s == <<[k |-> "call", home |-> f.home]>> \o stack IN
        IF n # f.params THEN Goes(t, s, Error) ELSE Enter(t, s, Scope("call", f.home, f.body, "local"))

EvalInNS(t) ==
  /\ At(t, "in_ns")
  /\ LET ns == root[Home(t)].ns
         used == {root[r].ns : r \in Roots} \cup
                 {f.prev : f \in UNION {{g \in ToSet(Stack(r)) : g.k = "in_ns"} : r \in Roots}}
     IN \E new \in Spaces \ used :
          /\ \A i \in Spaces \ used : new <= i
          /\ spaces' = [spaces EXCEPT ![new] = spaces[ns]]
          /\ root' = [root EXCEPT ![Home(t)].ns = new]
          /\ Enter(t, <<[k |-> "in_ns", home |-> Home(t), prev |-> ns]>> \o Stack(t),
                   Scope("inner", Home(t), N(t).body, "local"))
  /\ UNCHANGED <<jobs, cancelled, given>>

\* @host { ... } looks for the mount first; an error in the block is wrapped.
EvalAtHost(t) ==
  /\ At(t, "at")
  /\ IF N(t).host \in Bound(t)
     THEN Enter(t, <<[k |-> "at"]>> \o Stack(t), Scope("inner", Home(t), N(t).body, N(t).host))
     ELSE Does(t, Error)
  /\ UNCHANGED <<root, spaces, jobs, cancelled, given>>

EvalBind(t) ==
  /\ At(t, "bind")
  /\ spaces' = [spaces EXCEPT ![root[Home(t)].ns] = @ \cup {N(t).p}]
  /\ Does(t, Val(Null))
  /\ UNCHANGED <<root, jobs, cancelled, given>>

EvalUnbind(t) ==
  /\ At(t, "unbind")
  /\ IF N(t).p \in Bound(t)
     THEN /\ spaces' = [spaces EXCEPT ![root[Home(t)].ns] = @ \ {N(t).p}]
          /\ Does(t, Val(Null))
     ELSE Does(t, Error) /\ UNCHANGED spaces
  /\ UNCHANGED <<root, jobs, cancelled, given>>

-----------------------------------------------------------------------------
(* Builtins of the root environment.                                       *)

\* unset reaches the variables of the root it was defined on: a job's are in a scope
\* above its root.
EvalUnset(t) ==
  /\ At(t, "unset")
  /\ LET reach == IF root[Home(t)].prompt THEN DOMAIN root[Home(t)].vars \cap {N(t).x} ELSE {} IN
     /\ root' = [root EXCEPT ![Home(t)].vars = [y \in DOMAIN @ \ reach |-> @[y]]]
     /\ Does(t, Val(Bool(reach # {})))
  /\ UNCHANGED <<spaces, jobs, cancelled, given>>

EvalCd(t) ==
  /\ At(t, "cd")
  /\ \/ root' = [root EXCEPT ![Home(t)].cwd = N(t).dir] /\ Does(t, Val(Null))
     \/ Does(t, Val(ErrorVal)) /\ UNCHANGED root                 \* no such directory
  /\ UNCHANGED <<spaces, jobs, cancelled, given>>

\* The file is read, the depth counted, the text parsed, and run in the root.
EvalSource(t) ==
  /\ At(t, "source")
  /\ LET h == Home(t)  f == N(t).file IN
     \/ f \notin DOMAIN Files /\ Does(t, Val(ErrorVal)) /\ UNCHANGED root
     \/ /\ f \in DOMAIN Files /\ root[h].sdepth >= MaxSourceDepth
        /\ Does(t, Error) /\ UNCHANGED root
     \/ /\ f \in DOMAIN Files /\ root[h].sdepth < MaxSourceDepth
        /\ root' = [root EXCEPT ![h].sdepth = @ + 1]
        /\ LET s == <<[k |-> "source", home |-> h]>> \o Stack(t) IN
           IF Files[f] = <<>> THEN Goes(t, s, Val(ErrorVal))      \* does not parse
           ELSE Enter(t, s, Scope("root", h, Files[f], "local"))
  /\ UNCHANGED <<spaces, jobs, cancelled, given>>

\* The startup files, one after the other, each whatever became of the one before.
RunConfig(t, stack) ==
  Goes(t, <<[k |-> "config", home |-> Home(t), files |-> Config]>> \o stack, Val(Null))

\* Only the shell's own root knows its startup files.
EvalSourceConfig(t) ==
  /\ At(t, "source_config")
  /\ IF root[Home(t)].prompt THEN RunConfig(t, Stack(t)) ELSE Does(t, Error)
  /\ UNCHANGED <<root, spaces, jobs, cancelled, given>>

\* reset_config removes the variables, then the unprotected names it has listed, one by
\* one; the first that cannot be unbound ends it.
EvalResetConfig(t) ==
  /\ At(t, "reset_config")
  /\ IF ~root[Home(t)].prompt THEN Does(t, Error) /\ UNCHANGED root
     ELSE /\ root' = [root EXCEPT ![Home(t)].vars = <<>>]
          /\ Push(t, [k |-> "reset", names |-> SetToSeq(Bound(t) \ Protected)], [do |-> "reset"])
  /\ UNCHANGED <<spaces, jobs, cancelled, given>>

ResetStep(t) ==
  /\ Doing(t, "reset")
  /\ LET names == Top(t).names IN
     \/ names = <<>> /\ RunConfig(t, Tail(Stack(t))) /\ UNCHANGED spaces
     \/ /\ names # <<>> /\ Head(names) \in Bound(t)
        /\ spaces' = [spaces EXCEPT ![root[Home(t)].ns] = @ \ {Head(names)}]
        /\ Goes(t, <<[Top(t) EXCEPT !.names = Tail(@)]>> \o Tail(Stack(t)), [do |-> "reset"])
     \/ /\ names # <<>> /\ Head(names) \notin Bound(t)
        /\ Pop(t, Val(ErrorVal)) /\ UNCHANGED spaces
  /\ UNCHANGED <<root, jobs, cancelled, given>>

-----------------------------------------------------------------------------
(* Commands.                                                               *)

\* %cmd: a job is made and started, then the handler of Ctrl-C is set.  (The calls on
\* the job are module ExternalCmd's.)  n.ends are the ways the process may end.
CmdStart(t) ==
  /\ At(t, "cmd")
  /\ Does(t, IF "jobs" \notin Bound(t) THEN Error ELSE [do |-> "started", n |-> N(t)])
  /\ UNCHANGED <<root, spaces, jobs, cancelled, given>>

CmdHandler(t) ==
  /\ Doing(t, "started")
  /\ root' = [root EXCEPT ![Home(t)].handler = t]
  /\ Does(t, [do |-> "running", n |-> N(t), int |-> FALSE])
  /\ UNCHANGED <<spaces, jobs, cancelled, given>>

CmdEnds(t) ==
  /\ Doing(t, "running")
  /\ \E how \in N(t).ends \cup (IF Ctl(t).int THEN {"killed"} ELSE {}) :
       /\ root' = [root EXCEPT
            ![Home(t)].handler = "none",
            ![Home(t)].code = IF how = "nostart" THEN @ ELSE IF how = "ok" THEN 0 ELSE 1]
       /\ Does(t, Val(IF how = "nostart" THEN ErrorVal ELSE Bytes))
  /\ UNCHANGED <<spaces, jobs, cancelled, given>>

\* A full-screen program.  In the full-screen shell it is handed to whoever has set the
\* hook, and the statement goes on; elsewhere it gets the terminal, as a %cmd would.
EvalScreen(t) ==
  /\ At(t, "screen")
  /\ LET r == root[Home(t)] IN
     \/ ~N(t).found /\ Does(t, Val(ErrorVal)) /\ UNCHANGED given  \* not in PATH
     \/ N(t).found /\ r.tui /\ ~r.hooks /\ Does(t, Val(ErrorVal)) /\ UNCHANGED given
     \/ N(t).found /\ r.tui /\ r.hooks /\ Does(t, Val(Null)) /\ given' = given + 1
     \/ N(t).found /\ ~r.tui /\ Does(t, [do |-> "started", n |-> N(t)]) /\ UNCHANGED given
  /\ UNCHANGED <<root, spaces, jobs, cancelled>>

\* attach(job) of a pty job: handed over, or the bytes of the terminal are passed on
\* until the user detaches, the input ends, or the job is gone.
EvalAttach(t) ==
  /\ At(t, "attach")
  /\ LET r == root[Home(t)] IN
     \/ r.tui /\ ~r.hooks /\ Does(t, Error) /\ UNCHANGED given
     \/ r.tui /\ r.hooks /\ Does(t, Val(Null)) /\ given' = given + 1
     \/ ~r.tui /\ Does(t, [do |-> "attached"]) /\ UNCHANGED given
  /\ UNCHANGED <<root, spaces, jobs, cancelled>>

Detach(t) ==
  /\ Doing(t, "attached") /\ Does(t, Val(Null))
  /\ UNCHANGED <<root, spaces, jobs, cancelled, given>>

\* The process of thread t is sent an interrupt, if it is there.
Interrupted(ths, t) ==
  IF t \in Roots /\ ths[t].ctl.do = "running" THEN [ths EXCEPT ![t].ctl.int = TRUE] ELSE ths

-----------------------------------------------------------------------------
(* Background jobs of kyu code.                                            *)

JobCtx(j) == <<j, 0>>

\* e &: a root of its own, with what is in sight for its variables.  The record of the
\* job is read through /jobs when it has been started already.
EvalBackground(t) ==
  /\ At(t, "bg")
  /\ \/ /\ JobRoot(t) # "local" \/ ~root[Home(t)].prompt
        /\ Does(t, Error) /\ UNCHANGED <<root, jobs>>
     \/ /\ JobRoot(t) = "local" /\ root[Home(t)].prompt
        /\ \E j \in Jobs :
             /\ jobs[j].state = "free"
             /\ jobs' = [jobs EXCEPT ![j].state = "running"]
             /\ root' = [root EXCEPT ![j] =
                  [FreshRoot(root[Home(t)].ns, Visible(t), FALSE, root[Home(t)].cwd) EXCEPT !.ctx = JobCtx(j)]]
             /\ LET body == IF N(t).e.op = "fn" THEN [op |-> "call", at |-> 1, es |-> <<N(t).e>>] ELSE N(t).e
                    job  == [stack |-> <<Scope("root", j, <<>>, "local")>>, ctl |-> Eval(body)]
                IN th' = [th EXCEPT ![j] = job,
                                    ![t].ctl = IF "jobs" \in Bound(t) THEN Val(JobVal(j)) ELSE Error]
  /\ UNCHANGED <<spaces, cancelled, given>>

\* The thread of a job has come to its end.  An error is the job's only after a kill;
\* otherwise it is text on stderr.
JobEnds(j) ==
  /\ jobs[j].state = "running" /\ Stack(j) = <<>>
  /\ jobs' = [jobs EXCEPT ![j].state = "ended",
       ![j].out = IF Doing(j, "val") THEN "ok" ELSE IF JobCtx(j) \in cancelled THEN "cancelled" ELSE "error"]
  /\ th' = [th EXCEPT ![j] = Idle]
  /\ root' = [root EXCEPT ![j].ctx = NoCtx]
  /\ UNCHANGED <<spaces, cancelled, given>>

\* j.ctl = "kill" cancels the context of a job that runs.
EvalKill(t) ==
  /\ At(t, "kill")
  /\ IF ~Defined(t, N(t).x) THEN Does(t, Error) /\ UNCHANGED <<jobs, cancelled>>
     ELSE LET j == Lookup(t, N(t).x).j IN
          IF jobs[j].state = "running"
          THEN /\ jobs' = [jobs EXCEPT ![j].killed = TRUE]
               /\ cancelled' = cancelled \cup {JobCtx(j)}
               /\ Does(t, Val(Null))
          ELSE Does(t, Error) /\ UNCHANGED <<jobs, cancelled>>
  /\ UNCHANGED <<root, spaces, given>>

\* wait(j) blocks, and nothing interrupts it.
EvalWait(t) ==
  /\ At(t, "wait")
  /\ IF ~Defined(t, N(t).x) THEN Does(t, Error)
     ELSE jobs[Lookup(t, N(t).x).j].state = "ended" /\ Does(t, Val(Null))
  /\ UNCHANGED <<root, spaces, jobs, cancelled, given>>

-----------------------------------------------------------------------------
(* A value goes to the top frame.                                          *)

\* The truth of an operand of && and ||: of a %cmd, its exit status.
Truth(t, n, v) ==
  IF n.op = "cmd" THEN v # ErrorVal /\ root[Home(t)].code = 0 ELSE Truthy(v)

\* Where := puts a variable: in the inmost scope, which may be the root.
Define(t, stack, x, v) ==
  IF Head(stack).level = "root"
  THEN /\ root' = [root EXCEPT ![Head(stack).home].vars = Set(@, x, v)]
       /\ Goes(t, stack, Val(Null))
  ELSE /\ Goes(t, <<[Head(stack) EXCEPT !.vars = Set(@, x, v)]>> \o Tail(stack), Val(Null))
       /\ UNCHANGED root

\* Where = finds one, or an error.
Assign(t, x, v) ==
  IF Holding(t, x) # {}
  THEN LET i == Inmost(Holding(t, x)) IN
       Goes(t, Tail([Stack(t) EXCEPT ![i].vars[x] = v]), Val(Null)) /\ UNCHANGED root
  ELSE IF x \in DOMAIN root[Home(t)].vars
  THEN root' = [root EXCEPT ![Home(t)].vars[x] = v] /\ Pop(t, Val(Null))
  ELSE Pop(t, Error) /\ UNCHANGED root

\* The next statement of a block, or the value of its last.
ReturnToScope(t, v) ==
  /\ UNCHANGED root
  /\ IF Top(t).todo = <<>> THEN Pop(t, Val(v))
     ELSE Goes(t, <<[Top(t) EXCEPT !.todo = Tail(@)]>> \o Tail(Stack(t)), Eval(Head(Top(t).todo)))

ReturnToIf(t, v) ==
  /\ UNCHANGED root
  /\ LET branch == IF Truthy(v) THEN Top(t).n.then ELSE Top(t).n.else IN
     IF branch = <<>> THEN Pop(t, Val(Null))
     ELSE Enter(t, Tail(Stack(t)), Scope("inner", Home(t), branch, "local"))

ReturnToWhile(t, v) ==
  /\ UNCHANGED root
  /\ IF Top(t).part = "body" THEN Does(t, [do |-> "loop"])
     ELSE IF Truthy(v)
     THEN Enter(t, <<[Top(t) EXCEPT !.part = "body"]>> \o Tail(Stack(t)),
                Scope("inner", Home(t), Top(t).n.body, "local"))
     ELSE Pop(t, Val(Null))

ReturnToLogic(t, v) ==
  /\ UNCHANGED root
  /\ LET n == Top(t).n  is == Truth(t, IF Top(t).first THEN n.l ELSE n.r, v) IN
     IF Top(t).first /\ is = (n.op = "and")
     THEN Goes(t, <<[Top(t) EXCEPT !.first = FALSE]>> \o Tail(Stack(t)), Eval(n.r))
     ELSE Pop(t, Val(Bool(is)))

\* each calls its closure for every row; got counts them.
ReturnToArgs(t, v) ==
  LET n == Top(t).n  got == Append(Top(t).got, v)  under == Tail(Stack(t)) IN
  IF n.op # "each" /\ Len(got) < Len(n.es)
  THEN /\ Goes(t, <<[Top(t) EXCEPT !.got = got]>> \o under, Eval(n.es[Len(got) + 1]))
       /\ UNCHANGED root
  ELSE IF n.op = "list" THEN Goes(t, under, Val(Bytes)) /\ UNCHANGED root
  ELSE IF n.op = "call" THEN n.at \in DOMAIN got /\ Call(t, under, got[n.at], Len(got) - 1)
  ELSE IF Len(got) > n.rows THEN Goes(t, under, Val(Bytes)) /\ UNCHANGED root
  ELSE Call(t, <<[Top(t) EXCEPT !.got = got]>> \o under, got[1], 1)

\* What a frame undoes when it is left.
Undone(f) ==
  CASE f.k = "call"   -> [root EXCEPT ![f.home].depth = @ - 1]
    [] f.k = "source" -> [root EXCEPT ![f.home].sdepth = @ - 1]
    [] f.k = "in_ns"  -> [root EXCEPT ![f.home].ns = f.prev]
    [] OTHER -> root

ReturnToConfig(t) ==
  /\ UNCHANGED root
  /\ IF Top(t).files = <<>> THEN Pop(t, Val(Null))
     ELSE Enter(t, <<[Top(t) EXCEPT !.files = Tail(@)]>> \o Tail(Stack(t)),
                Scope("root", Top(t).home, Head(Top(t).files), "local"))

Return(t) ==
  /\ Doing(t, "val") /\ Stack(t) # <<>>
  /\ LET v == Ctl(t).v  f == Top(t) IN
     CASE f.k = "scope" -> ReturnToScope(t, v)
       [] f.k = "def" -> Define(t, Tail(Stack(t)), f.n.x, v)
       [] f.k = "set" -> Assign(t, f.n.x, v)
       [] f.k = "if" -> ReturnToIf(t, v)
       [] f.k = "while" -> ReturnToWhile(t, v)
       [] f.k \in {"and", "or"} -> ReturnToLogic(t, v)
       [] f.k = "try" -> Pop(t, IF v = ErrorVal THEN Error ELSE Val(v)) /\ UNCHANGED root
       [] f.k = "args" -> ReturnToArgs(t, v)
       [] f.k = "config" -> ReturnToConfig(t)
       [] f.k = "source" -> Pop(t, Val(IF v = ErrorVal THEN v ELSE Null)) /\ root' = Undone(f)
       [] OTHER -> Pop(t, Val(v)) /\ root' = Undone(f)
  /\ UNCHANGED <<spaces, jobs, cancelled, given>>

-----------------------------------------------------------------------------
(* A signal unwinds the stack.                                             *)

\* Mutant: only a value undoes what the frame has done.
UnwindRaw(t) ==
  /\ Doing(t, "sig") /\ Stack(t) # <<>>
  /\ Pop(t, Ctl(t)) /\ UNCHANGED root
  /\ UNCHANGED <<spaces, jobs, cancelled, given>>

\* break and continue end at the loop whose body they are in; @ and source wrap what
\* passes them, so that a loop outside no longer knows it; startup files end there.
Unwind(t) ==
  /\ Doing(t, "sig") /\ Stack(t) # <<>>
  /\ LET s == Ctl(t).s  f == Top(t) IN
     IF f.k = "while" /\ f.part = "body" /\ s = "break" THEN Pop(t, Val(Null)) /\ UNCHANGED root
     ELSE IF f.k = "while" /\ f.part = "body" /\ s = "continue" THEN Does(t, [do |-> "loop"]) /\ UNCHANGED root
     ELSE IF f.k = "config" THEN Does(t, Val(Null)) /\ UNCHANGED root
     ELSE /\ root' = Undone(f)
          /\ Pop(t, IF f.k \in {"at", "source"} /\ s \in {"break", "continue"} THEN Error ELSE Ctl(t))
  /\ UNCHANGED <<spaces, jobs, cancelled, given>>

-----------------------------------------------------------------------------

\* A step of thread t that needs nobody else.
ThreadStep(t) ==
  \/ EvalLit(t) \/ EvalVar(t) \/ EvalFn(t) \/ EvalJump(t) \/ EvalFirst(t) \/ EvalOperands(t)
  \/ EvalWhile(t) \/ LoopTop(t) \/ EvalInNS(t) \/ EvalAtHost(t) \/ EvalBind(t) \/ EvalUnbind(t)
  \/ EvalUnset(t) \/ EvalCd(t) \/ EvalSource(t) \/ EvalSourceConfig(t) \/ EvalResetConfig(t)
  \/ ResetStep(t) \/ CmdStart(t) \/ CmdHandler(t) \/ CmdEnds(t) \/ EvalScreen(t) \/ EvalAttach(t)
  \/ Detach(t) \/ EvalBackground(t) \/ EvalKill(t) \/ EvalWait(t) \/ Return(t) \/ Unwind(t)

\* Thread t is in a closure that belongs to another root.
Alien(t) == \E f \in ToSet(Stack(t)) : f.k = "call" /\ f.home # t

\* Nothing of root r is being evaluated by any thread.
Resting(r) == \A t \in Roots : \A f \in ToSet(Stack(t)) : f.k \in {"scope", "call"} => f.home # r
=============================================================================
