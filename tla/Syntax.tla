-------------------------------- MODULE Syntax --------------------------------
(***************************************************************************)
(* What the front end of kyu promises: a program written down in any style *)
(* is read back as it was meant.                                           *)
(*                                                                         *)
(* A writer composes a syntax tree, one node at a time, in every way the   *)
(* language allows; Text is the reference printer, which knows the levels  *)
(* of the operators and nothing of how the parser goes about them.  Where  *)
(* the levels do not tell that the parser goes wrong, the printer sets a   *)
(* trap: a mark in the text that is taken out before it is parsed.         *)
(***************************************************************************)
EXTENDS Parser

CONSTANTS
  Leaves,     (* expressions of one token                                   *)
  Beside,     (* the expressions a node may have next to the one at hand    *)
  Operators,  (* binary operators the writer uses                           *)
  Styles,     (* ways to spell a program: [full, lines], see below          *)
  MaxNodes    (* bound: nodes of a program                                  *)

ASSUME OperatorsAssumption == Operators \subseteq DOMAIN Binary

\* A style has parentheses around every operand, argument and condition, or only where the
\* levels ask for them; and it breaks a program over lines wherever that may be done, with a
\* comma behind the last of a list, or has it on one line.
ASSUME StylesAssumption == Styles \subseteq [full : BOOLEAN, lines : BOOLEAN]

-----------------------------------------------------------------------------
(* The reference printer.                                                  *)

\* How tightly an expression holds together, doubled; an external command takes all up to
\* "&&", so it stands between "&&" and "==".
Level(x) ==
  CASE x.op = "pipe"   -> 2
    [] x.op = "binary" -> 2 * Binary[x.o]
    [] x.op = "ext"    -> 7
    [] x.op = "unary"  -> 16
    [] x.op \in {"field", "call", "check"} -> 18
    [] OTHER -> 20

\* The printer's mark of a place that is not read as it is written.
Trap == "trap"
Mark(wrong) == IF wrong THEN <<Trap>> ELSE <<>>

Lexemes(t)    == SelectSeq(t, LAMBDA w : w \notin {Trap, " ", "nl"})
LastLexeme(t) == t[Len(t) - 1]
Jumps         == {"break", "continue"}

\* A "/" behind t divides; behind what is no value, and behind a path, it begins a path.
Divides(t) ==
  /\ LastLexeme(t) \notin {"?", "&"} \cup Jumps
  /\ ~(Len(t) > 2 /\ t[Len(t) - 2] = "/")

Line(style) == IF style.lines THEN <<"nl", " ">> ELSE <<>>

Parens(t, style) == <<"(", " ">> \o Line(style) \o t \o <<")", " ">>

\* Texts between commas, and a comma behind the last one where the style has it.
Listed(ts, style) ==
  FoldLeft(LAMBDA t, u : IF t = <<>> THEN u ELSE t \o <<",", " ">> \o Line(style) \o u, <<>>, ts)
    \o IF style.lines /\ ts # <<>> THEN <<",", " ">> ELSE <<>>

\* A command or a function piped to at the end of x takes the brace behind x for its argument.
RECURSIVE TakesBrace(_)
TakesBrace(x) ==
  \/ x.op = "ext"
  \/ x.op = "pipe" /\ x.r.op = "ident"
  \/ x.op \in {"pipe", "binary"} /\ Level(x.r) > Level(x) /\ TakesBrace(x.r)

RECURSIVE Text(_, _), BlockText(_, _)

Operand(x, level, style) ==
  LET t == Text(x, style) IN
  IF style.full \/ Level(x) < level THEN Parens(t, style) ELSE t

\* The operators of two operands; the left one of "/" must end so that it divides.
InfixText(l, o, r, style) ==
  Mark(o = "/" /\ ~Divides(l)) \o l \o <<o, " ">> \o Line(style) \o r

\* Where a block follows, what takes a brace takes the block.
ConditionText(x, style) == Mark(TakesBrace(x) /\ ~style.full) \o Operand(x, 0, style)

\* Arguments have no operators; behind an argument or a bracket "/" divides, behind the name
\* of the command it begins a path.
ArgsText(name, args, style) ==
  FoldLeft(LAMBDA t, x :
             t \o Mark(/\ x.op = "path" /\ ~style.full
                       /\ Divides(t) /\ (t # name \/ LastLexeme(t) = ")"))
               \o Operand(x, 20, style),
           name, args)

\* A native program needs no "%".
CommandText(x, style) ==
  IF x.n # <<>> THEN ArgsText(<<"%">> \o Parens(Text(x.n[1], style), style), x.args, style)
  ELSE ArgsText(IF x.s \in Natives /\ ~style.full THEN <<x.s, " ">> ELSE <<"%", x.s, " ">>, x.args, style)

\* A record on one line is taken to be closed by the brace its last field ends with.
RecordText(fields, style) ==
  LET t == Listed([f \in DOMAIN fields |-> <<fields[f].s, " ", ":", " ">> \o Text(fields[f].x, style)], style)
  IN Mark(fields # <<>> /\ LastLexeme(t) = "}")
       \o <<"{", " ">> \o Line(style) \o t \o Line(style) \o <<"}", " ">>

ParamText(p, style) ==
  <<p.s, " ">> \o IF p.d = <<>> THEN <<>> ELSE <<"=", " ">> \o Operand(p.d[1], 4, style)

BodyText(body, style) == Line(style) \o BlockText(body, style) \o Line(style) \o <<"}", " ">>
Braced(body, style)   == <<"{", " ">> \o BodyText(body, style)

\* Without a body, the bars tell a closure from an empty record; set next to one another
\* they are an operator.
ClosureText(x, style) ==
  CASE x.params # <<>> \/ style.full ->
         <<"{", " ", "|", " ">> \o Listed([p \in DOMAIN x.params |-> ParamText(x.params[p], style)], style)
           \o <<"|", " ">> \o BodyText(x.body, style)
    [] x.params = <<>> /\ ~style.full /\ x.body # <<>> -> Braced(x.body, style)
    [] OTHER -> <<Trap, "{", " ", "||", " ", "}", " ">>

HostText(x, style) ==
  <<"@", " ">> \o (IF x.target = <<>> THEN <<x.s, " ">>
                   ELSE Operand(x.target[1], IF x.target[1].op = "path" THEN 0 ELSE 21, style))
               \o Braced(x.body, style)

\* `f { ... }` for a function behind a pipe with one argument in braces; so a native
\* program with such an argument is taken for a function.
PipedText(x, style) ==
  IF x.op = "call" /\ x.f.op = "ident" /\ Len(x.args) = 1 /\ x.args[1].op \in {"closure", "record"} /\ ~style.full
  THEN Text(x.f, style) \o Text(x.args[1], style)
  ELSE LET t == Operand(x, 3, style)
           begin == Lexemes(t)
       IN Mark(Len(begin) > 1 /\ begin[1] \in Natives /\ begin[2] = "{") \o t

Text(x, style) ==
  CASE x.op \in {"ident", "lit", "jump"} -> <<x.s, " ">>
    [] x.op = "path"    -> x.path \o <<" ">>
    [] x.op = "pipe"    -> InfixText(Operand(x.l, 2, style), "|", PipedText(x.r, style), style)
    [] x.op = "binary"  ->
         InfixText(Operand(x.l, Level(x), style), x.o, Operand(x.r, Level(x) + 1, style), style)
    [] x.op = "unary"   -> <<x.o, " ">> \o Operand(x.x, 16, style)
    [] x.op = "field"   -> Operand(x.x, 18, style) \o <<".", " ", x.s, " ">>
    [] x.op = "check"   -> Operand(x.x, 18, style) \o <<"?", " ">>
    [] x.op = "call"    ->
         Operand(x.f, 18, style)
           \o Parens(Listed([a \in DOMAIN x.args |-> Text(x.args[a], style)], style) \o Line(style), style)
    [] x.op \in {"list", "table"} ->
         LET elements == IF x.op = "list" THEN x.elements ELSE x.rows IN
         <<"[", " ">> \o Line(style) \o Listed([e \in DOMAIN elements |-> Text(elements[e], style)], style)
                      \o Line(style) \o <<"]", " ">>
    [] x.op = "record"  -> RecordText(x.fields, style)
    [] x.op = "closure" -> ClosureText(x, style)
    [] x.op = "ext"     -> CommandText(x, style)
    [] x.op = "if"      ->
         <<"if", " ">> \o ConditionText(x.c, style) \o Braced(x.then, style)
           \o IF x.else = <<>> THEN <<>> ELSE <<"else", " ">> \o Braced(x.else, style)
    [] x.op = "while"   -> <<"while", " ">> \o ConditionText(x.c, style) \o Braced(x.body, style)
    [] x.op = "at"      -> HostText(x, style)
    [] x.op = "in_ns"   -> <<"in_ns", " ">> \o Braced(x.body, style)
    [] x.op = "background" -> Text(x.x, style) \o <<"&", " ">> \o IF x.pty THEN <<"pty", " ">> ELSE <<>>

StmtText(s, style) ==
  CASE s.op = "expr"   -> Text(s.x, style)
    [] s.op = "define" -> <<s.s, " ", ":=", " ">> \o Text(s.x, style)
    [] s.op = "assign" -> Text(s.t, style) \o <<"=", " ">> \o Text(s.x, style)
    [] s.op = "bind"   ->
         <<"bind", " ">> \o Text(s.src, style) \o <<",", " ">> \o Text(s.dst, style)
           \o (IF s.ro THEN <<",", " ", "ro", " ">> ELSE <<>>)
           \o (IF s.disp = "replace" THEN <<>> ELSE <<",", " ", s.disp, " ">>)
    [] s.op = "unbind" -> <<"unbind", " ">> \o Text(s.dst, style)

\* The last argument of a command ends the text of x.
RECURSIVE EndsCommand(_)
EndsCommand(x) ==
  \/ x.op = "ext"
  \/ x.op \in {"pipe", "binary"} /\ Level(x.r) > Level(x) /\ EndsCommand(x.r)

\* A line feed ends a statement only behind a value.  Without one statement t, with the
\* expression x at its end, goes on with the text next, if that can continue it.
RunsOn(t, x, next) ==
  LET end == LastLexeme(t)
      w   == Lexemes(next)[1]
  IN \/ end \in {"?"} \cup Jumps /\ w \in {"(", "-"}
     \/ end \in Jumps /\ EndsCommand(x)
     \/ end = "&" /\ w = "pty"

LastExpr(s) == IF s.op \in {"bind", "unbind"} THEN s.dst ELSE s.x

\* Statements behind one another, on lines of their own or with ";" between them.
BlockText(stmts, style) ==
  LET Stmt(s) ==
        LET t == StmtText(stmts[s], style) IN
        IF s = Len(stmts) THEN t
        ELSE Mark(style.lines /\ RunsOn(t, LastExpr(stmts[s]), StmtText(stmts[s + 1], style)))
               \o t \o IF style.lines THEN <<"nl", " ">> ELSE <<";", " ">>
  IN FlattenSeq([s \in DOMAIN stmts |-> Stmt(s)])

-----------------------------------------------------------------------------
(* The writer.                                                             *)

VARIABLES
  done,     (* the statements before                                        *)
  expr,     (* the expression at hand                                       *)
  nodes     (* how many nodes the program has                               *)

vars == <<done, expr, nodes>>

Program == Append(done, ExprStmt(expr))

Init == done = <<>> /\ expr \in Leaves /\ nodes = 1

Names == {x \in Beside : x.op = "ident"}

\* x under a node of the language; l stands beside it.
Operations(x, l) ==
  UNION {{BinaryExpr(o, x, l), BinaryExpr(o, l, x)} : o \in Operators}
    \cup {PipeExpr(x, l), PipeExpr(l, x), UnaryExpr("-", x)}
    \cup {FieldAccess(x, "name"), ErrCheck(x), Call(x, <<>>), Call(x, <<l>>), Call(l, <<x>>)}

Literals(x, l) ==
  LET field == RecordField("name", x) IN
  {RecordLit(<<field>>), RecordLit(<<field, RecordField("size", l)>>), ListLit(<<l, x>>)}
    \cup (IF x.op = "record" THEN {TableLit(<<x>>)} ELSE {})
    \cup {Closure(<<>>, <<>>), Closure(<<>>, <<ExprStmt(x)>>),
          Closure(<<Param("name", <<>>), Param("size", <<x>>)>>, <<ExprStmt(x)>>)}

Commands(x, l) ==
  {ExternalCall("name", <<>>, <<l, x>>), ExternalCall("", <<x>>, <<l>>)}
    \cup {ExternalCall(s, <<>>, <<x>>) : s \in Natives}

Blocks(x, l) ==
  {IfExpr(x, <<ExprStmt(l)>>, <<>>), IfExpr(l, <<ExprStmt(x)>>, <<ExprStmt(x)>>),
   WhileExpr(x, <<ExprStmt(l)>>), AtHost("", <<x>>, <<ExprStmt(l)>>), InNS(<<ExprStmt(x)>>)}

Compose ==
  /\ nodes < MaxNodes
  /\ \E l \in Beside :
       expr' \in Operations(expr, l) \cup Literals(expr, l) \cup Commands(expr, l) \cup Blocks(expr, l)
  /\ nodes' = nodes + 1
  /\ UNCHANGED done

\* The statements that have the expression at hand in them.
Statements(x) ==
  {ExprStmt(x), ExprStmt(Background(x, FALSE)), DefineStmt("name", Background(x, TRUE)),
   DefineStmt("name", x), UnbindStmt(x)}
    \cup {AssignStmt(t, x) : t \in Names \cup IF IsAssignable(x) THEN {x} ELSE {}}
    \cup UNION {{BindStmt(x, l, "before", TRUE), BindStmt(l, x, "replace", FALSE)} : l \in Beside}

\* Bound: a later statement begins with no jump.
Finish ==
  /\ nodes < MaxNodes
  /\ \E s \in Statements(expr) : done' = Append(done, s)
  /\ expr' \in {x \in Leaves : x.op # "jump"}
  /\ nodes' = nodes + 1

\* The statements become the block of one expression.
Enclose ==
  /\ nodes < MaxNodes /\ done # <<>>
  /\ expr' \in {Closure(<<>>, Program), Closure(<<Param("name", <<>>)>>, done), InNS(Program),
                IfExpr(expr, done, done), WhileExpr(expr, done), AtHost("name", <<>>, Program)}
  /\ done' = <<>>
  /\ nodes' = nodes + 1

Next == Compose \/ Finish \/ Enclose

Spec == Init /\ [][Next]_vars

-----------------------------------------------------------------------------
Spellings == {BlockText(Program, style) : style \in Styles}

(* In every style the parser reads a program as it was written: operators  *)
(* of one level from the left, a bracket closed by its own mark, a slash   *)
(* as division or path, a line feed as the end of a statement or not, a    *)
(* brace as block, record, closure or argument.  It does not where the     *)
(* printer has set a trap, and there only.  And a whole program never asks *)
(* for another line.                                                       *)
RoundTrip ==
  \A written \in Spellings :
    LET tokens == Lex(SelectSeq(written, LAMBDA w : w # Trap))
        read   == Parse(tokens)
    IN /\ (read.ok /\ read.x = Program) = (\A i \in DOMAIN written : written[i] # Trap)
       /\ BracketDepth(tokens) = 0
================================================================================
