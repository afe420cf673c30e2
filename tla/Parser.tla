-------------------------------- MODULE Parser --------------------------------
(***************************************************************************)
(* The front end of kyu: the lexer, whose tokens depend on the token       *)
(* before, and the precedence-climbing parser.                             *)
(*                                                                         *)
(* A text is a sequence of lexemes: words, numbers, marks, " " and "nl".   *)
(* A run of letters and digits is one lexeme, and so is a mark of one or   *)
(* two characters; "/" and "%" are lexemes of their own, and what stands   *)
(* before and next to them decides what they are.  A comment is a space.   *)
(*                                                                         *)
(* A parse result is [ok, i, x]: the node and the place of its last token, *)
(* as the code leaves the parser's cur.  The first error is the result: a  *)
(* text with an error is never evaluated, whatever is parsed after it.     *)
(***************************************************************************)
EXTENDS Ast, Integers, SequencesExt

CONSTANTS
  Idents,     (* words that are names                                       *)
  Numbers,    (* numbers, durations, true, false and null                   *)
  Natives     (* native programs: words called without "%", some with a     *)
              (* digit first                                                *)

Keywords == {"if", "else", "bind", "unbind", "in_ns", "while", "break", "continue"}
Words    == Idents \cup Numbers \cup Natives \cup Keywords

-----------------------------------------------------------------------------
(* The lexer.                                                              *)

Token(k, s) == [k |-> k, s |-> s]
Newline == Token("NEWLINE", "nl")
EOF     == Token("EOF", "")

\* The tokens that end a value: a "/" after one divides, a "%" after one is modulo, and
\* a line feed after one ends the statement.
EndsValue(k) == k \in {"IDENT", "LIT", "PATH", ")", "}", "]"}

\* What a word is; after the "%" of a command it is the command's name.
Word(w, last) ==
  IF last = "PERCENT" \/ w \in Natives \/ w \in Idents THEN Token("IDENT", w)
  ELSE IF w \in Numbers THEN Token("LIT", w)
  ELSE Token(w, w)

\* The lexeme at i, or "" behind the end.
LexemeAt(text, i) == IF i <= Len(text) THEN text[i] ELSE ""

\* A path goes on as far as its characters do; "/" alone is one too.
PathLexemes == Words \cup {"/", ".", "-"}
PathEnd(text, i) ==
  CHOOSE j \in i .. Len(text) :
    LexemeAt(text, j + 1) \notin PathLexemes /\ \A h \in i .. j : text[h] \in PathLexemes

\* The tokens of the text from place i on, after a token of kind last.  named: that token
\* names an external command, whose first argument may be a path.  nl: a line has ended.
RECURSIVE LexFrom(_, _, _, _, _)
LexFrom(text, i, last, named, nl) ==
  LET c == LexemeAt(text, i)
      Goes(tok, next, ext) == <<tok>> \o LexFrom(text, next, tok.k, ext, FALSE)
  IN IF c = " " THEN LexFrom(text, i + 1, last, named, nl)
     ELSE IF c = "nl" THEN LexFrom(text, i + 1, last, named, TRUE)
     ELSE IF nl /\ EndsValue(last) THEN Goes(Newline, i, FALSE)
     ELSE CASE c = ""      -> <<EOF>>
            [] c \in Words -> Goes(Word(c, last), i + 1, last = "PERCENT" \/ c \in Natives)
            [] c = "/"     ->
                 IF EndsValue(last) /\ last # "PATH" /\ ~named
                 THEN Goes(Token("/", c), i + 1, FALSE)
                 ELSE Goes(Token("PATH", SubSeq(text, i, PathEnd(text, i))), PathEnd(text, i) + 1, FALSE)
            [] c = "%"     ->
                 IF ~EndsValue(last) /\ LexemeAt(text, i + 1) \in Words \cup {"("}
                 THEN Goes(Token("PERCENT", c), i + 1, FALSE)
                 ELSE Goes(Token("%", c), i + 1, FALSE)
            [] OTHER       -> Goes(Token(c, c), i + 1, FALSE)

Lex(text) == LexFrom(text, 1, "ILLEGAL", FALSE, FALSE)

-----------------------------------------------------------------------------
(* The parser's place in the tokens.                                       *)

Kind(ts, i) == IF i <= Len(ts) THEN ts[i].k ELSE "EOF"
Lit(ts, i)  == ts[i].s

Found(i, x) == [ok |-> TRUE, i |-> i, x |-> x]
Wrong       == [ok |-> FALSE]
Then(r, Next(_)) == IF r.ok THEN Next(r) ELSE Wrong

Terminators == {"NEWLINE", ";"}

\* The first place from i on that is no terminator.
SkipTerminators(ts, i) ==
  CHOOSE j \in i .. i + Len(ts) :
    Kind(ts, j) \notin Terminators /\ \A h \in i .. j - 1 : Kind(ts, h) \in Terminators

\* A token of kind k at i, where a node has ended, or behind it.
ExpectPeekOrCur(ts, i, k) ==
  IF Kind(ts, i) = k THEN Found(i, k)
  ELSE IF Kind(ts, i + 1) = k THEN Found(i + 1, k)
  ELSE Wrong

LOWEST == 0
PIPE   == 1
POSTFIX == 8
Binary == ("||" :> 2) @@ ("&&" :> 3) @@ ("==" :> 4) @@ ("!=" :> 4) @@ ("<" :> 5) @@ (">" :> 5) @@
          ("<=" :> 5) @@ (">=" :> 5) @@ ("+" :> 6) @@ ("-" :> 6) @@ ("*" :> 7) @@ ("/" :> 7) @@ ("%" :> 7)
Precedences == ("|" :> PIPE) @@ Binary @@ ("(" :> 9) @@ ("." :> 9) @@ ("?" :> 9)
Infixes == DOMAIN Precedences
PeekPrecedence(ts, i) ==
  IF Kind(ts, i + 1) \in Infixes THEN Precedences[Kind(ts, i + 1)] ELSE LOWEST

\* What never begins an argument of an external command.
EndsExternalCallArgs(k) ==
  k \in Terminators \cup {"EOF", "|", "&", ")", "}", "]", ",", "&&", "||"}

IsAssignable(x) == x.op \in {"ident", "field"}
DispositionWords == {"before", "after", "replace"}

-----------------------------------------------------------------------------
(* Expressions.                                                            *)

RECURSIVE ParseExpr(_, _, _), ParseRest(_, _, _), ParsePrefix(_, _), ParseStmt(_, _),
          ParseStmts(_, _, _, _), ParseElements(_, _, _, _), ParseFields(_, _, _),
          ParseParams(_, _, _), ParseArgs(_, _, _), ParseWords(_, _, _)

ParseExpr(ts, i, prec) == Then(ParsePrefix(ts, i), LAMBDA l : ParseRest(ts, l, prec))

ParseBlock(ts, i) == ParseStmts(ts, i, {"}", "EOF"}, <<>>)

\* `{` at or behind i, statements, and `}`: the body of if, while, @ and in_ns.
ParseBody(ts, i, Node(_)) ==
  Then(ExpectPeekOrCur(ts, i, "{"), LAMBDA o :
  Then(ParseBlock(ts, o.i + 1),     LAMBDA b :
  Then(ExpectPeekOrCur(ts, b.i, "}"), LAMBDA c : Found(c.i, Node(b.x)))))

ParseUnary(ts, i) ==
  Then(ParseExpr(ts, i + 1, POSTFIX), LAMBDA x : Found(x.i, UnaryExpr(Kind(ts, i), x.x)))

\* Mutant: the end of what is inside is taken for the end of the group.
ParseGroupedExprAnyEnd(ts, i) ==
  Then(ParseExpr(ts, i + 1, LOWEST),  LAMBDA e :
  Then(ExpectPeekOrCur(ts, e.i, ")"), LAMBDA c : Found(c.i, e.x)))

ParseGroupedExpr(ts, i) ==
  Then(ParseExpr(ts, i + 1, LOWEST), LAMBDA e :
    IF Kind(ts, e.i + 1) = ")" THEN Found(e.i + 1, e.x) ELSE Wrong)

\* The fields behind the one whose name is at i.
ParseFields(ts, i, got) ==
  Then(ExpectPeekOrCur(ts, i, ":"), LAMBDA n :
  Then(ParseExpr(ts, n.i + 1, LOWEST), LAMBDA v :
    LET fields == Append(got, RecordField(Lit(ts, i), v.x)) IN
    IF Kind(ts, v.i + 1) = "," /\ Kind(ts, v.i + 2) # "}" THEN ParseFields(ts, v.i + 2, fields)
    ELSE Then(ExpectPeekOrCur(ts, IF Kind(ts, v.i + 1) = "," THEN v.i + 2 ELSE v.i, "}"),
              LAMBDA c : Found(c.i, RecordLit(fields)))))

\* A default ends before a "|", which closes the parameters; once one parameter has a
\* default, the others must.
ParseParams(ts, i, got) ==
  LET With(d) == Append(got, Param(Lit(ts, i), d))
      After(j) == IF Kind(ts, j) = "," THEN j + 1 ELSE j
  IN IF Kind(ts, i) # "IDENT" THEN (IF Kind(ts, i) = "|" THEN Found(i, got) ELSE Wrong)
     ELSE IF Kind(ts, i + 1) = "="
     THEN Then(ParseExpr(ts, i + 2, PIPE), LAMBDA d : ParseParams(ts, After(d.i + 1), With(<<d.x>>)))
     ELSE IF \E j \in DOMAIN got : got[j].d # <<>> THEN Wrong
     ELSE ParseParams(ts, After(i + 1), With(<<>>))

\* The body of a closure from i on.
ParseClosureBody(ts, i, params) ==
  Then(ParseBlock(ts, i),             LAMBDA b :
  Then(ExpectPeekOrCur(ts, b.i, "}"), LAMBDA c :
    Found(c.i, Closure(params, b.x))))

\* A brace opens a record if nothing or a name and a colon come behind it.
ParseBraceExpr(ts, i) ==
  CASE Kind(ts, i + 1) = "}" -> Found(i + 1, RecordLit(<<>>))
    [] Kind(ts, i + 1) = "|" ->
         Then(ParseParams(ts, i + 2, <<>>), LAMBDA p : ParseClosureBody(ts, p.i + 1, p.x))
    [] Kind(ts, i + 1) = "IDENT" /\ Kind(ts, i + 2) = ":" -> ParseFields(ts, i + 1, <<>>)
    [] OTHER -> ParseClosureBody(ts, i + 1, <<>>)

\* Elements up to the closing token; the commas between them may be left out.
ParseElements(ts, i, close, got) ==
  LET j == SkipTerminators(ts, i) IN
  IF Kind(ts, j) = close THEN Found(j, got)
  ELSE Then(ParseExpr(ts, j, LOWEST), LAMBDA e :
         LET next == SkipTerminators(ts, e.i + 1) IN
         ParseElements(ts, IF Kind(ts, next) = "," THEN SkipTerminators(ts, next + 1) ELSE next,
                       close, Append(got, e.x)))

\* A list of records alone is a table.
ParseListOrTableLit(ts, i) ==
  Then(ParseElements(ts, i + 1, "]", <<>>), LAMBDA l :
    LET table == l.x # <<>> /\ \A j \in DOMAIN l.x : l.x[j].op = "record" IN
    Found(l.i, IF table THEN TableLit(l.x) ELSE ListLit(l.x)))

\* Arguments follow one another without commas, each without operators.
ParseArgs(ts, i, got) ==
  IF EndsExternalCallArgs(Kind(ts, i + 1)) THEN Found(i, got)
  ELSE Then(ParsePrefix(ts, i + 1), LAMBDA a : ParseArgs(ts, a.i, Append(got, a.x)))

ParseExternalCallArgs(ts, i, s, n) ==
  Then(ParseArgs(ts, i, <<>>), LAMBDA a : Found(a.i, ExternalCall(s, n, a.x)))

\* %name or %(expression); a native program needs no "%".
ParseExternalCall(ts, i) ==
  CASE Kind(ts, i + 1) = "(" ->
         Then(ParseGroupedExpr(ts, i + 1), LAMBDA n : ParseExternalCallArgs(ts, n.i, "", <<n.x>>))
    [] Kind(ts, i + 1) = "IDENT" -> ParseExternalCallArgs(ts, i + 1, Lit(ts, i + 1), <<>>)
    [] OTHER -> Wrong

ParseIfExpr(ts, i) ==
  Then(ParseExpr(ts, i + 1, LOWEST), LAMBDA c :
  Then(ParseBody(ts, c.i, LAMBDA body : body), LAMBDA t :
    LET If(else) == IfExpr(c.x, t.x, else) IN
    IF Kind(ts, t.i + 1) # "else" THEN Found(t.i, If(<<>>))
    ELSE IF Kind(ts, t.i + 2) # "{" THEN Wrong
    ELSE ParseBody(ts, t.i + 2, If)))

ParseWhileExpr(ts, i) ==
  Then(ParseExpr(ts, i + 1, LOWEST), LAMBDA c :
    ParseBody(ts, c.i, LAMBDA body : WhileExpr(c.x, body)))

\* @name, @path or @(expression).
ParseAtHost(ts, i) ==
  LET At(j, s, target) ==
        ParseBody(ts, j, LAMBDA body : AtHost(s, target, body))
  IN CASE Kind(ts, i + 1) = "IDENT" -> At(i + 1, Lit(ts, i + 1), <<>>)
       [] Kind(ts, i + 1) = "PATH" ->
            Then(ParsePrefix(ts, i + 1), LAMBDA p : At(p.i, "", <<p.x>>))
       [] Kind(ts, i + 1) = "(" ->
            Then(ParseGroupedExpr(ts, i + 1), LAMBDA e : At(e.i, "", <<e.x>>))
       [] OTHER -> Wrong

ParseInNS(ts, i) == ParseBody(ts, i, InNS)

ParsePrefix(ts, i) ==
  LET k == Kind(ts, i) IN
  CASE k = "IDENT" ->
         IF Lit(ts, i) \in Natives THEN ParseExternalCallArgs(ts, i, Lit(ts, i), <<>>)
         ELSE Found(i, Ident(Lit(ts, i)))
    [] k = "LIT" -> Found(i, Literal(Lit(ts, i)))
    [] k = "PATH" -> Found(i, PathLit(Lit(ts, i)))
    [] k \in {"!", "-"} -> ParseUnary(ts, i)
    [] k = "(" -> ParseGroupedExpr(ts, i)
    [] k = "{" -> ParseBraceExpr(ts, i)
    [] k = "[" -> ParseListOrTableLit(ts, i)
    [] k = "PERCENT" -> ParseExternalCall(ts, i)
    [] k = "if" -> ParseIfExpr(ts, i)
    [] k = "while" -> ParseWhileExpr(ts, i)
    [] k = "break" -> Found(i, BreakExpr)
    [] k = "continue" -> Found(i, ContinueExpr)
    [] k = "@" -> ParseAtHost(ts, i)
    [] k = "in_ns" -> ParseInNS(ts, i)
    [] OTHER -> Wrong

\* `name { ... }` behind a pipe is a call with that one argument.
ParsePipeRHS(ts, i) ==
  IF Kind(ts, i) = "IDENT" /\ Kind(ts, i + 1) = "{"
  THEN Then(ParseBraceExpr(ts, i + 1), LAMBDA b :
         Found(b.i, Call(Ident(Lit(ts, i)), <<b.x>>)))
  ELSE ParseExpr(ts, i, PIPE)

ParseFieldAccess(ts, i, left) ==
  Then(ExpectPeekOrCur(ts, i, "IDENT"), LAMBDA n : Found(n.i, FieldAccess(left, Lit(ts, n.i))))

ParseCall(ts, i, left) ==
  Then(ParseElements(ts, i + 1, ")", <<>>), LAMBDA a : Found(a.i, Call(left, a.x)))

ParsePipe(ts, i, left) ==
  Then(ParsePipeRHS(ts, i + 1), LAMBDA r : Found(r.i, PipeExpr(left, r.x)))

ParseBinary(ts, i, left) ==
  LET o == Kind(ts, i) IN
  Then(ParseExpr(ts, i + 1, Precedences[o]), LAMBDA r : Found(r.i, BinaryExpr(o, left, r.x)))

\* The operator at i, behind the operand left.
ParseInfix(ts, i, left) ==
  CASE Kind(ts, i) = "." -> ParseFieldAccess(ts, i, left)
    [] Kind(ts, i) = "(" -> ParseCall(ts, i, left)
    [] Kind(ts, i) = "?" -> Found(i, ErrCheck(left))
    [] Kind(ts, i) = "|" -> ParsePipe(ts, i, left)
    [] OTHER -> ParseBinary(ts, i, left)

\* The operators behind l that bind tighter than prec.
ParseRest(ts, l, prec) ==
  IF Kind(ts, l.i + 1) \notin Terminators /\ prec < PeekPrecedence(ts, l.i)
  THEN Then(ParseInfix(ts, l.i + 1, l.x), LAMBDA m : ParseRest(ts, m, prec))
  ELSE l

-----------------------------------------------------------------------------
(* Statements.                                                             *)

\* An expression, and `&` behind it, and `pty` behind that.
ParseValueExpr(ts, i) ==
  Then(ParseExpr(ts, i, LOWEST), LAMBDA e :
    LET pty == Kind(ts, e.i + 2) = "IDENT" /\ Lit(ts, e.i + 2) = "pty" IN
    IF Kind(ts, e.i + 1) # "&" THEN e
    ELSE Found(IF pty THEN e.i + 2 ELSE e.i + 1, Background(e.x, pty)))

\* The words behind the destination of a bind: a disposition and ro, each once at most.
ParseWords(ts, i, b) ==
  LET w == Lit(ts, i + 2) IN
  IF Kind(ts, i + 1) # "," THEN Found(i, [b EXCEPT !.disp = IF @ = "" THEN "replace" ELSE @])
  ELSE IF Kind(ts, i + 2) # "IDENT" THEN Wrong
  ELSE IF w \in DispositionWords /\ b.disp = "" THEN ParseWords(ts, i + 2, [b EXCEPT !.disp = w])
  ELSE IF w = "ro" /\ ~b.ro THEN ParseWords(ts, i + 2, [b EXCEPT !.ro = TRUE])
  ELSE Wrong

ParseBindStmt(ts, i) ==
  Then(ParseExpr(ts, i + 1, LOWEST),  LAMBDA s :
  Then(ExpectPeekOrCur(ts, s.i, ","), LAMBDA c :
  Then(ParseExpr(ts, c.i + 1, LOWEST), LAMBDA d :
    ParseWords(ts, d.i, BindStmt(s.x, d.x, "", FALSE)))))

ParseStmt(ts, i) ==
  CASE Kind(ts, i) = "bind" -> ParseBindStmt(ts, i)
    [] Kind(ts, i) = "unbind" ->
         Then(ParseExpr(ts, i + 1, LOWEST), LAMBDA d : Found(d.i, UnbindStmt(d.x)))
    [] Kind(ts, i) = "IDENT" /\ Kind(ts, i + 1) = ":=" ->
         Then(ParseValueExpr(ts, i + 2), LAMBDA v :
           Found(v.i, DefineStmt(Lit(ts, i), v.x)))
    [] OTHER ->
         Then(ParseValueExpr(ts, i), LAMBDA e :
           IF Kind(ts, e.i + 1) # "=" THEN Found(e.i, ExprStmt(e.x))
           ELSE IF ~IsAssignable(e.x) THEN Wrong
           ELSE Then(ParseValueExpr(ts, e.i + 2), LAMBDA v :
                  Found(v.i, AssignStmt(e.x, v.x))))

\* Statements up to a token of stop.  Nothing need stand between two of them.
ParseStmts(ts, i, stop, got) ==
  LET j == SkipTerminators(ts, i) IN
  IF Kind(ts, j) \in stop THEN Found(j, got)
  ELSE Then(ParseStmt(ts, j), LAMBDA s : ParseStmts(ts, s.i + 1, stop, Append(got, s.x)))

\* ParseProgram on the tokens of a whole text.
Parse(ts) == ParseStmts(ts, 1, {"EOF"}, <<>>)

\* How many brackets are open: the shell asks for another line while it is positive.
BracketDepth(ts) ==
  LET Of(kinds) == Len(SelectSeq(ts, LAMBDA tok : tok.k \in kinds))
  IN Of({"(", "{", "["}) - Of({")", "}", "]"})
=============================================================================
