---------------------------------- MODULE Ast ----------------------------------
(***************************************************************************)
(* The syntax tree of kyu: one operator per kind of node.  Positions and   *)
(* tokens kept for messages are left out; the literals are one kind.       *)
(***************************************************************************)
Ident(s)      == [op |-> "ident", s |-> s]
Literal(s)    == [op |-> "lit", s |-> s]
PathLit(path) == [op |-> "path", path |-> path]

RecordField(s, x) == [s |-> s, x |-> x]
RecordLit(fields) == [op |-> "record", fields |-> fields]
TableLit(rows)    == [op |-> "table", rows |-> rows]
ListLit(elements) == [op |-> "list", elements |-> elements]

\* d is <<>> where a parameter has no default.
Param(s, d)           == [s |-> s, d |-> d]
Closure(params, body) == [op |-> "closure", params |-> params, body |-> body]

FieldAccess(x, s) == [op |-> "field", x |-> x, s |-> s]
Call(f, args)     == [op |-> "call", f |-> f, args |-> args]

\* A command is named by the word s, or by the expression in n.
ExternalCall(s, n, args) == [op |-> "ext", s |-> s, n |-> n, args |-> args]

PipeExpr(l, r)      == [op |-> "pipe", l |-> l, r |-> r]
BinaryExpr(o, l, r) == [op |-> "binary", o |-> o, l |-> l, r |-> r]
UnaryExpr(o, x)     == [op |-> "unary", o |-> o, x |-> x]
ErrCheck(x)         == [op |-> "check", x |-> x]

\* else is <<>> where there is none.
IfExpr(c, then, else) == [op |-> "if", c |-> c, then |-> then, else |-> else]
WhileExpr(c, body)    == [op |-> "while", c |-> c, body |-> body]
BreakExpr             == [op |-> "jump", s |-> "break"]
ContinueExpr          == [op |-> "jump", s |-> "continue"]

Background(x, pty) == [op |-> "background", x |-> x, pty |-> pty]

\* A host is named by the word s, or by the expression in target.
AtHost(s, target, body) == [op |-> "at", s |-> s, target |-> target, body |-> body]
InNS(body)              == [op |-> "in_ns", body |-> body]

ExprStmt(x)         == [op |-> "expr", x |-> x]
DefineStmt(s, x)    == [op |-> "define", s |-> s, x |-> x]
AssignStmt(t, x)    == [op |-> "assign", t |-> t, x |-> x]
BindStmt(src, dst, disp, ro) ==
  [op |-> "bind", src |-> src, dst |-> dst, disp |-> disp, ro |-> ro]
UnbindStmt(dst)     == [op |-> "unbind", dst |-> dst]
================================================================================
