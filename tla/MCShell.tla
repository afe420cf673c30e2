------------------------------- MODULE MCShell -------------------------------
EXTENDS Shell

MCRunes       == STRING
MCLetters     == {"a", "b"}
MCWords       == << <<"a", "a">>, <<"a", "b">> >>
MCExecutables == << <<"b", "a">>, <<"b", "b">> >>
MCPathNames   == << <<"/", "a">>, <<"/", "a", "b">> >>

K(key)  == [key |-> key]
R(runes) == {[key |-> "rune", rune |-> c] : c \in runes}

\* Nodes.
T        == [op |-> "lit", v |-> Bool(TRUE)]
F        == [op |-> "lit", v |-> Bool(FALSE)]
V(x)     == [op |-> "var", x |-> x]
Fn(ps, body) == [op |-> "fn", params |-> ps, body |-> body]
Def(x, e) == [op |-> "def", x |-> x, e |-> e]
Assigned(x, e) == [op |-> "set", x |-> x, e |-> e]
Do(x)    == [op |-> "call", at |-> 1, es |-> <<V(x)>>]
Do1(x, e) == [op |-> "call", at |-> 2, es |-> <<e, V(x)>>]
While(c, body) == [op |-> "while", cond |-> c, body |-> body]
If(e, then, else) == [op |-> "if", e |-> e, then |-> then, else |-> else]
InNS(body) == [op |-> "in_ns", body |-> body]
On(h, body) == [op |-> "at", host |-> h, body |-> body]
Try(e)   == [op |-> "try", e |-> e]
And(l, r) == [op |-> "and", l |-> l, r |-> r]
Or(l, r) == [op |-> "or", l |-> l, r |-> r]
Cmd(ends) == [op |-> "cmd", ends |-> ends]
Screen   == [op |-> "screen", found |-> TRUE, ends |-> {"ok"}]
NoScreen == [op |-> "screen", found |-> FALSE, ends |-> {}]
Bg(e)    == [op |-> "bg", e |-> e]
Of(op, x) == [op |-> op, x |-> x]
P(op, p) == [op |-> op, p |-> p]
Src(f)   == [op |-> "source", file |-> f]
Op(op)   == [op |-> op]

MCFiles  == "again" :> <<Src("again")>> @@ "bad" :> <<>> @@
            "out" :> <<Op("break")>> @@ "fine" :> <<Def("g", T), Try([op |-> "lit", v |-> ErrorVal])>>
MCConfig == << <<P("bind", "env"), Assigned("nothing", T)>>, <<Def("history", T), Src("fine")>> >>

MCPrograms ==
  <<"w">> :> <<While(T, <<T>>)>> @@
  <<"r">> :> <<Def("f", Fn(0, <<InNS(<<Do("f")>>)>>)), Try(Do("f"))>> @@
  <<"k">> :> <<Def("f", Fn(1, <<If(V("row"), <<Op("break")>>, <<>>)>>)), Def("row", T),
               While(Do1("f", T), <<>>), Def("n", F),
               While(T, <<If(V("n"), <<InNS(<<P("bind", "x"), Op("break")>>)>>, <<>>), Assigned("n", T), Op("continue")>>),
               [op |-> "each", es |-> <<V("f")>>, rows |-> 2]>> @@
  <<"o">> :> <<Def("f", Fn(1, <<T>>)), [op |-> "each", es |-> <<V("f")>>, rows |-> 2],
               While(Do("f"), <<T>>)>> @@
  <<"s">> :> <<Src("none"), Src("bad"), Try(Src("fine")), T>> @@
  <<"S">> :> <<If(F, <<T>>, <<Def("g", F), Assigned("g", T)>>), Src("again")>> @@
  <<"t">> :> <<While(T, <<Src("out")>>)>> @@
  <<"u">> :> <<While(T, <<On("host", <<Op("break")>>)>>)>> @@
  <<"c">> :> <<Op("source_config"), Op("reset_config")>> @@
  <<"h">> :> <<P("unbind", "env"), P("unbind", "none")>> @@
  <<"y">> :> <<Of("unset", "g"), [op |-> "cd", dir |-> "there"], On("none", <<T>>)>> @@
  <<"z">> :> <<On("host", <<[op |-> "list", es |-> <<T, F>>], Bg(T)>>)>> @@
  <<"v">> :> <<Screen>> @@
  <<"V">> :> <<Op("attach"), Screen, NoScreen>> @@
  <<"q">> :> <<Bg(InNS(<<Screen, Op("attach"), Bg(T)>>))>> @@
  <<"x">> :> <<Or(And(Cmd({"ok", "fail"}), T), Cmd({"nostart"})), Try(Cmd({"ok", "nostart"})), Cmd({})>> @@
  <<"j">> :> <<P("unbind", "jobs"), Try(Bg(Cmd({"ok"})))>> @@
  <<"b">> :> <<Def("j", Bg(While(T, <<T>>))), Of("kill", "j"), Of("wait", "j"), Of("kill", "j")>> @@
  <<"p">> :> <<Def("f", Fn(0, <<Screen, Op("attach")>>)), Bg(Do("f"))>> @@
  <<"B">> :> <<Bg(P("unbind", "host")), Op("reset_config")>> @@
  <<"d">> :> <<Def("j", Bg(Op("source_config"))), Of("wait", "j")>> @@
  <<"e">> :> <<Def("j", Bg(Op("reset_config"))), Of("wait", "i")>> @@
  <<"i">> :> <<Of("kill", "i")>> @@
  <<"m">> :> <<Def("f", Fn(0, <<InNS(<<Cmd({"ok"})>>)>>)), Bg(Do("f")), Do("f")>> @@
  <<"a">> :> <<Def("f", Fn(0, <<While(T, <<T>>)>>)), Def("j", Bg(Do("f"))), Of("kill", "j")>> @@
  <<"D">> :> <<[op |-> "hdel", i |-> 0]>> @@
  <<"g">> :> <<Bg([op |-> "hclear"])>> @@
  <<"C">> :> <<[op |-> "hclear"]>> @@
  <<"n">> :> <<Bg(Fn(0, <<T>>)), Bg(T)>> @@
  <<"(", "nl", ")">> :> <<T>>

\* Lines of the history: one of two words, one of two lines.
MCHistory == << <<"a", "b">>, <<"b">>, <<"a", " ", "b", "nl", "b">> >>

Basic == [tui |-> TRUE, startup |-> FALSE, history |-> <<>>, unique |-> FALSE,
          keys |-> {K("Enter"), K("C-c")}, pastes |-> {}, inputs |-> 3]
Lines(texts) == {<<c>> : c \in texts}

MCScenes ==
  "complete" :> [Basic EXCEPT !.history = MCHistory, !.pastes = {<<"b">>}, !.inputs = 5,
                   !.keys = R({"a", "%", "/"}) \cup {K("Tab"), K("Left"), K("C-r"), K("Esc"), K("wheel")}] @@
  "tabs" :> [Basic EXCEPT !.pastes = {<<"b">>}, !.inputs = 6, !.keys = @ \cup {K("Tab"), K("C-r")}] @@
  "search" :> [Basic EXCEPT !.history = MCHistory, !.unique = TRUE, !.inputs = 4,
                   !.keys = R({"a", "b"}) \cup {K("Up"), K("Down"), K("C-r"), K("Esc"), K("Backspace"), K("Enter")}] @@
  "edit" :> [Basic EXCEPT !.history = MCHistory, !.inputs = 5,
                   !.keys = R({"a"}) \cup {K(k) : k \in {"Up", "Delete", "Backspace", "Left", "Right", "C-Left", "C-Right",
                                "Home", "End", "PgUp", "PgDn", "C-u", "C-k", "C-w", "C-l", "?", "C-d"}}] @@
  "history" :> [Basic EXCEPT !.history = MCHistory, !.inputs = 5,
                   !.keys = R({"D", "C", "g"}) \cup {K("Up"), K("Down"), K("Enter"), K("C-k")}] @@
  "brackets" :> [Basic EXCEPT !.inputs = 5, !.keys = R({"(", ")", " "}) \cup {K("Enter")}] @@
  "stop" :> [Basic EXCEPT !.pastes = Lines({"w", "r", "k", "o", "x", "b", "m"})] @@
  "again" :> [Basic EXCEPT !.pastes = Lines({"w"}), !.inputs = 6] @@
  "screens" :> [Basic EXCEPT !.pastes = Lines({"v", "V", "q", "p"}), !.inputs = 4] @@
  "start" :> [Basic EXCEPT !.startup = TRUE, !.pastes = Lines({"c", "B", "h", "s", "S", "t", "u", "y", "z", "j", "d", "e", "i"}), !.inputs = 2] @@
  "lines" :> [Basic EXCEPT !.tui = FALSE, !.startup = TRUE, !.keys = {K("C-c"), K("C-d")}, !.inputs = 3,
                   !.pastes = Lines({"w", "x", "v", "V", "a", "n", "(", ")", " "})]
=============================================================================
