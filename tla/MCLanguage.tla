------------------------------ MODULE MCLanguage ------------------------------
EXTENDS Language

MCIdents == {"x", "name", "size", "pty", "ro", "before", "after", "replace"}
MCLeaves == {Ident("x"), PathLit(<<"/", "x">>), BreakExpr}
MCBeside == {Ident("x")}
MCStyles == {[full |-> FALSE, lines |-> FALSE], [full |-> FALSE, lines |-> TRUE], [full |-> TRUE, lines |-> FALSE]}
MCElements == {IntV(4), IntV(5), FloatV(4), StrV(1), Null, ErrorV, ListV(<<IntV(4)>>)}

\* The quotient and the remainder of integers of any sign fit together, as evalArith (src/kyu/eval/
\* eval.go:644) has them from Go; the most negative one divided by -1 is itself.
ASSUME Division ==
  \A m \in (-MaxInt - 1)..MaxInt, n \in ((-MaxInt - 1)..MaxInt) \ {0} :
    LET q == Arith("/", IntV(m), IntV(n)).int
        r == Arith("%", IntV(m), IntV(n)).int
    IN /\ Wrap(q * n + r) = m /\ Magnitude(r) < Magnitude(n)
       /\ r = 0 \/ (r < 0) = (m < 0)
================================================================================
