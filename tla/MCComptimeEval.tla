--------------------------- MODULE MCComptimeEval ---------------------------
EXTENDS ComptimeEval

Value(v) == [op |-> "value", value |-> v]
Name(n) == [op |-> "name", name |-> n]
Field(of, k) == [op |-> "field", of |-> of, key |-> Value(Str(k))]
Index(of, key) == [op |-> "index", of |-> of, key |-> key]
Literal(keys, items) == [op |-> "table", keys |-> keys, items |-> items]
List(items) == Literal([i \in DOMAIN items |-> [t |-> "none"]], items)
Empty == List(<<>>)
One == Value(Num(1))

MCLocals == {"x", "y"}
MCLoopNames == <<"y", "x">>

\* Tables that hold one, one of them frozen.
Nested ==
  {Literal(<<Str("a")>>, <<Empty>>), [op |-> "freeze", of |-> Literal(<<Str("a")>>, <<List(<<One>>)>>)]}

\* ~ stands for a character of several bytes, ^ for a control character.
MCWide == {"~"}
MCControl == {"^"}

MCArguments == Nested \union {List(<<One>>), Value(Str("~^")), Value(Huge)}

\* K = a table, in a scope within that of a constant y.
MCCaptures == {<<[n \in {"y"} |-> One], [n \in {"K"} |-> e]>> : e \in Nested}

Two(op, of, key) == [op |-> op, of |-> of, key |-> key]
X == Name("x")
Length1 == [op |-> "len", of |-> Name("K")]

\* #x % y, x .. y, len(K) - 3, x, has(x, "a") and x.a, x[1] or not (len(K) < 1), {}, {a = x},
\* {a = 1, a = x}, freeze(x), x == K
MCExpressions ==
  {Two("mod", [op |-> "length", of |-> X], Name("y")), Two("concat", X, Name("y")),
   Two("add", Length1, Value(Num(-3))), X,
   Two("and", Two("has", X, Value(Str("a"))), Field(X, "a")),
   Two("or", Index(X, One), [op |-> "not", of |-> Two("less", Length1, One)]),
   Empty, Literal(<<Str("a")>>, <<X>>),
   Literal(<<Str("a"), Str("a")>>, <<One, X>>),
   [op |-> "freeze", of |-> X], Two("equal", X, Name("K"))}

By(by, key) == [by |-> by, key |-> key]
Plain(n) == [name |-> n, path |-> <<>>]
At(n, path) == [name |-> n, path |-> path]
A == By("field", Value(Str("a")))

MCTargets ==
  {Plain("x"), At("x", <<A>>), At("x", <<A, A>>), At("x", <<By("index", One)>>),
   At("K", <<A>>), At("x", <<By("index", Name("y"))>>)}

MCPairs ==
  {[first |-> Plain("y"), second |-> At("x", <<By("index", Name("y"))>>), e1 |-> One, e2 |-> Name("y")],
   [first |-> Plain("y"), second |-> Plain("x"), e1 |-> Name("x"), e2 |-> Name("y")],
   [first |-> At("x", <<A>>), second |-> Plain("y"), e1 |-> Name("y"), e2 |-> Name("x")]}

None == [op |-> "none"]
Entry(key, name, default) == [key |-> key, name |-> name, default |-> default]
MCPatterns ==
  {[of |-> "array", rest |-> "y", entries |-> <<Entry(Num(1), "x", None)>>],
   [of |-> "table", rest |-> "", entries |-> <<Entry(Str("a"), "x", None), Entry(Str("b"), "y", Name("x"))>>]}
=============================================================================
