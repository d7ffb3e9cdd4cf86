---------------------------- MODULE ComptimeEval ----------------------------
(* What compile-time code computes (src/comptime/eval.rs, value.rs and the  *)
(* table builtins) beside Luau on the same expressions: the parameters of   *)
(* ComptimeWalk.  The evaluator's tables are values, copied whenever they   *)
(* are read; they are lists, of items or of entries.  Luau's tables are     *)
(* maps with an identity, shared by all who hold them.  A Luau value is a   *)
(* tree here in which a shared table stands in several places: that is      *)
(* faithful until a shared table changes, and there the walk ends, as it    *)
(* does in the other known ways in which the two part (Departs).            *)
EXTENDS Integers, ComptimeWalk, Functions

CONSTANTS
  Wide,   \* characters of several bytes
  Control \* characters that JSON writes as \u and four digits

-----------------------------------------------------------------------------
(* Values.  CtValue: arrays and tables without identity.  Luau: "map".      *)

Str(s) == [t |-> "str", s |-> s]

\* The numbers that are not finite: 1/0, and what has no value, as 0/0.
Huge == [t |-> "huge"]
NaN == [t |-> "nan"]

IsNumber(v) == v.t \in {"num", "huge", "nan"}
Sum(v, w) == IF NaN \in {v, w} THEN NaN ELSE IF Huge \in {v, w} THEN Huge ELSE Num(v.n + w.n)
Below(v, w) == NaN \notin {v, w} /\ v # Huge /\ (w = Huge \/ v.n < w.n)

\* Does a string have one of these characters?
Holds(s, characters) == \E i \in 1..Len(s) : SubSeq(s, i, i) \in characters

Array(items, frozen) == [t |-> "array", items |-> items, frozen |-> frozen]
Table(entries, frozen) == [t |-> "table", entries |-> entries, frozen |-> frozen]
EmptyTable == Table(<<>>, FALSE)

Map(id, map) == [t |-> "map", id |-> id, map |-> map, frozen |-> FALSE]

\* Where the evaluator is known not to be Luau, Luau's value Departs:
\*   "shared"    a table held in two places changes: here only one of them
\*   "hole"      nil is stored: here it stays an entry, and is counted
\*   "duplicate" a literal repeats a key: here the first is read, not the last
\*   "identity"  equal tables are compared: equal here, two tables in Luau
\*   "missing"   an assignment through a missing field makes it here
\*   "targets"   a target reads what an earlier target of its statement got
\*   "remainder" % of numbers of different signs: truncated here, floored in
\*               Luau; % by 1/0: the dividend here, NaN in Luau
\*   "concat"    .. takes nil and booleans here, and writes NaN as Rust does
\*   "length"    # counts characters here, and the entries of any table; in
\*               Luau it counts bytes, and the items of a list

-----------------------------------------------------------------------------
(* The evaluator.                                                           *)

Positions(entries, key) == {i \in 1..Len(entries) : entries[i].key = key}

\* The first entry of a key, or `default`.
TableGet(entries, key, default) ==
  IF Positions(entries, key) = {} THEN default ELSE entries[Min(Positions(entries, key))].value

\* Mutant: an entry is added, whether there is one of the key or not.
TableAppend(entries, key, value) == Append(entries, [key |-> key, value |-> value])

TableInsert(entries, key, value) ==
  IF Positions(entries, key) = {}
  THEN TableAppend(entries, key, value)
  ELSE [entries EXCEPT ![Min(Positions(entries, key))].value = value]

WithFrozen(v) == IF v.t \in {"array", "table"} THEN [v EXCEPT !.frozen = TRUE] ELSE Error

\* as_array_index.
IsIndex(key) == key.t = "num" /\ key.n >= 1

\* `v.name` of a table that lacks it is an error, `v[index]` is nil.
IndexValue(v, by, key) ==
  CASE v.t = "table" /\ key.t = "str" ->
         TableGet(v.entries, key, IF by = "field" THEN Error ELSE Nil)
    [] v.t = "array" /\ by = "index" /\ IsIndex(key) ->
         IF key.n \in DOMAIN v.items THEN v.items[key.n] ELSE Nil
    [] OTHER -> Error

\* # and the builtin len: the characters of a string, the entries of a table.
Length(v) ==
  CASE v.t = "str" -> Num(Len(v.s))
    [] v.t = "array" -> Num(Len(v.items))
    [] v.t = "table" -> Num(Len(v.entries))
    [] OTHER -> Error

Has(v, key) ==
  CASE v.t = "array" /\ IsIndex(key) -> Bool(key.n \in DOMAIN v.items)
    [] v.t = "table" /\ key.t = "str" -> Bool(Positions(v.entries, key) # {})
    [] OTHER -> Error

LiteralValue(keys, values) ==
  CASE keys = <<>> -> EmptyTable
    [] \E i \in DOMAIN values : values[i] = Error -> Error
    [] \A i \in DOMAIN keys : keys[i].t = "none" -> Array(values, FALSE)
    [] \A i \in DOMAIN keys : keys[i].t = "str" ->
         Table([i \in DOMAIN keys |-> [key |-> keys[i], value |-> values[i]]], FALSE)
    [] OTHER -> Error

\* == goes through tables.  Frozen or not is not compared.
RECURSIVE Equal(_, _)
Equal(v, w) ==
  CASE v.t = "array" /\ w.t = "array" ->
         DOMAIN v.items = DOMAIN w.items /\ \A i \in DOMAIN v.items : Equal(v.items[i], w.items[i])
    [] v.t = "table" /\ w.t = "table" ->
         /\ DOMAIN v.entries = DOMAIN w.entries
         /\ \A i \in DOMAIN v.entries :
              /\ v.entries[i].key = w.entries[i].key
              /\ Equal(v.entries[i].value, w.entries[i].value)
    [] OTHER -> v = w /\ v # NaN

Abs(n) == IF n < 0 THEN -n ELSE n

\* % of Rust: the remainder has the sign of the dividend.
Remainder(v, w) ==
  CASE NaN \in {v, w} \/ v = Huge \/ w = Num(0) -> NaN
    [] v.t = "num" /\ w = Huge -> v
    [] v.t = "num" /\ w.t = "num" /\ w.n # 0 ->
         LET rest == Abs(v.n) % Abs(w.n) IN Num(IF v.n < 0 THEN -rest ELSE rest)

\* expect_stringish: what .. takes, and how it writes it.
HasText(v) == v.t \in {"str", "nil", "bool"} \/ IsNumber(v)
Text(v) ==
  CASE v.t = "str" -> v.s
    [] v.t = "num" -> ToString(v.n)
    [] v = Huge -> "inf"
    [] v = NaN -> "NaN"
    [] v.t = "bool" -> IF v.b THEN "true" ELSE "false"
    [] v = Nil -> "nil"

\* The operators that evaluate both operands.  + stands for -, *, / and ^ too,
\* which are those of doubles in both worlds, and < for the comparisons of
\* numbers; those of strings are left out.
Binary(op, v, w) ==
  CASE Error \in {v, w} -> Error
    [] Error \notin {v, w} /\ op = "equal" -> Bool(Equal(v, w))
    [] IsNumber(v) /\ IsNumber(w) /\ op = "add" -> Sum(v, w)
    [] IsNumber(v) /\ IsNumber(w) /\ op = "mod" -> Remainder(v, w)
    [] IsNumber(v) /\ IsNumber(w) /\ op = "less" -> Bool(Below(v, w))
    [] HasText(v) /\ HasText(w) /\ op = "concat" -> Str(Text(v) \o Text(w))
    [] OTHER -> Error

RECURSIVE Eval(_, _)
Eval(env, e) ==
  CASE e.op = "value" -> e.value
    [] e.op = "name" -> LookupName(env, e.name)
    [] e.op \in {"field", "index"} -> IndexValue(Eval(env, e.of), e.op, Eval(env, e.key))
    [] e.op = "table" -> LiteralValue(e.keys, [i \in DOMAIN e.items |-> Eval(env, e.items[i])])
    [] e.op = "freeze" -> WithFrozen(Eval(env, e.of))
    [] e.op \in {"length", "len"} -> Length(Eval(env, e.of))
    [] e.op = "has" -> Has(Eval(env, e.of), Eval(env, e.key))
    [] e.op = "not" ->
         LET v == Eval(env, e.of) IN IF v = Error THEN Error ELSE Bool(~Truthy(v))
    [] e.op = "and" ->
         LET v == Eval(env, e.of) IN IF v # Error /\ Truthy(v) THEN Eval(env, e.key) ELSE v
    [] e.op = "or" ->
         LET v == Eval(env, e.of) IN IF v # Error /\ ~Truthy(v) THEN Eval(env, e.key) ELSE v
    [] e.op \in {"equal", "add", "mod", "less", "concat"} ->
         Binary(e.op, Eval(env, e.of), Eval(env, e.key))

\* An array is filled up with nil to the index that is assigned.
Filled(items, n) == items \o [i \in 1..(IF n > Len(items) THEN n - Len(items) ELSE 0) |-> Nil]

MayChange(target) == ~target.frozen

\* A missing entry on the way is made, as an empty table.
RECURSIVE SetPathValue(_, _, _)
SetPathValue(target, path, value) ==
  IF path = <<>> THEN value
  ELSE CASE target.t = "table" /\ path[1].key.t = "str" /\ MayChange(target) ->
              LET key == path[1].key
                  new == SetPathValue(TableGet(target.entries, key, EmptyTable), Tail(path), value)
              IN IF new = Error THEN Error
                 ELSE [target EXCEPT !.entries = TableInsert(@, key, new)]
         [] target.t = "array" /\ path[1].by = "index" /\ IsIndex(path[1].key) /\ MayChange(target) ->
              LET n == path[1].key.n
                  items == Filled(target.items, n)
                  new == SetPathValue(items[n], Tail(path), value)
              IN IF new = Error THEN Error ELSE [target EXCEPT !.items = [items EXCEPT ![n] = new]]
         [] OTHER -> Error

NotBound == [ok |-> FALSE, values |-> <<>>]

\* A pattern's entries, one after the other; a default sees those before it.
BindEntry(env, bound, entry, v) ==
  LET got == IndexValue(v, "index", entry.key)
      sees == DefineValues(env, bound.values, FALSE)
      value == IF got = Nil /\ entry.default.op # "none" THEN Eval(sees, entry.default) ELSE got
  IN IF ~bound.ok \/ value = Error
     THEN NotBound
     ELSE [ok |-> TRUE, values |-> Updated(bound.values, Single(entry.name, value))]

Remaining(v, entries) ==
  IF v.t = "array"
  THEN Array(SubSeq(v.items, Len(entries) + 1, Len(v.items)), FALSE)
  ELSE Table(SelectSeq(v.entries, LAMBDA e : \A i \in DOMAIN entries : entries[i].key # e.key), FALSE)

\* Array patterns take arrays only, table patterns tables: `{}` is a table.
BindPattern(env, pattern, v) ==
  LET bound == FoldLeft(LAMBDA b, entry : BindEntry(env, b, entry, v), [ok |-> TRUE, values |-> <<>>],
                        pattern.entries)
  IN IF v.t # pattern.of \/ ~bound.ok THEN NotBound
     ELSE [ok |-> TRUE,
           values |-> IF pattern.rest = "" THEN bound.values
                      ELSE Updated(bound.values, Single(pattern.rest, Remaining(v, pattern.entries)))]

\* A string is written as JSON writes it.  Luau knows JSON's escapes but for \u,
\* which it wants with braces: there the emitted code does not parse.
JsonString(v) == [op |-> IF Holds(v.s, Control) THEN "unparsed" ELSE "value", value |-> v]

\* CtValue::to_expr.  Numbers are written as Rust displays them: those that are
\* not finite by a name, which in Luau is that of a global.
RECURSIVE ToExpr(_)
ToExprPlain(v) ==
  CASE v.t = "array" ->
         [op |-> "table", keys |-> [i \in DOMAIN v.items |-> [t |-> "none"]],
          items |-> [i \in DOMAIN v.items |-> ToExpr(v.items[i])]]
    [] v.t = "table" ->
         [op |-> IF \E i \in DOMAIN v.entries : JsonString(v.entries[i].key).op = "unparsed"
                 THEN "unparsed" ELSE "table",
          keys |-> [i \in DOMAIN v.entries |-> v.entries[i].key],
          items |-> [i \in DOMAIN v.entries |-> ToExpr(v.entries[i].value)]]
    [] v.t = "str" -> JsonString(v)
    [] v = Huge -> [op |-> "name", name |-> "inf"]
    [] v = NaN -> [op |-> "name", name |-> "NaN"]
    [] OTHER -> [op |-> "value", value |-> v]

Freezes(v) == v.t \in {"array", "table"} /\ v.frozen

ToExpr(v) == IF Freezes(v) THEN [op |-> "freeze", of |-> ToExprPlain(v)] ELSE ToExprPlain(v)

-----------------------------------------------------------------------------
(* Luau.                                                                    *)

\* The places of the tables in a value: the keys that lead there, and the
\* table's identity.
RECURSIVE Places(_)
Places(l) ==
  IF l.t # "map" THEN {}
  ELSE {<<<<>>, l.id>>}
       \union UNION {{<<<<k>> \o p[1], p[2]>> : p \in Places(l.map[k])} : k \in DOMAIN l.map}

\* The places of the tables in all locals and in the tables loops go over.
LivePlaces(fs) ==
  UNION {UNION {UNION {{<<i, j, n>> \o p : p \in Places(fs[i].locals[j][n])} :
                       n \in DOMAIN fs[i].locals[j]} :
                j \in DOMAIN fs[i].locals} : i \in DOMAIN fs}
  \union UNION {UNION {{<<i, j, "over">> \o p : p \in Places(fs[i].open[j].over)} :
                       j \in DOMAIN fs[i].open} : i \in DOMAIN fs}

HeldIn(fs, id) == Cardinality({p \in LivePlaces(fs) : p[Len(p)] = id})

Within(l, id) == \E p \in Places(l) : p[2] = id

LuauName(locals, name) ==
  LET i == LuauScope(locals, name) IN IF i = 0 THEN Nil ELSE locals[i][name]

\* A table constructor: the last of equal keys counts, nil is no entry.
Constructed(keys, values, id) ==
  LET key(i) == IF keys[i].t = "none" THEN Num(i) ELSE keys[i]
      stopped == {i \in DOMAIN values : Stops(values[i])}
  IN CASE stopped # {} -> values[Min(stopped)]
       [] \E i \in DOMAIN values : values[i] = Nil -> Departs("hole")
       [] \E i, j \in DOMAIN keys : i < j /\ key(i) = key(j) -> Departs("duplicate")
       [] OTHER -> Map(id, [k \in {key(i) : i \in DOMAIN keys} |->
                              values[CHOOSE i \in DOMAIN keys : key(i) = k]])

\* table.freeze: in place, which only a table made by the same expression
\* (its identity begins with id) hides.
Frozen(l, id) ==
  CASE Stops(l) -> l
    [] l.t # "map" -> Raised
    [] l.frozen \/ IsPrefix(id, l.id) -> [l EXCEPT !.frozen = TRUE]
    [] OTHER -> Departs("shared")

RECURSIVE HoldsNaN(_)
HoldsNaN(l) == IF l.t = "map" THEN \E k \in DOMAIN l.map : HoldsNaN(l.map[k]) ELSE l = NaN

LuauEqual(of, key) ==
  IF of.t = "map" /\ key.t = "map" /\ (of.id # key.id \/ HoldsNaN(of))
  THEN Departs("identity")
  ELSE Bool(of = key /\ of # NaN)

\* a - floor(a / b) * b, for numbers of one sign.
LuauModulo(of, key) ==
  CASE NaN \in {of, key} \/ of = Huge \/ key = Num(0) -> NaN
    [] of.t = "num" /\ (key = Huge \/ (key.n # 0 /\ of.n * key.n < 0)) -> Departs("remainder")
    [] OTHER -> Num(of.n - (Abs(of.n) \div Abs(key.n)) * key.n)

LuauConcat(of, key) ==
  CASE "map" \in {of.t, key.t} -> Raised
    [] {of.t, key.t} \subseteq {"str", "num", "huge"} -> Str(Text(of) \o Text(key))
    [] OTHER -> Departs("concat")

LuauLength(of) ==
  CASE of.t = "str" -> IF Holds(of.s, Wide) THEN Departs("length") ELSE Num(Len(of.s))
    [] of.t = "map" ->
         IF \E k \in DOMAIN of.map : k.t = "str" THEN Departs("length") ELSE Num(Cardinality(DOMAIN of.map))
    [] OTHER -> Raised

\* The builtins len and has, which Luau does not have, are what they count.
LenOf(of) ==
  CASE of.t = "str" -> Num(Len(of.s)) [] of.t = "map" -> Num(Cardinality(DOMAIN of.map)) [] OTHER -> Raised

BothValues(op, of, key) ==
  IF Stops(of) THEN of
  ELSE IF Stops(key) THEN key
  ELSE CASE op = "has" -> IF of.t = "map" THEN Bool(key \in DOMAIN of.map) ELSE Raised
         [] op = "equal" -> LuauEqual(of, key)
         [] op \in {"field", "index"} -> Read(of, key)
         [] op = "concat" -> LuauConcat(of, key)
         [] op \in {"add", "mod", "less"} ->
              IF ~IsNumber(of) \/ ~IsNumber(key) THEN Raised
              ELSE CASE op = "add" -> Sum(of, key)
                     [] op = "mod" -> LuauModulo(of, key)
                     [] op = "less" -> Bool(Below(of, key))

\* `id` tells tables made by one expression from those of any other.
RECURSIVE LuauValue(_, _, _)
LuauValue(locals, e, id) ==
  LET of == LuauValue(locals, e.of, Append(id, 0))
      key == LuauValue(locals, e.key, Append(id, 1))
  IN CASE e.op = "value" -> e.value
       [] e.op = "name" -> LuauName(locals, e.name)
       [] e.op = "table" ->
            Constructed(e.keys, [i \in DOMAIN e.items |-> LuauValue(locals, e.items[i], Append(id, i))], id)
       [] e.op = "freeze" -> Frozen(of, id)
       [] e.op = "not" -> IF Stops(of) THEN of ELSE Bool(~Truthy(of))
       [] e.op = "and" -> IF ~Stops(of) /\ Truthy(of) THEN key ELSE of
       [] e.op = "or" -> IF ~Stops(of) /\ ~Truthy(of) THEN key ELSE of
       [] e.op = "unparsed" -> Raised
       [] e.op = "length" -> IF Stops(of) THEN of ELSE LuauLength(of)
       [] e.op = "len" -> IF Stops(of) THEN of ELSE LenOf(of)
       [] e.op \in {"field", "index", "has", "equal", "add", "mod", "less", "concat"} -> BothValues(e.op, of, key)

\* The table at the end of a path, or why there is none.
RECURSIVE TableAt(_, _)
TableAt(l, path) ==
  CASE l.t # "map" -> Raised
    [] path = <<>> -> l
    [] path # <<>> /\ path[1] \notin DOMAIN l.map -> Departs("missing")
    [] OTHER -> TableAt(l.map[path[1]], Tail(path))

RECURSIVE SetIn(_, _, _)
SetIn(l, path, value) ==
  IF path = <<>> THEN value
  ELSE [l EXCEPT !.map = (path[1] :> IF Len(path) = 1 THEN value
                                     ELSE SetIn(l.map[path[1]], Tail(path), value)) @@ @]

\* l with `value` stored along a path, while `pending` waits to be stored.
Stored(fs, l, path, value, pending) ==
  IF path = <<>> THEN value
  ELSE LET at == TableAt(l, Front(path))
           key == Last(path)
       IN CASE Stops(at) -> at
            [] at.frozen -> Raised
            [] value = Nil \/ (key.t = "num" /\ \E n \in 1..(key.n - 1) : Num(n) \notin DOMAIN at.map) ->
                 Departs("hole")
            [] HeldIn(fs, at.id) > 1 \/ \E p \in {value} \union pending : Within(p, at.id) -> Departs("shared")
            [] OTHER -> SetIn(l, path, value)

LuauBound(locals, pattern, l, id) ==
  LET taken == {pattern.entries[i].key : i \in DOMAIN pattern.entries}
      n == Len(pattern.entries)
      one(bound, entry) ==
        LET got == Read(l, entry.key)
        IN Updated(bound, Single(entry.name,
                                 IF got = Nil /\ entry.default.op # "none"
                                 THEN LuauValue(Declared(locals, bound), entry.default, id) ELSE got))
      rest == IF pattern.of = "array"
              THEN [k \in {Num(i) : i \in 1..Cardinality({k \in DOMAIN l.map : k.n > n})} |->
                      l.map[Num(k.n + n)]]
              ELSE Restrict(l.map, DOMAIN l.map \ taken)
      all == FoldLeft(one, <<>>, pattern.entries)
  IN IF pattern.rest = "" THEN all ELSE Updated(all, Single(pattern.rest, Map(id, rest)))

-----------------------------------------------------------------------------
(* Properties.                                                              *)

\* A value of the evaluator and a Luau value that nobody can tell apart,
\* short of identity.
RECURSIVE Same(_, _)
Same(v, l) ==
  CASE v.t = "array" ->
         /\ l.t = "map" /\ l.frozen = v.frozen
         /\ DOMAIN l.map = {Num(i) : i \in DOMAIN v.items}
         /\ \A i \in DOMAIN v.items : Same(v.items[i], l.map[Num(i)])
    [] v.t = "table" ->
         /\ l.t = "map" /\ l.frozen = v.frozen
         /\ DOMAIN l.map = {v.entries[i].key : i \in DOMAIN v.entries}
         /\ Cardinality(DOMAIN l.map) = Len(v.entries)
         /\ \A i \in DOMAIN v.entries : Same(v.entries[i].value, l.map[v.entries[i].key])
    [] OTHER -> v = l

(* The evaluator computes what Luau computes: whatever statements were      *)
(* executed, each local holds the same in both, in every call and every     *)
(* scope, and loops have the same items left; and what it accepts is code   *)
(* that Luau runs: no frozen table changes, nothing is read or written      *)
(* through what is no table (exec_stmt, set_path_value and bind_pattern     *)
(* against Luau, up to the first departure of those above).                 *)
LikeLuau ==
  /\ ended # "raised"
  /\ \A i \in DOMAIN frames :
       LET f == frames[i] IN
       /\ \A j \in DOMAIN f.env :
            /\ DOMAIN f.env[j].values = DOMAIN f.locals[j]
            /\ \A n \in DOMAIN f.locals[j] : Same(f.env[j].values[n], f.locals[j][n])
       /\ \A j \in DOMAIN f.open :
            LET loop == f.open[j] IN
            \A m \in DOMAIN loop.left : \A c \in 1..Len(loop.names) : Same(loop.left[m][c], loop.lefts[m][c])

\* Values that to_expr writes as Luau reads them: no number in them is infinite
\* or NaN, no string or key has a control character.
RECURSIVE Written(_)
Written(v) ==
  CASE v.t = "array" -> \A i \in DOMAIN v.items : Written(v.items[i])
    [] v.t = "table" -> \A i \in DOMAIN v.entries : Written(v.entries[i].key) /\ Written(v.entries[i].value)
    [] v.t = "str" -> ~Holds(v.s, Control)
    [] OTHER -> v \notin {Huge, NaN}


=============================================================================
