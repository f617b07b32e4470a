------------------------------- MODULE Filters -------------------------------
(***************************************************************************)
(* pkg/filters: a CEL expression becomes a tree of filters (parse.go,      *)
(* comprehension.go), for a query that selects rows with it.               *)
(*                                                                         *)
(* An expression is what cel-go's checker returns: calls, identifiers,     *)
(* selections, constants, and comprehensions, into which it expands        *)
(* exists, all, exists_one, filter and map.  A column is the path of names *)
(* that ExtractIdentifier joins with dots; values are numbers, and 0 is    *)
(* the value of a column that is null.                                     *)
(***************************************************************************)
EXTENDS Naturals, Sequences, FiniteSets

Ident(n) == [kind |-> "ident", name |-> n]
Field(e, f) == [kind |-> "select", operand |-> e, field |-> f]
Const(v) == [kind |-> "const", type |-> "int", value |-> v]
NullConst == [kind |-> "const", type |-> "null", value |-> 0]
CelCall(fn, args) == [kind |-> "call", fn |-> fn, args |-> args]
Accu == Ident("@result")

\* cel-go's macros, by the step of their loop.  macro and pred are kept for Holds.
Comprehension(macro, x, range, pred) ==
  [kind |-> "comprehension", var |-> x, range |-> range, macro |-> macro, pred |-> pred,
   step |-> CASE macro = "exists" -> CelCall("_||_", <<Accu, pred>>)
              [] macro = "all" -> CelCall("_&&_", <<Accu, pred>>)
              [] macro = "filter" ->
                   CelCall("_?_:_", <<pred, CelCall("_+_", <<Accu, Ident(x)>>), Accu>>)
              [] macro = "exists_one" ->
                   CelCall("_?_:_", <<pred, CelCall("_+_", <<Accu, Const(1)>>), Accu>>)
              [] macro = "map" -> CelCall("_+_", <<Accu, [kind |-> "list", of |-> pred]>>)]

-----------------------------------------------------------------------------
(* parse.go                                                                *)

Failed == [kind |-> "error"]

Logical == {"_&&_", "_||_"}
Comparing == {"_==_", "_!=_", "_>_", "_>=_", "_<_", "_<=_", "like"}
NullTests == {"isnull", "notnull"}

RECURSIVE extractIdentifier(_, _)
extractIdentifier(e, aliasToParent) ==
  CASE e.kind = "select" -> Append(extractIdentifier(e.operand, aliasToParent), e.field)
    [] e.kind = "ident" -> IF e.name \in DOMAIN aliasToParent THEN aliasToParent[e.name] ELSE <<e.name>>
    [] OTHER -> <<>>

NoAlias == [x \in {} |-> <<>>]

\* extractConstant knows strings, integers, doubles and booleans, not null.
IsConstant(e) == e.kind = "const" /\ e.type # "null"

\* A table that takes >= for >.
mapCELComparison_Strict(fn) ==
  CASE fn = "_==_" -> "Equal"       [] fn = "_!=_" -> "NotEqual"
    [] fn = "_>_" -> "GreaterThan"  [] fn = "_>=_" -> "GreaterThan"
    [] fn = "_<_" -> "LessThan"     [] fn = "_<=_" -> "LessThanOrEqual"
    [] fn = "like" -> "Like"        [] fn = "isnull" -> "IsNull"
    [] fn = "notnull" -> "NotNull"

mapCELComparison(fn) ==
  CASE fn = "_==_" -> "Equal"       [] fn = "_!=_" -> "NotEqual"
    [] fn = "_>_" -> "GreaterThan"  [] fn = "_>=_" -> "GreaterThanOrEqual"
    [] fn = "_<_" -> "LessThan"     [] fn = "_<=_" -> "LessThanOrEqual"
    [] fn = "like" -> "Like"        [] fn = "isnull" -> "IsNull"
    [] fn = "notnull" -> "NotNull"

Filter(column, value, comparison) ==
  [kind |-> "filter", column |-> column, value |-> value, comparison |-> comparison]

parseComparisonExpr(call) ==
  IF Len(call.args) # 2 \/ ~IsConstant(call.args[2]) THEN Failed
  ELSE Filter(extractIdentifier(call.args[1], NoAlias), call.args[2].value, mapCELComparison(call.fn))

parseNullExpr(call) ==
  IF Len(call.args) = 0 THEN Failed
  ELSE Filter(extractIdentifier(call.args[1], NoAlias), 0, mapCELComparison(call.fn))

FilterNode(fn, left, right) ==
  IF Failed \in {left, right} THEN Failed
  ELSE [kind |-> "node", nodes |-> <<left, right>>, connection |-> IF fn = "_&&_" THEN "and" ELSE "or"]

-----------------------------------------------------------------------------
(* comprehension.go                                                        *)

mapCELArrayComparison(fn) ==
  CASE fn = "_==_" -> "Contains" [] fn = "_!=_" -> "NotContains" [] OTHER -> "unsupported"

parseComparisonExprWithAlias(call, alias) ==
  IF Len(call.args) # 2 \/ ~IsConstant(call.args[2]) \/ mapCELArrayComparison(call.fn) = "unsupported"
  THEN Failed
  ELSE Filter(extractIdentifier(call.args[1], alias), call.args[2].value, mapCELArrayComparison(call.fn))

RECURSIVE parseComprehensionExpr(_), parseExprWithAlias(_, _), parseExpr(_)

parseLogicalExprWithAlias(call, alias) ==
  IF Len(call.args) # 2 THEN Failed
  ELSE FilterNode(call.fn, parseExprWithAlias(call.args[1], alias), parseExprWithAlias(call.args[2], alias))

\* A null test is parsed without the alias.
parseCallExprWithAlias(call, alias) ==
  CASE call.fn \in Logical -> parseLogicalExprWithAlias(call, alias)
    [] call.fn \in Comparing -> parseComparisonExprWithAlias(call, alias)
    [] call.fn \in NullTests -> parseNullExpr(call)
    [] OTHER -> Failed

parseExprWithAlias(e, alias) ==
  CASE e.kind = "call" -> parseCallExprWithAlias(e, alias)
    [] e.kind = "comprehension" -> parseComprehensionExpr(e)
    [] OTHER -> Failed

\* The first argument of the loop's step that is a call is taken for the predicate.
parseComprehensionExpr(e) ==
  LET args == e.step.args
      calls == {i \in 1..Len(args) : args[i].kind = "call"}
  IN IF calls = {} THEN Failed
     ELSE parseExprWithAlias(args[CHOOSE i \in calls : \A j \in calls : i <= j],
                             [x \in {e.var} |-> extractIdentifier(e.range, NoAlias)])

-----------------------------------------------------------------------------
parseLogicalExpr(call) ==
  IF Len(call.args) # 2 THEN Failed
  ELSE FilterNode(call.fn, parseExpr(call.args[1]), parseExpr(call.args[2]))

parseCallExpr(call) ==
  CASE call.fn \in Logical -> parseLogicalExpr(call)
    [] call.fn \in Comparing -> parseComparisonExpr(call)
    [] call.fn \in NullTests -> parseNullExpr(call)
    [] OTHER -> Failed

parseExpr(e) ==
  CASE e.kind = "call" -> parseCallExpr(e)
    [] e.kind = "comprehension" -> parseComprehensionExpr(e)
    [] OTHER -> Failed

\* ParseFilters, for a query that is empty, does not compile, or is an expression.
ParseFilters(query) == IF query.kind \in {"empty", "illtyped"} THEN Failed ELSE parseExpr(query)

-----------------------------------------------------------------------------
(* What an expression and what a tree of filters selects                   *)

Rows == [a : 0..2, m : [b : {2}], tags : SUBSET {1, 2}, items : SUBSET [f : {1, 2}, g : {1, 2}]]

\* like compares as equality does here: patterns have no wildcards.
Compares(op, v, c) ==
  CASE op = "IsNull" -> v = 0           [] op = "NotNull" -> v # 0
    [] op \in {"Equal", "Like"} -> v # 0 /\ v = c
    [] op = "NotEqual" -> v # 0 /\ v # c
    [] op = "GreaterThan" -> v > c      [] op = "GreaterThanOrEqual" -> v >= c
    [] op = "LessThan" -> v # 0 /\ v < c [] op = "LessThanOrEqual" -> v # 0 /\ v <= c

RECURSIVE ValueOf(_, _)
ValueOf(e, row) == IF e.kind = "ident" THEN row[e.name] ELSE ValueOf(e.operand, row)[e.field]

\* CEL's own meaning; a row in which the variable of a macro is an element.
RECURSIVE HoldsIn(_, _)
HoldsIn(e, row) ==
  IF e.kind = "comprehension"
  THEN LET range == ValueOf(e.range, row)
           chosen == {x \in range : HoldsIn(e.pred, [n \in DOMAIN row \cup {e.var} |->
                                                       IF n = e.var THEN x ELSE row[n]])}
       IN CASE e.macro \in {"exists", "filter"} -> chosen # {}
            [] e.macro = "all" -> chosen = range
            [] e.macro = "exists_one" -> Cardinality(chosen) = 1
  ELSE CASE e.fn = "_&&_" -> HoldsIn(e.args[1], row) /\ HoldsIn(e.args[2], row)
         [] e.fn = "_||_" -> HoldsIn(e.args[1], row) \/ HoldsIn(e.args[2], row)
         [] e.fn \in NullTests -> (ValueOf(e.args[1], row) = 0) <=> (e.fn = "isnull")
         [] OTHER -> LET v == ValueOf(e.args[1], row)
                         c == e.args[2].value
                     IN v # 0 /\ CASE e.fn \in {"_==_", "like"} -> v = c [] e.fn = "_!=_" -> v # c
                                   [] e.fn = "_>_" -> v > c [] e.fn = "_>=_" -> v >= c
                                   [] e.fn = "_<_" -> v < c [] e.fn = "_<=_" -> v <= c

\* The values that a column of lists has in a row.
Elements(column, row) ==
  IF Len(column) = 1 THEN row[column[1]] ELSE {x[column[2]] : x \in row[column[1]]}

RECURSIVE Selects(_, _)
Selects(filter, row) ==
  CASE filter.kind = "node" /\ filter.connection = "and" -> \A i \in 1..2 : Selects(filter.nodes[i], row)
    [] filter.kind = "node" /\ filter.connection = "or" -> \E i \in 1..2 : Selects(filter.nodes[i], row)
    [] filter.comparison = "Contains" -> filter.value \in Elements(filter.column, row)
    [] filter.comparison = "NotContains" -> filter.value \notin Elements(filter.column, row)
    [] OTHER -> Compares(filter.comparison,
                         IF Len(filter.column) = 1 THEN row[filter.column[1]]
                         ELSE row[filter.column[1]][filter.column[2]], filter.value)

-----------------------------------------------------------------------------
(* The expressions that are tried                                          *)

RECURSIVE IsColumn(_)
IsColumn(e) == e.kind = "ident" \/ (e.kind = "select" /\ IsColumn(e.operand))

\* A combination with connective fn of comparisons cmp of elements.
RECURSIVE Uniform(_, _, _)
Uniform(e, fn, cmp) ==
  /\ e.kind = "call"
  /\ \/ e.fn = cmp /\ IsColumn(e.args[1])
     \/ e.fn = fn /\ \A i \in 1..2 : Uniform(e.args[i], fn, cmp)

\* Expressions whose filters mean something else: a left side that is no column
\* becomes a column without a name; every macro is read as exists, comparison by
\* comparison, with x # v read as "no element is v"; the alias of a null test and of
\* an enclosing macro is lost.
RECURSIVE Approximate(_)
Approximate(e) ==
  \/ e.kind = "call" /\ e.fn \in Logical /\ \E i \in 1..2 : Approximate(e.args[i])
  \/ e.kind = "call" /\ e.fn \in Comparing /\ ~IsColumn(e.args[1])
  \/ e.kind = "comprehension" /\ ~(\/ e.macro \in {"exists", "filter"} /\ Uniform(e.pred, "_||_", "_==_")
                                   \/ e.macro = "all" /\ Uniform(e.pred, "_&&_", "_!=_"))

\* What has to be understood.
RECURSIVE Supported(_)
Supported(e) ==
  CASE e.kind = "call" /\ e.fn \in Logical -> \A i \in 1..2 : Supported(e.args[i])
    [] e.kind = "call" /\ e.fn \in Comparing -> IsColumn(e.args[1]) /\ IsConstant(e.args[2])
    [] e.kind = "call" /\ e.fn \in NullTests -> IsColumn(e.args[1])
    [] e.kind = "comprehension" -> ~Approximate(e)
    [] OTHER -> FALSE

Columns == {Ident("a"), Field(Ident("m"), "b")}
Atoms ==
  {CelCall(fn, <<col, Const(v)>>) : fn \in Comparing, col \in Columns, v \in {1, 2}}
  \cup {CelCall(fn, <<Ident("a")>>) : fn \in NullTests}
  \cup {CelCall("_==_", <<Const(1), Ident("a")>>), CelCall("_==_", <<Ident("a"), NullConst>>),
        CelCall("_==_", <<CelCall("size", <<Ident("tags")>>), Const(1)>>)}
X == Ident("x")
Elementary ==
  {CelCall(fn, <<Field(X, f), Const(v)>>) : fn \in {"_==_", "_!=_", "_>_"}, f \in {"f", "g"}, v \in {1, 2}}
Preds ==
  Elementary \cup {CelCall("isnull", <<Field(X, "f")>>)}
  \cup {CelCall(fn, <<p, q>>) : fn \in Logical, p \in Elementary, q \in Elementary}
Macros ==
  {Comprehension(macro, "x", Ident("items"), p) : macro \in {"exists", "all", "filter", "exists_one", "map"}, p \in Preds}
  \cup {Comprehension("exists", "x", Ident("tags"), CelCall(fn, <<X, Const(1)>>)) : fn \in {"_==_", "_!=_"}}
\* One expression of every kind, to be combined.
Some ==
  {CelCall("_==_", <<Ident("a"), Const(1)>>), CelCall("_>=_", <<Ident("a"), Const(2)>>),
   CelCall("isnull", <<Ident("a")>>), CelCall("!_", <<CelCall("isnull", <<Ident("a")>>)>>),
   Comprehension("exists", "x", Ident("tags"), CelCall("_==_", <<X, Const(1)>>)),
   Comprehension("all", "x", Ident("items"), CelCall("_!=_", <<Field(X, "f"), Const(1)>>)), X, Const(1)}
FilterQueries ==
  Atoms \cup Macros \cup Some \cup {[kind |-> "empty"], [kind |-> "illtyped"]}
  \cup {CelCall(fn, <<p, q>>) : fn \in Logical, p \in Some, q \in Some}
  \cup {CelCall("_&&_", <<p, CelCall("_||_", <<q, r>>)>>) : p \in Some, q \in Some, r \in Some}

\* ParseFilters: a query that is accepted selects the rows for which the expression
\* is true, or is one of the approximate ones; comparisons of columns with constants,
\* null tests and macros with an exact reading are accepted wherever they stand.
FilterExact(query) ==
  LET filter == ParseFilters(query)
  IN /\ Supported(query) => filter # Failed
     /\ filter # Failed /\ ~Approximate(query)
          => \A row \in Rows : Selects(filter, row) <=> HoldsIn(query, row)
=============================================================================
