---------------------------------- MODULE Sql ----------------------------------
(***************************************************************************)
(* The query language on one collection: a statement is a sequence of      *)
(* tokens, parsed by recursive descent, rearranged by the optimizer if it  *)
(* is a SELECT, and run through the storage adapter on the documents in    *)
(* the order of their ids.  Values are numbers.  A SELECT changes nothing: *)
(* it is an operator of the state, and what it answers is looked at in     *)
(* every state.  An UPDATE or a DELETE writes one document after another.  *)
(***************************************************************************)
EXTENDS Integers, Sequences, FiniteSets, FiniteSetsExt, SequencesExt

CONSTANTS
    MaxId,              \* ids are 1 .. MaxId
    Value,              \* of the columns, numbers from 0
    Decimal,            \* whether an UPDATE may be given the text of a decimal number
    OrderAnyColumn      \* whether ORDER BY may name a column that is not selected

VARIABLES
    table,      \* the documents: from their ids to their columns
    writing,    \* the statement that is being applied
    pending,    \* what it has still to write
    reported,   \* the rows it will report
    before      \* the table when it began

vars == <<table, writing, pending, reported, before>>

Id == 1 .. MaxId
Column == {"A", "B"}
Null == -1                  \* the column is null
Undefined == -2             \* the document has no such column
NoStatement == [type |-> "none"]
NoWhere == [type |-> "NoWhere"]
NoLimit == [limit |-> Undefined, offset |-> 0]
All == "*"

-----------------------------------------------------------------------------
(* Trees. *)

Identifier(name) == [type |-> "Identifier", name |-> name]
Literal(value) == [type |-> "Literal", value |-> value]
Aggregate(function, argument) ==
    [type |-> "AggregateFunction", functionName |-> function, argument |-> argument]
Binary(type, operator, left, right) ==
    [type |-> type, operator |-> operator, left |-> left, right |-> right]
Logical(operator, left, right) == Binary("LogicalExpression", operator, left, right)
Comparison(operator, left, right) == Binary("ComparisonExpression", operator, left, right)
Arithmetic(operator, left, right) == Binary("ArithmeticExpression", operator, left, right)
Not(expression) == [type |-> "NotExpression", expression |-> expression]
NullCheck(left, isNegated) ==
    [type |-> "NullCheckExpression", left |-> left, isNegated |-> isNegated]
In(left, values) == [type |-> "InExpression", left |-> left, values |-> values]

-----------------------------------------------------------------------------
(* Parser.  A token is [type, value]; the cursor is the tokens that are     *)
(* left; what a parser returns is <<node, tokens left>>.                    *)

Token(type) == [type |-> type, value |-> type]
currentType(ts) == IF ts = <<>> THEN "EOF" ELSE ts[1].type

parseValueNode(ts) ==
    <<CASE ts[1].type = "NUMBER" -> Literal(ts[1].value)
        [] ts[1].type = "IDENTIFIER" -> Identifier(ts[1].value)
        [] ts[1].type = "NULL" -> Literal(Null),
      Tail(ts)>>

\* What a parser makes of what another has returned.
Closed(p) == <<p[1], Tail(p[2])>>
WithOperand(type, operator, left, right) == <<Binary(type, operator, left, right[1]), right[2]>>
Calculated(operator, left, right) ==
    WithOperand("ArithmeticExpression", operator, left, right)
Joined(operator, left, right) == WithOperand("LogicalExpression", operator, left, right)

RECURSIVE parseAdditive(_), moreAdditive(_), parseMultiplicative(_), moreMultiplicative(_),
          parseValuePrimary(_)

parseAdditive(ts) == moreAdditive(parseMultiplicative(ts))
moreAdditive(p) ==
    IF currentType(p[2]) \in {"+", "-"}
    THEN moreAdditive(Calculated(p[2][1].type, p[1], parseMultiplicative(Tail(p[2]))))
    ELSE p

parseMultiplicative(ts) == moreMultiplicative(parseValuePrimary(ts))
moreMultiplicative(p) ==
    IF currentType(p[2]) = "*"
    THEN moreMultiplicative(Calculated("*", p[1], parseValuePrimary(Tail(p[2]))))
    ELSE p

parseValuePrimary(ts) ==
    IF currentType(ts) = "(" THEN Closed(parseAdditive(Tail(ts))) ELSE parseValueNode(ts)

RECURSIVE parseList(_)
parseList(ts) ==
    IF currentType(ts) = ")" THEN <<<<>>, Tail(ts)>>
    ELSE LET value == parseValueNode(ts)
             rest == parseList(IF currentType(value[2]) = "," THEN Tail(value[2]) ELSE value[2])
         IN  <<<<value[1]>> \o rest[1], rest[2]>>

Listed(left, values) == <<In(left, values[1]), values[2]>>

\* parseComparison, from its left operand on.
comparisonOf(left, rest) ==
    CASE currentType(rest) = "IN" -> Listed(left, parseList(SubSeq(rest, 3, Len(rest))))
      [] currentType(rest) = "IS" /\ rest[2].type = "NOT" ->
             <<NullCheck(left, TRUE), SubSeq(rest, 4, Len(rest))>>
      [] currentType(rest) = "IS" /\ rest[2].type = "NULL" ->
             <<NullCheck(left, FALSE), SubSeq(rest, 3, Len(rest))>>
      [] OTHER -> WithOperand("ComparisonExpression", currentType(rest), left,
                              parseAdditive(Tail(rest)))
moreComparison(p) == comparisonOf(p[1], p[2])
parseComparison(ts) == moreComparison(parseAdditive(ts))

RECURSIVE parseOr(_), moreOr(_), parseAnd(_), moreAnd(_), parseUnary(_)

parseOr(ts) == moreOr(parseAnd(ts))
moreOr(p) ==
    IF currentType(p[2]) = "OR" THEN moreOr(Joined("OR", p[1], parseAnd(Tail(p[2])))) ELSE p

parseAnd(ts) == moreAnd(parseUnary(ts))
moreAnd(p) ==
    IF currentType(p[2]) = "AND" THEN moreAnd(Joined("AND", p[1], parseUnary(Tail(p[2])))) ELSE p

Negated(p) == <<Not(p[1]), p[2]>>

\* Mutant of parseUnary: NOT takes all that follows.
parseUnaryLoose(ts) ==
    CASE currentType(ts) = "NOT" -> Negated(parseOr(Tail(ts)))
      [] currentType(ts) = "(" -> Closed(parseOr(Tail(ts)))
      [] OTHER -> parseComparison(ts)

\* NOT takes the expression that follows it, a parenthesis all up to its end.
parseUnary(ts) ==
    CASE currentType(ts) = "NOT" -> Negated(parseUnary(Tail(ts)))
      [] currentType(ts) = "(" -> Closed(parseOr(Tail(ts)))
      [] OTHER -> parseComparison(ts)

parseWhere(ts) ==
    IF currentType(ts) = "WHERE" THEN parseOr(Tail(ts)) ELSE <<NoWhere, ts>>

parseSelectColumn(ts) ==
    CASE ts[1].type = "*" -> <<Identifier(All), Tail(ts)>>
      [] ts[1].type = "IDENTIFIER" -> <<Identifier(ts[1].value), Tail(ts)>>
      [] OTHER -> <<Aggregate(ts[1].type, ts[3].value), SubSeq(ts, 5, Len(ts))>>

RECURSIVE parseSelectColumns(_), parseOrderItems(_), parseSetClauses(_)

parseSelectColumns(ts) ==
    LET column == parseSelectColumn(ts)
        rest == parseSelectColumns(Tail(column[2]))
    IN  IF currentType(column[2]) = "," THEN <<<<column[1]>> \o rest[1], rest[2]>>
        ELSE <<<<column[1]>>, column[2]>>

parseOrderItems(ts) ==
    LET after == Tail(ts)
        given == currentType(after) \in {"ASC", "DESC"}
        item == [column |-> ts[1].value,
                 direction |-> IF given THEN after[1].type ELSE "ASC"]
        left == IF given THEN Tail(after) ELSE after
        rest == parseOrderItems(Tail(left))
    IN  IF currentType(left) = "," THEN <<<<item>> \o rest[1], rest[2]>>
        ELSE <<<<item>>, left>>

parseLimitOffset(ts) ==
    IF currentType(ts) # "LIMIT" THEN NoLimit
    ELSE [limit |-> ts[2].value,
          offset |-> IF Len(ts) > 2 /\ ts[3].type = "OFFSET" THEN ts[4].value ELSE 0]

parseOrderBy(ts) ==
    IF currentType(ts) = "ORDER" THEN parseOrderItems(SubSeq(ts, 3, Len(ts))) ELSE <<<<>>, ts>>

\* parseSelect, what follows the columns and then what follows WHERE.
withOrder(columns, where, order) ==
    [type |-> "SelectStatement", columns |-> columns, where |-> where,
     orderBy |-> order[1], limit |-> parseLimitOffset(order[2])]
withWhere(columns, where) == withOrder(columns, where[1], parseOrderBy(where[2]))
withColumns(columns) ==
    withWhere(columns[1], parseWhere(SubSeq(columns[2], 3, Len(columns[2]))))
parseSelect(ts) == withColumns(parseSelectColumns(Tail(ts)))

parseSetClauses(ts) ==
    LET value == parseValueNode(SubSeq(ts, 3, Len(ts)))
        clause == [column |-> ts[1].value, value |-> value[1]]
        rest == parseSetClauses(Tail(value[2]))
    IN  IF currentType(value[2]) = "," THEN <<<<clause>> \o rest[1], rest[2]>>
        ELSE <<<<clause>>, value[2]>>

\* Nothing looks at what follows the last clause that was recognised.
withSet(set) == [type |-> "UpdateStatement", set |-> set[1], where |-> parseWhere(set[2])[1]]
parseUpdate(ts) == withSet(parseSetClauses(SubSeq(ts, 4, Len(ts))))

parseDelete(ts) ==
    [type |-> "DeleteStatement", where |-> parseWhere(SubSeq(ts, 4, Len(ts)))[1]]

parse(ts) ==
    CASE currentType(ts) = "SELECT" -> parseSelect(ts)
      [] currentType(ts) = "UPDATE" -> parseUpdate(ts)
      [] currentType(ts) = "DELETE" -> parseDelete(ts)

-----------------------------------------------------------------------------
(* The storage adapter.  A row is a function from "ID" and the columns.     *)

Row(id) == [c \in Column \cup {"ID"} |-> IF c = "ID" THEN id ELSE table[id][c]]
Numeric(value) == value >= 0

RECURSIVE resolveOperand(_, _), Throws(_, _), evaluatePredicate(_, _)

resolveOperand(operand, row) ==
    CASE operand.type = "Identifier" -> row[operand.name]
      [] operand.type = "Literal" -> operand.value
      [] operand.type = "ArithmeticExpression" ->
             LET l == resolveOperand(operand.left, row)
                 r == resolveOperand(operand.right, row)
             IN  CASE operand.operator = "+" -> l + r
                   [] operand.operator = "-" -> l - r
                   [] operand.operator = "*" -> l * r

\* Arithmetic wants numbers, wherever in the predicate it stands: both sides
\* of AND and of OR are evaluated.
Throws(e, row) ==
    CASE e.type = "ArithmeticExpression" ->
             \/ Throws(e.left, row) \/ Throws(e.right, row)
             \/ ~Numeric(resolveOperand(e.left, row)) \/ ~Numeric(resolveOperand(e.right, row))
      [] e.type \in {"LogicalExpression", "ComparisonExpression"} ->
             Throws(e.left, row) \/ Throws(e.right, row)
      [] e.type = "NotExpression" -> Throws(e.expression, row)
      [] OTHER -> FALSE

compareValues(left, right, operator) ==
    CASE operator = "=" -> left = right
      [] operator = "!=" -> left # right
      [] operator = "<" -> Numeric(left) /\ Numeric(right) /\ left < right
      [] operator = ">" -> Numeric(left) /\ Numeric(right) /\ left > right
      [] operator = "<=" -> Numeric(left) /\ Numeric(right) /\ left <= right
      [] operator = ">=" -> Numeric(left) /\ Numeric(right) /\ left >= right

evaluatePredicate(e, row) ==
    CASE e.type = "NoWhere" -> TRUE
      [] e.type = "LogicalExpression" ->
             IF e.operator = "AND"
             THEN evaluatePredicate(e.left, row) /\ evaluatePredicate(e.right, row)
             ELSE evaluatePredicate(e.left, row) \/ evaluatePredicate(e.right, row)
      [] e.type = "NotExpression" -> ~evaluatePredicate(e.expression, row)
      [] e.type = "ComparisonExpression" ->
             compareValues(resolveOperand(e.left, row), resolveOperand(e.right, row), e.operator)
      [] e.type = "NullCheckExpression" ->
             IF e.isNegated THEN row[e.left.name] \notin {Null, Undefined}
             ELSE row[e.left.name] \in {Null, Undefined}
      [] e.type = "InExpression" ->
             \E k \in DOMAIN e.values : resolveOperand(e.values[k], row) = row[e.left.name]

\* find with a filter: the whole documents, in the order of their ids.
Documents == SelectSeq([k \in Id |-> k], LAMBDA id : id \in DOMAIN table)
filter(where) == SelectSeq([k \in DOMAIN Documents |-> Row(Documents[k])],
                           LAMBDA row : evaluatePredicate(where, row))
Fails(where) == \E id \in DOMAIN table : Throws(where, Row(id))
Found(where) == IF Fails(where) THEN <<>> ELSE filter(where)

\* read: then only the projected columns, and always the id.
read(projection, where) ==
    LET Projected(row) == [c \in DOMAIN row |->
                              IF c = "ID" \/ c \in projection \/ All \in projection
                              THEN row[c] ELSE Undefined]
    IN  [k \in DOMAIN filter(where) |-> Projected(filter(where)[k])]

-----------------------------------------------------------------------------
(* The optimizer, on one table. *)

RECURSIVE cascadeSelections(_)
cascadeSelections(where) ==
    CASE where.type = "NoWhere" -> <<>>
      [] where.type = "LogicalExpression" /\ where.operator = "AND" ->
             cascadeSelections(where.left) \o cascadeSelections(where.right)
      [] OTHER -> <<where>>

expressionComplexity(e) ==
    CASE e.type = "ComparisonExpression" -> 1
      [] e.type \in {"NullCheckExpression", "InExpression"} -> 2
      [] e.type = "NotExpression" -> 3
      [] e.type = "LogicalExpression" -> 4

\* The simple ones first; all are about the same table.
commutateSelections(selections) ==
    LET Of(c) == SelectSeq(selections, LAMBDA e : expressionComplexity(e) = c)
    IN  Of(1) \o Of(2) \o Of(3) \o Of(4)

RECURSIVE composeAnd(_)
composeAnd(expressions) ==
    IF expressions = <<>> THEN NoWhere
    ELSE IF Len(expressions) = 1 THEN expressions[1]
    ELSE Logical("AND", composeAnd(Front(expressions)), Last(expressions))

RECURSIVE collectIdentifiers(_)
collectIdentifiers(e) ==
    CASE e.type = "Identifier" -> {e.name}
      [] e.type \in {"ComparisonExpression", "LogicalExpression", "ArithmeticExpression"} ->
             collectIdentifiers(e.left) \cup collectIdentifiers(e.right)
      [] e.type = "NotExpression" -> collectIdentifiers(e.expression)
      [] e.type \in {"NullCheckExpression", "InExpression"} -> {e.left.name}
      [] OTHER -> {}

\* The columns to read: those selected or aggregated, and those of WHERE.
pushProjection(columns, selections) ==
    {IF c.type = "Identifier" THEN c.name ELSE c.argument : c \in ToSet(columns)}
        \cup UNION {collectIdentifiers(e) : e \in ToSet(selections)}

-----------------------------------------------------------------------------
(* The executors. *)

compareSortValues(left, right) ==
    CASE left = right -> 0
      [] left \in {Null, Undefined} -> 1
      [] right \in {Null, Undefined} -> -1
      [] OTHER -> left - right

\* Negative when the left row comes first.
RECURSIVE compareRows(_, _, _)
compareRows(left, right, items) ==
    IF items = <<>> THEN 0
    ELSE LET c == compareSortValues(left[items[1].column], right[items[1].column])
         IN  IF c = 0 THEN compareRows(left, right, Tail(items))
             ELSE IF items[1].direction = "DESC" THEN -c ELSE c

RECURSIVE sortRows(_, _)
sortRows(rows, items) ==
    IF rows = <<>> THEN rows
    ELSE LET sorted == sortRows(Front(rows), items)
             behind == {k \in DOMAIN sorted : compareRows(Last(rows), sorted[k], items) < 0}
             place == IF behind = {} THEN Len(rows)
                      ELSE CHOOSE k \in behind : \A j \in behind : k <= j
         IN  InsertAt(sorted, place, Last(rows))

\* LIMIT and OFFSET.
slice(rows, limit) ==
    IF limit.limit = Undefined THEN rows
    ELSE LET end == limit.offset + limit.limit
         IN  SubSeq(rows, limit.offset + 1, IF end < Len(rows) THEN end ELSE Len(rows))

RECURSIVE Total(_)
Total(values) == IF values = <<>> THEN 0 ELSE Head(values) + Total(Tail(values))

computeAggregate(column, rows) ==
    LET values == SelectSeq([k \in DOMAIN rows |-> rows[k][column.argument]], Numeric)
    IN  CASE column.argument = All -> Len(rows)
          [] column.functionName = "COUNT" -> Len(values)
          [] values = <<>> -> Null
          [] column.functionName = "SUM" -> Total(values)
          [] column.functionName = "MIN" ->
                 CHOOSE v \in ToSet(values) : \A w \in ToSet(values) : v <= w
          [] column.functionName = "MAX" ->
                 CHOOSE v \in ToSet(values) : \A w \in ToSet(values) : v >= w

executeSelect(node) ==
    LET selections == commutateSelections(cascadeSelections(node.where))
        rows == read(pushProjection(node.columns, selections), composeAnd(selections))
    IN  IF Fails(node.where) THEN [failed |-> TRUE, rows |-> <<>>]
        ELSE IF node.columns[1].type = "AggregateFunction"
        THEN [failed |-> FALSE,
              rows |-> <<[k \in DOMAIN node.columns |-> computeAggregate(node.columns[k], rows)]>>]
        ELSE [failed |-> FALSE, rows |-> slice(sortRows(rows, node.orderBy), node.limit)]

\* The value a column is set to, from the document as it was found.
resolveValueNode(value, row) ==
    IF value.type = "Literal" THEN value.value ELSE row[value.name]

\* The assignment that counts for a column.
LastFor(set, c) ==
    LET ks == {k \in DOMAIN set : set[k].column = c}
    IN  CHOOSE k \in ks : \A j \in ks : j <= k

Assigned(set) == {set[k].column : k \in DOMAIN set}

\* What the statement reports: a column set to nothing is gone.
buildUpdatedRows(set, rows) ==
    [k \in DOMAIN rows |->
        [c \in DOMAIN rows[k] |->
            IF c \in Assigned(set) THEN resolveValueNode(set[LastFor(set, c)].value, rows[k])
            ELSE rows[k][c]]]

\* What it writes: a column set to nothing is null.
SetPayload(set, row) ==
    [c \in Assigned(set) |->
        LET value == resolveValueNode(set[LastFor(set, c)].value, row)
        IN  IF value = Undefined THEN Null ELSE value]

-----------------------------------------------------------------------------
(* Texts.  What is asked is a tree; its text is printed with no more        *)
(* parentheses than precedence needs.                                       *)

Number(value) == IF value = Null THEN Token("NULL") ELSE [type |-> "NUMBER", value |-> value]
Name(name) == IF name = All THEN Token("*") ELSE [type |-> "IDENTIFIER", value |-> name]
Parenthesised(ts) == <<Token("(")>> \o ts \o <<Token(")")>>

Level(e) ==
    CASE e.type \in {"LogicalExpression", "ArithmeticExpression"} ->
             IF e.operator \in {"OR", "+", "-"} THEN 1 ELSE 2
      [] e.type = "NotExpression" -> 3
      [] OTHER -> 4

RECURSIVE Written(_), Commas(_)
WrittenAt(e, level) == IF Level(e) < level THEN Parenthesised(Written(e)) ELSE Written(e)
Commas(texts) ==
    IF Len(texts) = 1 THEN texts[1] ELSE texts[1] \o <<Token(",")>> \o Commas(Tail(texts))
Written(e) ==
    CASE e.type = "Identifier" -> <<Name(e.name)>>
      [] e.type = "Literal" -> <<Number(e.value)>>
      [] e.type \in {"LogicalExpression", "ArithmeticExpression"} ->
             WrittenAt(e.left, Level(e)) \o <<Token(e.operator)>> \o WrittenAt(e.right, Level(e) + 1)
      [] e.type = "ComparisonExpression" ->
             Written(e.left) \o <<Token(e.operator)>> \o Written(e.right)
      [] e.type = "NotExpression" -> <<Token("NOT")>> \o WrittenAt(e.expression, 3)
      [] e.type = "NullCheckExpression" ->
             Written(e.left) \o (IF e.isNegated THEN <<Token("IS"), Token("NOT"), Token("NULL")>>
                               ELSE <<Token("IS"), Token("NULL")>>)
      [] e.type = "InExpression" ->
             Written(e.left) \o <<Token("IN")>> \o
             Parenthesised(Commas([k \in DOMAIN e.values |-> Written(e.values[k])]))
      [] e.type = "AggregateFunction" ->
             <<Token(e.functionName)>> \o Parenthesised(<<Name(e.argument)>>)

WrittenWhere(where) == IF where = NoWhere THEN <<>> ELSE <<Token("WHERE")>> \o Written(where)
WrittenOrder(items) ==
    IF items = <<>> THEN <<>>
    ELSE <<Token("ORDER"), Token("BY")>> \o
         Commas([k \in DOMAIN items |-> <<Name(items[k].column), Token(items[k].direction)>>])
WrittenLimit(limit) ==
    IF limit = NoLimit THEN <<>>
    ELSE <<Token("LIMIT"), Number(limit.limit), Token("OFFSET"), Number(limit.offset)>>

\* A decimal number is three tokens.
WrittenSet(clause) ==
    <<Name(clause.column), Token("=")>> \o
    (IF clause.value.type = "Decimal" THEN <<Number(1), Token("."), Number(5)>>
     ELSE Written(clause.value))

Text(s) ==
    CASE s.type = "SelectStatement" ->
             <<Token("SELECT")>> \o Commas([k \in DOMAIN s.columns |-> Written(s.columns[k])]) \o
             <<Token("FROM"), Name("T")>> \o
             WrittenWhere(s.where) \o WrittenOrder(s.orderBy) \o WrittenLimit(s.limit)
      [] s.type = "UpdateStatement" ->
             <<Token("UPDATE"), Name("T"), Token("SET")>> \o
             Commas([k \in DOMAIN s.set |-> WrittenSet(s.set[k])]) \o WrittenWhere(s.where)
      [] s.type = "DeleteStatement" ->
             <<Token("DELETE"), Token("FROM"), Name("T")>> \o WrittenWhere(s.where)

-----------------------------------------------------------------------------
(* What is asked. *)

A == Identifier("A")
B == Identifier("B")

Atom == {Comparison("=", A, Literal(1)), Comparison("<", B, A), NullCheck(A, FALSE),
         NullCheck(B, TRUE), In(B, <<Literal(0), Literal(2)>>), Comparison("!=", A, Literal(Null)),
         Comparison(">", Arithmetic("+", A, Arithmetic("*", B, Literal(2))), Literal(1)),
         Comparison("<=", Literal(2), Arithmetic("*", Arithmetic("+", A, B), Literal(2)))}
Few == {NullCheck(B, FALSE), Comparison("<", B, A)}
Operator == {"AND", "OR"}

Pair(S, T) == {Logical(o, e, f) : o \in Operator, e \in S, f \in T}
Negation(S) == {Not(e) : e \in S}
Where ==
    {NoWhere} \cup Atom \cup Negation(Atom) \cup Pair(Atom, Few) \cup Pair(Few, Atom)
        \cup Negation(Pair(Few, Few)) \cup Pair(Negation(Few), Few)
        \cup Pair(Pair(Few, Few), Few) \cup Pair(Few, Pair(Few, Few))
SomeWhere == {NoWhere, Comparison("=", A, Literal(1)), NullCheck(B, TRUE),
              Comparison(">", Arithmetic("-", A, B), Literal(0)),
              Logical("OR", Comparison("<", B, A), NullCheck(A, FALSE))}

Columns == {<<Identifier(All)>>, <<A>>, <<B, A>>,
            <<Aggregate("COUNT", All)>>, <<Aggregate("COUNT", "A"), Aggregate("SUM", "B")>>,
            <<Aggregate("MIN", "B"), Aggregate("MAX", "A")>>}
By(column, direction) == [column |-> column, direction |-> direction]
OrderBy == {<<>>, <<By("A", "DESC")>>, <<By("A", "ASC"), By("B", "DESC")>>}
Limit == {NoLimit, [limit |-> 1, offset |-> 0], [limit |-> 2, offset |-> 1]}

Names(columns) ==
    IF columns[1].name = All THEN Column \cup {"ID"} ELSE {columns[k].name : k \in DOMAIN columns}

SelectStatement(columns, where, orderBy, limit) ==
    [type |-> "SelectStatement", columns |-> columns, where |-> where, orderBy |-> orderBy,
     limit |-> limit]
Select ==
    {SelectStatement(<<Identifier(All)>>, w, <<>>, NoLimit) : w \in Where} \cup
    {s \in {SelectStatement(c, w, o, l) : c \in Columns, w \in SomeWhere, o \in OrderBy, l \in Limit} :
        IF s.columns[1].type = "AggregateFunction" THEN s.orderBy = <<>> /\ s.limit = NoLimit
        ELSE OrderAnyColumn \/ {s.orderBy[k].column : k \in DOMAIN s.orderBy} \subseteq Names(s.columns)}

Set(column, value) == [column |-> column, value |-> value]
Update ==
    {[type |-> "UpdateStatement", set |-> set, where |-> w] :
        set \in {<<Set("A", Literal(0))>>, <<Set("A", B)>>, <<Set("A", B), Set("B", A)>>,
                 <<Set("B", A), Set("B", Literal(Null))>>}
                \cup (IF Decimal THEN {<<Set("B", [type |-> "Decimal"])>>} ELSE {}),
        w \in SomeWhere}
Delete == {[type |-> "DeleteStatement", where |-> w] : w \in SomeWhere}

-----------------------------------------------------------------------------
(* The runs of the statements. *)

\* One document inserted, updated or deleted: the columns it is given, and for
\* the others those it had.
Write(row) ==
    IF row.deletes THEN [k \in DOMAIN table \ {row.id} |-> table[k]]
    ELSE [k \in DOMAIN table \cup {row.id} |->
             IF k = row.id
             THEN [c \in Column |-> IF c \in DOMAIN row.columns THEN row.columns[c]
                                    ELSE IF k \in DOMAIN table THEN table[k][c] ELSE Undefined]
             ELSE table[k]]

Writing(id, columns, deletes) == [id |-> id, columns |-> columns, deletes |-> deletes]

Begin(statement, writes, rows) ==
    /\ writing = NoStatement
    /\ writing' = statement
    /\ pending' = writes
    /\ reported' = rows
    /\ before' = table
    /\ UNCHANGED table

\* executeInsert: the ids are drawn before the statement is replicated.
Insert ==
    \E id \in Id \ DOMAIN table : \E columns \in {{"A"}, Column} :
    \E row \in [columns -> Value \cup {Null}] :
        Begin([type |-> "InsertStatement", id |-> id, row |-> row],
              <<Writing(id, row, FALSE)>>, <<>>)

\* executeUpdate: the documents are found, and then each is written.
BeginUpdate(statement) ==
    /\ writing = NoStatement
    /\ \E node \in {parse(Text(statement))} : \E rows \in {Found(node.where)} :
          Begin(statement,
                [k \in DOMAIN rows |->
                    Writing(rows[k]["ID"], SetPayload(node.set, rows[k]), FALSE)],
                buildUpdatedRows(node.set, rows))

\* executeDelete.
BeginDelete(statement) ==
    /\ writing = NoStatement
    /\ \E node \in {parse(Text(statement))} : \E rows \in {Found(node.where)} :
          Begin(statement,
                [k \in DOMAIN rows |-> Writing(rows[k]["ID"], [c \in {} |-> Null], TRUE)], rows)

WriteOne ==
    /\ pending # <<>>
    /\ table' = Write(Head(pending))
    /\ pending' = Tail(pending)
    /\ UNCHANGED <<writing, reported, before>>

End ==
    /\ writing # NoStatement /\ pending = <<>>
    /\ writing' = NoStatement
    /\ reported' = <<>>
    /\ before' = table
    /\ UNCHANGED <<table, pending>>

Init ==
    /\ table = [id \in {} |-> [c \in Column |-> Undefined]]
    /\ writing = NoStatement
    /\ pending = <<>> /\ reported = <<>>
    /\ before = table

Next ==
    \/ Insert \/ WriteOne \/ End
    \/ \E s \in Update : BeginUpdate(s)
    \/ \E s \in Delete : BeginDelete(s)

Spec == Init /\ [][Next]_vars

-----------------------------------------------------------------------------
(* What is promised. *)

\* The documents of t that an expression is true of.
RECURSIVE Matches(_, _)
Matches(e, t) ==
    CASE e.type = "NoWhere" -> DOMAIN t
      [] e.type = "NotExpression" -> DOMAIN t \ Matches(e.expression, t)
      [] e.type = "LogicalExpression" ->
             IF e.operator = "AND" THEN Matches(e.left, t) \cap Matches(e.right, t)
             ELSE Matches(e.left, t) \cup Matches(e.right, t)
      [] OTHER -> {id \in DOMAIN t : evaluatePredicate(e, t[id])}

Refused(e, t) == \E id \in DOMAIN t : Throws(e, t[id])

AggregateOf(column, ids) ==
    LET known == {id \in ids : Numeric(table[id][column.argument])}
        values == {table[id][column.argument] : id \in known}
    IN  CASE column.argument = All -> Cardinality(ids)
          [] column.functionName = "COUNT" -> Cardinality(known)
          [] known = {} -> Null
          [] column.functionName = "MIN" -> CHOOSE v \in values : \A w \in values : w >= v
          [] column.functionName = "MAX" -> CHOOSE v \in values : \A w \in values : w <= v
          [] column.functionName = "SUM" ->
                 MapThenSumSet(LAMBDA id : table[id][column.argument], known)

Known(value) == IF value = Undefined THEN Null ELSE value

AnswerIsRight(s, answer) ==
    LET ids == Matches(s.where, table)
        rows == answer.rows
        Full(id) == [c \in Column \cup {"ID"} |-> IF c = "ID" THEN id ELSE table[id][c]]
        First(n) == IF n < Cardinality(ids) THEN n ELSE Cardinality(ids)
        Keys(id) == [c \in Column \cup {"ID"} |-> Known(Full(id)[c])]
        Ahead(id) == {j \in ids : compareRows(Keys(j), Keys(id), s.orderBy) < 0}
        Beside(id) == {j \in ids : compareRows(Keys(j), Keys(id), s.orderBy) = 0}
    IN  /\ answer.failed <=> Refused(s.where, table)
        /\ ~answer.failed =>
            IF s.columns[1].type = "AggregateFunction"
            THEN rows = <<[k \in DOMAIN s.columns |-> AggregateOf(s.columns[k], ids)]>>
            ELSE /\ \A k \in DOMAIN rows :
                        LET id == rows[k]["ID"]
                            place == s.limit.offset + k
                        IN  /\ id \in ids
                            /\ \A j \in DOMAIN rows : rows[j]["ID"] = id => j = k
                            /\ \A c \in Names(s.columns) : rows[k][c] = Full(id)[c]
                            /\ place > Cardinality(Ahead(id))
                            /\ place <= Cardinality(Ahead(id)) + Cardinality(Beside(id))
                 /\ Len(rows) =
                        IF s.limit = NoLimit THEN Cardinality(ids)
                        ELSE First(s.limit.offset + s.limit.limit) - First(s.limit.offset)

\* A SELECT answers documents that its WHERE is true of, each with the columns
\* asked for, in the order asked for, as many as LIMIT and OFFSET leave, and
\* none of those left out after them belongs in front; aggregates are of all
\* the documents that its WHERE is true of (SelectExecutor: LIMIT after ORDER
\* BY; SelectOptimizer: "preserving the semantics of the original query").  Its
\* text is parsed as it was meant, which is looked at while there are no
\* documents.
SelectIsRight ==
    writing = NoStatement =>
        \A s \in Select :
            /\ DOMAIN table = {} => parse(Text(s)) = s
            /\ AnswerIsRight(s, executeSelect(s))

\* When an UPDATE or a DELETE is done it has changed the documents that its
\* WHERE was true of when it began and no other, all assignments taking the
\* values from before; and it has reported the documents as they now are.  A
\* text that is not in the grammar changes nothing (UpdateExecutor,
\* DeleteExecutor, parseUpdate).
InGrammar(s) ==
    s.type = "UpdateStatement" => \A k \in DOMAIN s.set : s.set[k].value.type # "Decimal"
WritesAreRight ==
    writing.type \in {"UpdateStatement", "DeleteStatement"} /\ pending = <<>> =>
        LET found == IF InGrammar(writing) /\ ~Refused(writing.where, before)
                     THEN Matches(writing.where, before) ELSE {}
        IN  /\ \A id \in DOMAIN before \ found : id \in DOMAIN table /\ table[id] = before[id]
            /\ {reported[k]["ID"] : k \in DOMAIN reported} = found
            /\ IF writing.type = "DeleteStatement" THEN DOMAIN table = DOMAIN before \ found
               ELSE /\ DOMAIN table = DOMAIN before
                    /\ \A id \in found, c \in Column :
                           LET given == SelectSeq(writing.set, LAMBDA a : a.column = c)
                               value == given[Len(given)].value
                           IN  table[id][c] = IF given = <<>> THEN before[id][c]
                                              ELSE IF value.type = "Literal" THEN value.value
                                              ELSE Known(before[id][value.name])
                    /\ \A k \in DOMAIN reported, c \in Column :
                           Known(reported[k][c]) = Known(table[reported[k]["ID"]][c])
=============================================================================
