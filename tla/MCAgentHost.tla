---------------------------- MODULE MCAgentHost ----------------------------
(* An instance of MySQLRuntime: a ping, a query, an introspection and a    *)
(* configuration arrive.  The SQL is that of the tests of sqlguard; b2     *)
(* grants more than reading.                                               *)
EXTENDS MySQLRuntime, TLC

CONSTANTS p, q, s, c, b1, b2,
  plain, counted, union, show, shared, quoted, escapedQuote, commented, nested, outfile,
  write, two, empty

MCKind ==
  (p :> "ping") @@ (q :> "execute_query") @@ (s :> "introspect_schema")
  @@ (c :> "configure_database")

Node(into, lock) == [into |-> into, lock |-> lock]
Statement(kind, selects, limit, fields) ==
  [kind |-> kind, selects |-> selects, limit |-> limit, groupBy |-> FALSE, fields |-> fields]
Read == <<Node(FALSE, "none")>>
Column == <<<<"name">>>>

MCChars ==
     (plain :> <<"x">>)                                          \* SELECT a FROM t
  @@ (counted :> <<"x">>)                                        \* SELECT (COUNT(a)) FROM t
  @@ (union :> <<"x">>)                                          \* SELECT a FROM t UNION SELECT ...
  @@ (show :> <<"x">>)                                           \* SHOW TABLES
  @@ (shared :> <<"x">>)                                         \* ... FOR SHARE LIMIT 1
  @@ (quoted :> <<"x", "single", "hash", "single", "single", "hash", "single">>)
  @@ (escapedQuote :> <<"x", "single", "backslash", "single", "hash", "single", "x">>)
  @@ (commented :> <<"x", "backtick", "backslash", "backtick", "dash", "dash", "space">>)
  @@ (nested :> <<"x">>)                                         \* ... IN (SELECT ... FOR UPDATE)
  @@ (outfile :> <<"x", "INTO", "OUTFILE", "single", "x", "single">>)
  @@ (write :> <<"x">>)                                          \* UPDATE ...
  @@ (two :> <<"x">>)                                            \* SELECT 1; SELECT 2
  @@ (empty :> <<>>)

MCParsed ==
     (plain :> <<Statement("select", Read, FALSE, Column)>>)
  @@ (counted :> <<Statement("select", Read, FALSE, <<<<"paren", "aggregate">>>>)>>)
  @@ (union :> <<Statement("set_opr", Read \o Read, FALSE, <<>>)>>)
  @@ (show :> <<Statement("show", <<>>, FALSE, <<>>)>>)
  @@ (shared :> <<Statement("select", <<Node(FALSE, "share")>>, TRUE, Column)>>)
  @@ (quoted :> <<Statement("select", Read, TRUE, Column)>>)
  @@ (escapedQuote :> <<Statement("select", Read, FALSE, <<<<"plus", "aggregate">>>>)>>)
  @@ (commented :> <<Statement("select", Read, TRUE, Column)>>)
  @@ (nested :> <<Statement("select", Read \o <<Node(FALSE, "update")>>, TRUE, Column)>>)
  @@ (outfile :> <<Statement("select", <<Node(TRUE, "none")>>, TRUE, Column)>>)
  @@ (write :> <<Statement("update", <<>>, FALSE, <<>>)>>)
  @@ (two :> <<Statement("select", Read, TRUE, Column), Statement("select", Read, TRUE, Column)>>)
  @@ (empty :> <<>>)

Row(privileges) == [form |-> "grant", grantOption |-> FALSE, privileges |-> privileges]
MCGrants ==
     (b1 :> {Row({"USAGE"}), Row({"SELECT"})})
  @@ (b2 :> {Row({"SELECT"}), Row({"SHOW VIEW", "INSERT"})})
  @@ (None :> {Row({"SELECT", "SHOW VIEW"})})

Table(name, type) ==
  [name |-> name, type |-> type, columns |-> {"id"}, primaryKey |-> {"id"}, references |-> {}]
MCTables ==
  LET t == Table("t", "BASE TABLE") v == [Table("v", "VIEW") EXCEPT !.primaryKey = {}]
  IN (b1 :> <<{t}, {t, v}>>) @@ (b2 :> <<{t}>>)

\* A cut-off DSN of b1 may name b2 or none.
MCCut == (b1 :> {b2, None}) @@ (b2 :> {None}) @@ (None :> {})

Val(type, n, scale) == [type |-> type, n |-> n, scale |-> scale]
Result(columns, values) == [columns |-> columns, values |-> values]
MCResults ==
  {Result(<<"a">>, <<Val("uint", 3, 0)>>),
   Result(<<"a", "b">>, <<Val("uint", 33, 0), Val("int", -13, 0)>>),
   Result(<<"a", "a">>, <<Val("null", 0, 0), Val("decimal", 5, 2)>>),
   Result(<<"a", "b", "a">>, <<Val("text", 1, 0), Val("float", 9, 0), Val("null", 0, 0)>>),
   Result(<<"a">>, <<Val("binary", 1, 0)>>)}

MCDeployments ==
  LET D(b) == [database |-> b, multi |-> TRUE]
  IN {[direct |-> None, path |-> TRUE, complete |-> TRUE],
      [direct |-> None, path |-> TRUE, complete |-> FALSE],
      [direct |-> D(b1), path |-> FALSE, complete |-> TRUE],
      [direct |-> D(b1), path |-> TRUE, complete |-> TRUE]}

\* The scanner finds the literals of every text of up to five characters.
ASSUME ScannerIsExact ==
  \A n \in 0 .. 5 :
    \A text \in [1 .. n -> {"single", "double", "backtick", "backslash", "x"}] :
      OutsideQuotes(text) = Bare(text)
=============================================================================
