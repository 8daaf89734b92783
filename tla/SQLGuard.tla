------------------------------ MODULE SQLGuard ------------------------------
(***************************************************************************)
(* sqlguard.Validate: what stands between the SQL a model wrote and the    *)
(* customer's database.                                                    *)
(*                                                                         *)
(* A text is seen twice: as the characters the scanner walks over (every   *)
(* run of characters without a meaning to it is one "x"), and as what the  *)
(* MySQL parser makes of it, which is external.  A statement is the record *)
(* of what the guard asks about it:                                        *)
(*   kind      its type                                                    *)
(*   selects   the SELECTs of its tree in the order of the visit: INTO     *)
(*             clause or not, lock                                         *)
(*   limit     a top-level LIMIT                                           *)
(*   groupBy   a GROUP BY                                                  *)
(*   fields    its field expressions, each the constructors met on the     *)
(*             way in: <<"paren", "aggregate">> is (COUNT(...))            *)
(***************************************************************************)
EXTENDS Integers, Sequences, FiniteSets

CONSTANTS
  Sql,          \* texts
  Chars,        \* Chars[s]: the characters of s, white space trimmed
  Parsed        \* Parsed[s]: the statements of s; none when it does not parse

SelectNode == [into : BOOLEAN, lock : STRING]
StatementTree == [kind : STRING, selects : Seq(SelectNode), limit : BOOLEAN,
                  groupBy : BOOLEAN, fields : Seq(Seq(STRING))]

ASSUME SqlAssumption ==
  Chars \in [Sql -> Seq(STRING)] /\ Parsed \in [Sql -> Seq(StatementTree)]

Quotes == {"single", "double", "backtick"}

\* The characters after which "--" starts a comment.
isSpaceOrControl(ch) ==
  ch \in {"space", "tab", "newline", "return", "formfeed", "vtab"}

-----------------------------------------------------------------------------
(* The scanner.  After each character it is outside quotes ("normal") or   *)
(* inside one kind of quotes, and the next character may be spoken for: it *)
(* is escaped, or the second of two quotes that stand for one.             *)

ScanStart == [mode |-> "normal", skip |-> FALSE]

\* The state after character i.  A backslash escapes between single and double
\* quotes, not backticks, and not as the last character.
ScanStep(text, i, was) ==
  LET mode == was.mode
      ch == text[i]
      last == i = Len(text)
  IN IF was.skip THEN [mode |-> mode, skip |-> FALSE]
     ELSE IF mode = "normal"
       THEN [mode |-> IF ch \in Quotes THEN ch ELSE mode, skip |-> FALSE]
     ELSE IF ch = "backslash" /\ mode # "backtick" /\ ~last
       THEN [mode |-> mode, skip |-> TRUE]
     ELSE IF ch = mode
       THEN IF ~last /\ text[i + 1] = mode THEN [mode |-> mode, skip |-> TRUE]
                                           ELSE ScanStart
     ELSE [mode |-> mode, skip |-> FALSE]

\* The state in front of each character, and behind the last one.
scanOutsideQuotes(text) ==
  LET at[i \in 1 .. Len(text) + 1] ==
        IF i = 1 THEN ScanStart ELSE ScanStep(text, i - 1, at[i - 1])
  IN at

\* The positions the scanner hands to its callback: outside every literal.
OutsideQuotes(text) ==
  LET at == scanOutsideQuotes(text)
  IN {i \in 1 .. Len(text) : at[i].mode = "normal" /\ text[i] \notin Quotes}

CommentStartsAt(text, i) ==
  \/ text[i] = "hash"
  \/ text[i] = "slash" /\ i + 1 <= Len(text) /\ text[i + 1] = "star"
  \/ /\ text[i] = "dash"
     /\ i + 2 <= Len(text)
     /\ text[i + 1] = "dash"
     /\ isSpaceOrControl(text[i + 2])

hasCommentToken(text) == \E i \in OutsideQuotes(text) : CommentStartsAt(text, i)

\* What is left of the text when its literals are cut out.
outsideQuotesUpper(text) ==
  LET kept == OutsideQuotes(text)
      upto[i \in 0 .. Len(text)] ==
        IF i = 0 THEN <<>>
        ELSE IF i \in kept THEN Append(upto[i - 1], text[i]) ELSE upto[i - 1]
  IN upto[Len(text)]

\* " INTO OUTFILE", " INTO DUMPFILE" or " INTO @".
detectRawDeniedPattern(text) ==
  LET bare == outsideQuotesUpper(text)
  IN \E i \in 1 .. Len(bare) - 1 :
       bare[i] = "INTO" /\ bare[i + 1] \in {"OUTFILE", "DUMPFILE", "AT"}

-----------------------------------------------------------------------------
(* The statement.                                                          *)

ReadKinds == {"select", "set_opr", "show"}

\* The construct a statement of another kind is reported as.
statementConstruct(stmt) ==
  IF stmt.kind \in {"alter", "begin", "call", "commit", "create", "delete", "do",
                    "drop", "flush", "grant", "insert", "replace", "kill",
                    "load_data", "lock_tables", "rename_table", "revoke",
                    "rollback", "set", "truncate", "unlock_tables", "update"}
    THEN stmt.kind
    ELSE "disallowed"

ShareLocks == {"none", "share", "share_nowait", "share_skip_locked"}

Refused(sel) == sel.into \/ sel.lock \notin ShareLocks

\* Fault: only the outermost SELECT is looked at.
Enter_OutermostOnly(stmt) ==
  {k \in {1} \cap DOMAIN stmt.selects : Refused(stmt.selects[k])}

\* guardVisitor.Enter over the whole tree: the SELECTs it would refuse.
Enter(stmt) == {k \in DOMAIN stmt.selects : Refused(stmt.selects[k])}

\* Parentheses are looked through, any other expression is not.
containsTopLevelAggregate(expr) ==
  \E i \in 1 .. Len(expr) :
    expr[i] = "aggregate" /\ \A j \in 1 .. i - 1 : expr[j] = "paren"

isAggregatedSelect(stmt) ==
  stmt.groupBy \/ \E k \in 1 .. Len(stmt.fields) : containsTopLevelAggregate(stmt.fields[k])

needsLimitInjection(stmt) ==
  \/ stmt.kind = "select" /\ ~stmt.limit /\ ~isAggregatedSelect(stmt)
  \/ stmt.kind = "set_opr" /\ ~stmt.limit

\* The statement as it is restored from its tree: comments are gone.
Restore(stmt) == [stmt EXCEPT !.limit = @ \/ needsLimitInjection(stmt)]

deny(construct) == [ok |-> FALSE, construct |-> construct]

Validate(s) ==
  LET text == Chars[s]
      stmts == Parsed[s]
      refused == Enter(stmts[1])
      first == CHOOSE k \in refused : \A l \in refused : k <= l
  IN IF text = <<>> THEN deny("parse_error")
     ELSE IF hasCommentToken(text) THEN deny("comment")
     ELSE IF detectRawDeniedPattern(text) THEN deny("select_into")
     ELSE IF stmts = <<>> THEN deny("parse_error")
     ELSE IF Len(stmts) > 1 THEN deny("multi_statement")
     ELSE IF stmts[1].kind \notin ReadKinds THEN deny(statementConstruct(stmts[1]))
     ELSE IF refused # {}
       THEN deny(IF stmts[1].selects[first].into THEN "select_into" ELSE "for_update")
     ELSE [ok |-> TRUE, construct |-> "none"]

Verdict == [s \in Sql |-> Validate(s)]

\* Which characters of a literal that starts at i are escaped, up to j.
Escaped(text, i, j) ==
  LET escaped[k \in 1 .. j] ==
        IF k <= i \/ text[i] = "backtick" THEN FALSE
        ELSE text[k - 1] = "backslash" /\ ~escaped[k - 1]
  IN escaped

\* What a literal is, apart from the scanner: it ends at the first quote of its
\* kind that no backslash escapes, and the next literal may follow at once.
Literal(text, i, j) ==
  LET closes(k) == k > i /\ text[k] = text[i] /\ ~Escaped(text, i, j)[k]
  IN text[i] \in Quotes /\ closes(j) /\ \A k \in i .. j - 1 : ~closes(k)

\* Whoever reads a text on from a position of B, one character or one literal at
\* a time, stays in B.
ClosedUnderReading(text, B) ==
  /\ \A i \in 1 .. Len(text) : i \in B /\ text[i] \notin Quotes => i + 1 \in B
  /\ \A i, j \in 1 .. Len(text) : i \in B /\ Literal(text, i, j) => j + 1 \in B

\* Reference: the positions of a text outside its literals, those that are in
\* every such B with the first position.
Bare(text) ==
  {i \in 1 .. Len(text) :
     /\ text[i] \notin Quotes
     /\ \A B \in SUBSET (1 .. Len(text) + 1) :
          1 \in B /\ ClosedUnderReading(text, B) => i \in B}

\* What the guard lets through to the database.
RewrittenSQL(s) == Restore(Parsed[s][1])
=============================================================================
