SPECIFICATION FairHostSpec
CONSTANTS
  p = p
  q = q
  s = s
  c = c
  b1 = b1
  b2 = b2
  plain = plain
  counted = counted
  union = union
  show = show
  shared = shared
  quoted = quoted
  escapedQuote = escapedQuote
  commented = commented
  nested = nested
  outfile = outfile
  write = write
  two = two
  empty = empty
  None = None
  Blank = Blank
  Torn = Torn
  Malformed = Malformed
  Command = {p, q, s, c}
  Kind <- MCKind
  ReconnectBase = 1
  ReconnectMax = 1
  MaxRefusals = 1
  Sql = {plain, counted, union, show, shared, quoted, escapedQuote, commented, nested, outfile, write, two, empty}
  Chars <- MCChars
  Parsed <- MCParsed
  Database = {b1, b2}
  Grants <- MCGrants
  Tables <- MCTables
  Results <- MCResults
  Cut <- MCCut
  MaxInt64 = 31
  Mantissa = 4
  Deployments <- MCDeployments
INVARIANTS StoredIsServed AnswerMatchesGateway OnlyReadsReachMySQL RowsAreExact
PROPERTIES OneEndsBoth TerminateStops
CHECK_DEADLOCK FALSE
