CONSTANTS
  Admin = {a1, a2}
  Handler = {h1, h2}
  Amount = 3
SPECIFICATION Spec
INVARIANTS TypeOK BooksNeverAhead
PROPERTY LedgerKept
