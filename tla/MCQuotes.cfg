SPECIFICATION Spec
CONSTANTS
  q1 = q1
  q2 = q2
  Quote = {q1, q2}
  Payloads <- MCPayloads
  Fallback = Fallback
  None = None
INVARIANTS
  TypeOK
PROPERTIES
  ImplementsShelf
  StopsWhenTold
  QuotesArrive
