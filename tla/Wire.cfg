CONSTANTS
  Zero = Zero
  Null = Null
  a = a
  b = b
  Items = {a, b}
  Tables <- MCTables
  Samples <- MCSamples
  Readers <- MCReaders
  Ordered <- MCOrdered
SPECIFICATION Spec
INVARIANTS RoundTrip
