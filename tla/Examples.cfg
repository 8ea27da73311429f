CONSTANTS
  Ids = {j1, j2}
  MaxSize = 3
  None = None
  Base = 2
  header_size = 3
  packet_minimum = 4
  body_offset = 2
  block_size = 2
  Datagrams <- MCDatagrams
  Readings <- MCReadings
  Payloads <- MCPayloads
  SequenceNumbers <- MCSequenceNumbers
  fields <- MCfields
  opcode_names <- MCopcode_names
  RawIndices <- MCRawIndices
  N = 2
  Bases = {1, 3}
  MaxCount = 3
  Cursors = {c1, c2}
SPECIFICATION ExamplesSpec
INVARIANTS
  TypeOK
  IndexInBounds
  VerdictRight
  ResultsRight
  IteratorTypeOK
  PositionsConsistent
  EachElementOnce
