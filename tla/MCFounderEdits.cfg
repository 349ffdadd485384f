\* Four requests about any of the three documents.
CONSTANTS
  Requests = {r1, r2, r3, r4}
  Parts = {p1, p2}
  DocsOf <- MCDocsOf
SPECIFICATION EditSpec
INVARIANTS EditsCounted AcceptedAsSeen
CHECK_DEADLOCK FALSE
