\* Two rewrites and a patch of one launch kit.
CONSTANTS
  Requests = {r1, r2, r3}
  Parts = {p1, p2}
  DocsOf <- MCKitOnly
SPECIFICATION EditSpec
PROPERTY VariantKeepsOthers
CHECK_DEADLOCK FALSE
