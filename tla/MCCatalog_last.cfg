SPECIFICATION Spec
CONSTANTS
  c1 = c1
  c2 = c2
  p1 = p1
  p2 = p2
  p3 = p3
  v1 = v1
  v2 = v2
  v3 = v3
  v4 = v4
  s1 = s1
  s2 = s2
  s3 = s3
  n1 = n1
  d1 = d1
  d2 = d2
  Categories = {c1}
  Products = {p1, p2}
  Variants = {v1, v2, v3, v4}
  Names = {n1}
  Traded = {v2, v4}
  Skus = {s1, s2, s3}
  Docs = {d1, d2}
  Feeds = {}
  Candidates <- Generated
  Jobs = {j1, j2}
  Requests <- DeleteRequests
  Importers = {}
  None = None
  Gone = Gone
PROPERTIES
  LastVariantStays
