\* Three overlapping calls, two papers that may share a PDF, with kills and database errors.
CONSTANTS
    c1 = c1  c2 = c2  c3 = c3  p1 = p1  p2 = p2  u1 = u1  u2 = u2  nourl = nourl
    Callers = {c1, c2, c3}
    Papers = {p1, p2}
    Urls = {u1, u2}
    NoUrl = nourl
    DbFails = TRUE
SPECIFICATION Spec
SYMMETRY Symmetric
INVARIANTS OneText FullTextHasItsFile
PROPERTIES StoredTextIsStable RowsVanishOnlyInFailures
