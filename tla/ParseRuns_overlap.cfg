SPECIFICATION Spec
CONSTANTS
    s1 = s1
    s2 = s2
    s3 = s3
    Sessions = {s1, s2}
    Totals = {0, 1}
    MaxRows = 2
    MaxRuns = 3
SYMMETRY Symmetry
PROPERTIES NeverDark NeverBack NeverWorse
