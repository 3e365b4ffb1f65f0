SPECIFICATION Spec
CONSTANTS
    Apps = {a1}
    Slugs = {s1}
    Urls = {u1}
    Requests = {q1}
    MaxRev = 1
    Reported = {}
    None = None
    Blank = Blank
    Torn = Torn
SYMMETRY InstallSymmetry
PROPERTIES
    UninstalledStaysGone
