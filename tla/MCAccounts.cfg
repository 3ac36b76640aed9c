CONSTANTS
    AccountNames = {a, b}
    a = a
    Urls = {u}
    u = u
    None = None
    Unparsable = Unparsable
    Processes = {p, q}
    SignIns = {i}
    Subs = {s}
    Given <- MCGiven
    Rounds = 4
SPECIFICATION Spec
INVARIANTS
    CatalogConsistent
    SettledNamesAgree
    SettledSignInsAgree
CHECK_DEADLOCK FALSE
SYMMETRY Interchangeable
