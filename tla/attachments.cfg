\* Two handlers; a third path for the upload after a failed one.
SPECIFICATION Spec
CONSTANTS
    Tickets = {t1}
    Attachments = {a1, a2}
    Paths = {p1, p2, p3}
    Reqs = {r1, r2}
    None = None
SYMMETRY Interchangeable
INVARIANTS TypeOK StoresAgree
PROPERTIES OnlyItsDeleteTakesIt
