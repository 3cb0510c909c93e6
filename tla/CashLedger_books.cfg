SPECIFICATION Spec
CONSTANTS
    f1 = f1
    f2 = f2
    l1 = l1
    e1 = e1
    s1 = s1
    s2 = s2
    r1 = r1
    t1 = t1
    p1 = p1
    p2 = p2
    None = None
    Flows = {f1, f2}
    Setts = {s1, s2}
    Lent = {l1}
    Borrowed = {}
    Receivables = {r1}
    Expenses = {e1}
    Tickets = {t1}
    Amounts = {1, 2}
    Projects = {p1, p2}
    Handlers = {h1, h2}
    Openings <- MCOpenings
    Offered = {"create_flow", "update_flow", "delete_flow", "create_item", "update_item", "delete_item", "create_settlement", "update_settlement", "delete_settlement"}
    MaxRequests = 2
CHECK_DEADLOCK FALSE
SYMMETRY MCSymmetry
INVARIANTS
    BooksBalance
    GoneStaysGone
    DecisionsStand
PROPERTIES
    SerialSpec
