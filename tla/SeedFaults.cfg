SPECIFICATION Spec
CONSTANTS
    p1 = p1
    p2 = p2
    e1 = e1
    e2 = e2
    w1 = w1
    w2 = w2
    w3 = w3
    Run <- MCRun
    Email <- MCEmail
    Password <- MCPassword
    None = None
SYMMETRY Symmetry
INVARIANT
    GeneratedIsPrinted
