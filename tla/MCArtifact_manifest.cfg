SPECIFICATION Spec
CONSTANTS
    Absent = Absent
    None = None
    e1 = e1
    e2 = e2
    d1 = d1
    d2 = d2
    f = f
    g = g
    logf = logf
    zero = zero
    fg = fg
    gf = gf
    h = h
    c0 = c0
    c1 = c1
    D = D
    E = E
    Exporters <- MCExporters
    Dests <- MCDests
    Files <- MCFiles
    Exprs <- MCExprs
    Nodes <- MCNodes
    Boxes <- MCBoxes
    Rationals <- MCRationals
    Sound <- MCSound
    Requests <- PackagedRequests
    Present <- MCPresent
    Mortal = {}
INVARIANT ManifestBinds
CHECK_DEADLOCK FALSE
