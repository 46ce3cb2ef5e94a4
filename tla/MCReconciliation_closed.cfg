\* Two lanes against up to two candidates, with up to two relations between two.
SPECIFICATION MCSpec
CONSTANTS
    la = la  lb = lb  c1 = c1  c2 = c2
    t = t  w = w  i = i  j = j  x = x  y = y  h = h  g = g
    depends = depends  contains = contains
    Lane = {la, lb}
    Id = {c1, c2}
    Text = {t, w}
    Unknown = Unknown
    Identifier = {i, j}
    Role = {x, y}
    Provenance = {}
    Hash = {h, g}
    Relation = {depends, contains}
INVARIANTS ClosedIsOneToOne ClosedHasNoContradiction ClosedStatesTheRelations
CHECK_DEADLOCK FALSE
