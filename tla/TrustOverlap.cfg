CONSTANTS
    lookup = lookup  list = list  d0 = d0  d1 = d1  e0 = e0  o0 = o0  o1 = o1
    Request = {q1, q2, q3, q4, q5}
    Tool = {lookup, list}
    Definition = {d0, d1, e0}
    Observation = {o0, o1}
    Listing <- MCListing
    Serves <- MCServes
    Grave <- Worsening
    Exclusive = FALSE
    NoRequest = NoRequest  NoDefinition = NoDefinition
    NoTool = NoTool  NoObservation = NoObservation
SYMMETRY RequestSymmetry
SPECIFICATION Spec
CHECK_DEADLOCK FALSE
INVARIANTS TrustNeedsBaseline PinIsRecorded
PROPERTY BaselineNeverMovesBack
