SPECIFICATION Spec
CONSTANTS
    a = a  b = b  c = c  d = d  e = e
    Approvals = {1, 2}
    Manual = {3}
    Paths = {a, b, c}
    Target <- MCTarget
    Folders = {c}
    Protected = {}
    Binless = {c}
    Scopes <- MCScopes
    Suggestions <- MCSuggestions
    Requests <- MCRequests
    Contested = {a}
    Stranger = Stranger
    MaxProposals = 2
    MaxMishaps = 1
    Absent = Absent
    Nobody = 0

INVARIANT NothingLost
 
INVARIANT ActedOnce
INVARIANT GoneIsForgotten

CHECK_DEADLOCK FALSE
