CONSTANTS
    Kid = {k1, k2}
    Pem = {p1, p2}
    NoKid = NoKid
    AlienKid = AlienKid
    ListKid = ListKid
    BadKey = BadKey
    Scalar = Scalar
    MaxEntries = 3
    Replies <- AllReplies
SPECIFICATION Spec
INVARIANT BadShapeIsMalformed
CHECK_DEADLOCK FALSE
