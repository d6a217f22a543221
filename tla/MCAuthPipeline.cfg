CONSTANTS
    k1 = k1
    k2 = k2
    p1 = p1
    p2 = p2
    Kid = {k1, k2}
    Pem = {p1, p2}
    NoKid = NoKid
    AlienKid = AlienKid
    ListKid = ListKid
    BadKey = BadKey
    Scalar = Scalar
    Call = {c1, c2}
    TTL = 2
    MinRefetchInterval = 1
    Reply <- Replies
    ForeignRole = {"curator"}
    Request <- Requests
    NoRequest = NoRequest
    Rejected = Rejected
SPECIFICATION PipeSpec
INVARIANT PipeTypeOK
PROPERTIES OnlyVouchedRequestsPass VouchedRequestIsNotTurnedAway UnavailableMeansUnavailable InternalErrorMeansBug
SYMMETRY CallSymmetry
