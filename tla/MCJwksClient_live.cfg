CONSTANTS
    k1 = k1
    k2 = k2
    p1 = p1
    p2 = p2
    Kid = {k1, k2}
    Pem = {p1, p2}
    NoKid = NoKid
    AlienKid = AlienKid
    ListKid = ListKid
    BadKey = BadKey
    Scalar = Scalar
    Call = {c1, c2, c3}
    TTL = 2
    MinRefetchInterval = 1
    Reply <- FewReplies
SPECIFICATION FairSpec
PROPERTIES StaleIsRetried ProvidesLiveDirectory
