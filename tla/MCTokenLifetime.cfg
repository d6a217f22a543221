CONSTANTS
    ForeignRole = {"curator"}
    Guards <- FewGuards
    Lifetime = 2
    Fraction = 2
    Horizon = 3
    NoToken = NoToken
SPECIFICATION Spec
INVARIANTS LifeTypeOK NoRevokedTokenPasses StaleRightsExpire
PROPERTIES GrantNeverNarrows ForeignRoleNeverWidens
