----------------------------- MODULE MCTokenLifetime -----------------------------
(***************************************************************************)
(* An instance of TokenLifetime for TLC: one endpoint of each kind of      *)
(* guard that tells accounts apart.                                        *)
(***************************************************************************)
EXTENDS TokenLifetime

\* A role; an unknown role; a permission of users, one of
\* moderators, two permissions no single role below the administrator grants.
FewGuards == {
    [guard |-> "roles",       required |-> {ROLE_MODERATOR}],
    [guard |-> "roles",       required |-> ForeignRole],
    [guard |-> "permissions", required |-> {"user:update:self"}],
    [guard |-> "permissions", required |-> {"user:read:any"}],
    [guard |-> "permissions", required |-> {"user:read:self", "role:assign"}]}

=============================================================================
