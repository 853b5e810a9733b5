--------------------------- MODULE AccessControl ---------------------------
(***************************************************************************)
(* Users, roles, API keys and tokens (src/app/auth/, the tables and the    *)
(* seed of src/app/storage/database.py): what the steps of a request read  *)
(* and write.  Passwords, signatures and key material are abstracted: a    *)
(* credential is the key or the token it belongs to.                       *)
(***************************************************************************)
EXTENDS Integers, FiniteSets

CONSTANTS Users,        \* ids of the rows of "users"
          KeyIds,       \* ids of the rows "api_keys" may have
          OldKeys,      \* those that have a row at the start
          TokenIds,     \* names for the tokens that may be issued
          ExpMinutes,   \* jwt_access_token_exp_minutes; the clock ticks minutes
          MaxTime,      \* bound: the clock stops there
          RoleChoices,  \* the sets of roles a user may have at the start
          System,       \* the actor of a server without security: not in "users"
          None

ASSUME AccessAssumption == /\ None \notin Users
                           /\ System \notin Users \cup {None}
                           /\ None \notin TokenIds
                           /\ OldKeys \subseteq KeyIds
                           /\ ExpMinutes \in Int
                           /\ MaxTime \in Nat

VARIABLES clock,
          active,       \* users with is_active
          assigned,     \* per user: the roles of its rows in "user_roles"
          keyOwner,     \* per key id: the user, or None for no row
          tokens        \* per name: the claims of the token issued under it

accessVars == <<clock, active, assigned, keyOwner, tokens>>

Time == 0..MaxTime

-----------------------------------------------------------------------------
(* Roles and what they grant, as seeded.                                   *)

Roles == {"admin", "operator", "viewer"}

ASSUME RoleAssumption == RoleChoices \subseteq SUBSET Roles

ViewerGrants == {"ingestion:read", "metrics:read", "sessions:read"}

OperatorGrants == ViewerGrants \cup
  {"chat:write", "ingestion:write", "ingestion:process", "sessions:write"}

Permissions == OperatorGrants \cup {"audit:read", "auth:manage_api_keys", "admin:full"}

Grants == [role \in Roles |-> CASE role = "admin"    -> Permissions
                                [] role = "operator" -> OperatorGrants
                                [] role = "viewer"   -> ViewerGrants]

GrantedTo(roles) == UNION {Grants[role] : role \in roles}

ListRoles(u) == assigned[u]

ListPermissions(u) == GrantedTo(assigned[u])

(***************************************************************************)
(* AuthContext.is_admin and the test of require_permissions.               *)
(***************************************************************************)
IsAdmin(roles, permissions) == "admin:full" \in permissions \/ "admin" \in roles

Permitted(roles, permissions, needed) ==
  IsAdmin(roles, permissions) \/ needed \in permissions

-----------------------------------------------------------------------------
(* Tokens.                                                                 *)

Token == [user : Users, roles : SUBSET Roles, permissions : SUBSET Permissions,
          exp : Int, held : SUBSET Roles]

NoToken == [user |-> None, roles |-> {}, permissions |-> {}, exp |-> 0, held |-> {}]

Lifetime == IF ExpMinutes > 1 THEN ExpMinutes ELSE 1

(***************************************************************************)
(* issue_access_token_payload; "held" is the history the properties need:  *)
(* the roles of the user when the login request arrived.                   *)
(***************************************************************************)
Issue(t, u, roles, permissions, held) ==
  tokens' = [tokens EXCEPT ![t] =
    [user |-> u, roles |-> roles, permissions |-> permissions,
     exp |-> clock + Lifetime, held |-> held]]

(***************************************************************************)
(* decode_hs256 refuses a token whose expiry has passed.                   *)
(***************************************************************************)
MutantNeverExpires(t) == FALSE                \* verify_exp=False

Expired(t) == tokens[t].exp < clock

(***************************************************************************)
(* The INSERT of create_api_key.                                           *)
(***************************************************************************)
InsertKey(k, u) == keyOwner' = [keyOwner EXCEPT ![k] = u]

-----------------------------------------------------------------------------
(* What changes behind the requests: time, and an operator working on the  *)
(* tables directly, the only way to take a role away or to deactivate a    *)
(* user (no endpoint does).                                                *)

AccessInit == /\ clock = 0
              /\ active = Users
              /\ assigned \in [Users -> RoleChoices]
              /\ keyOwner \in [KeyIds -> Users \cup {None}]
              /\ \A k \in KeyIds : keyOwner[k] = None <=> k \notin OldKeys
              /\ tokens = [t \in TokenIds |-> NoToken]

Tick == /\ clock < MaxTime
        /\ clock' = clock + 1
        /\ UNCHANGED <<active, assigned, keyOwner, tokens>>

Revoke(u, role) ==
  /\ role \in assigned[u]
  /\ assigned' = [assigned EXCEPT ![u] = @ \ {role}]
  /\ UNCHANGED <<clock, active, keyOwner, tokens>>

Deactivate(u) ==
  /\ u \in active
  /\ active' = active \ {u}
  /\ UNCHANGED <<clock, assigned, keyOwner, tokens>>

AccessNext == \/ Tick
              \/ \E u \in Users, role \in Roles : Revoke(u, role)
              \/ \E u \in Users : Deactivate(u)
=============================================================================
