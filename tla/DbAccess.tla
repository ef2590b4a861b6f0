------------------------------ MODULE DbAccess ------------------------------
(***************************************************************************)
(* internal/dbaccess: the declarative access contract of a service's       *)
(* PostgreSQL role, and the migration appkit db-access renders from it.    *)
(* Several such migrations run at once, in one database or in several      *)
(* databases of one cluster, where they share the permission role; an      *)
(* operator changes row security policies between their statements.        *)
(*                                                                         *)
(* Roles, attributes and memberships belong to the cluster; privileges,    *)
(* row security and the advisory lock belong to a database.  A transaction *)
(* keeps what it wrote in work until it commits.                           *)
(*                                                                         *)
(* An operator whose name begins with that of the definition after it is a *)
(* faulty variant of it, against which a property is tested.               *)
(***************************************************************************)
EXTENDS Naturals

CONSTANTS
  Migrations,   \* appended access migrations
  Databases,    \* databases of the cluster
  Tables,       \* tables of each database
  Declared,     \* Declared[m]: the manifests migration m may be rendered from
  MaxDrifts     \* bound: policy changes an operator makes

ASSUME DbAccessAssumption ==
  /\ "none" \notin Migrations \cup Tables /\ DOMAIN Declared = Migrations /\ MaxDrifts \in Nat

VARIABLES
  manifest,   \* the manifest of each migration
  location,   \* the database each migration runs in
  cluster,    \* committed: the permission role, the login role's memberships
  db,         \* committed: privileges and row security of each database
  policies,   \* policies of each table
  tx,         \* each migration's next statement and what it holds
  work,       \* what each open transaction wrote
  rowHolder,  \* the transaction with an uncommitted row of the permission role
  drifts      \* policy changes so far

accessVars == <<manifest, location, cluster, db, policies, tx, work, rowHolder, drifts>>

TablePrivileges == {"SELECT", "INSERT", "DELETE"}
ColumnPrivileges == {"SELECT", "INSERT"}
MutationPrivileges == {"INSERT", "DELETE"}
ColumnMutationPrivileges == {"INSERT"}
MandatoryForbidden == {"SUPERUSER", "CREATEDB"}
Unlisted == {"unlisted"}    \* the manifest does not name the object
PolicyVersions == [name : {"p"}, body : {"declared", "drifted"}] \cup {[name |-> "q", body |-> "declared"]}
PolicySets == {s \in SUBSET PolicyVersions : \A x, y \in s : x.name = y.name => x = y}

----------------------------------------------------------------------------
(* Manifest.Validate: a manifest is refused, or every statement below runs. *)

(* The file parses, its names are identifiers, the login role is external and neither *)
(* role is privileged: header sums this up.                                           *)
ValidHeader(m) == m.header = "sound"

ValidRoleLists(m) ==
  /\ m.required \cap ({"permission", "login"} \cup m.excluded) = {}
  /\ m.excluded \cap {"permission", "login"} = {}

ValidPrivileges(granted, allowed) == granted = Unlisted \/ (granted # {} /\ granted \subseteq allowed)

ValidRLS(requirement) ==
  requirement.declared => /\ requirement.enabled /\ requirement.forced /\ requirement.exact
                          /\ \A x, y \in requirement.policies : x.name = y.name => x = y
                          /\ \A x \in requirement.policies : x.body # "malformed"

GrantsAreAllowed(m) ==
  \A t \in Tables :
    /\ m.tables[t] \cap m.privileges = {}
    /\ t \in m.mutations => m.tables[t] \cap MutationPrivileges = {}
    /\ m.columns[t] \cap m.privileges = {}
    /\ t \in m.mutations => m.columns[t] \cap ColumnMutationPrivileges = {}

ValidateManifest(m) ==
  /\ ValidHeader(m)
  /\ ValidRoleLists(m)
  /\ \A t \in Tables : /\ ValidPrivileges(m.tables[t], TablePrivileges)
                       /\ ValidPrivileges(m.columns[t], ColumnPrivileges)
                       /\ ValidRLS(m.rls[t])
  /\ m.attributes = MandatoryForbidden
  /\ m.privileges \subseteq TablePrivileges
  /\ GrantsAreAllowed(m)

----------------------------------------------------------------------------
Protected(d, t) == \E m \in Migrations : location[m] = d /\ manifest[m].rls[t].declared

AccessInit ==
  /\ manifest \in {f \in [Migrations -> UNION {Declared[m] : m \in Migrations}] :
                     \A m \in Migrations : f[m] \in Declared[m]}
  /\ location \in [Migrations -> Databases]
  /\ cluster \in [role : {{"absent"}, {"LOGIN", "SUPERUSER"}},
                  members : {{}, {"legacy"}}, exist : {{}, {"legacy"}}]
  /\ cluster.members \subseteq cluster.exist
  /\ \E held \in {{}, TablePrivileges} :
       db = [d \in Databases |-> [acl |-> [t \in Tables |-> held],
                                  cols |-> [t \in Tables |-> held \cap ColumnPrivileges],
                                  secured |-> {}]]
  /\ \E s \in {{}, {[name |-> "p", body |-> "declared"]}} :
       policies = [d \in Databases |-> [t \in Tables |-> IF Protected(d, t) THEN s ELSE {}]]
  /\ tx = [m \in Migrations |-> [at |-> "render", locked |-> {}, left |-> {}, now |-> "none"]]
  /\ work = [m \in Migrations |-> "none"]
  /\ rowHolder = "none"
  /\ drifts = 0

Open(m) == tx[m].at \notin {"render", "lock", "refused", "failed", "committed"}
Moves(m, from, to) == tx[m].at = from /\ tx' = [tx EXCEPT ![m].at = to]
Access == <<manifest, location>>

(* db-access render: parse, Validate, RenderSQL. *)
RenderSQL(m) ==
  /\ tx[m].at = "render"
  /\ tx' = [tx EXCEPT ![m].at = IF ValidateManifest(manifest[m]) THEN "lock" ELSE "refused"]
  /\ UNCHANGED <<Access, cluster, db, policies, work, rowHolder, drifts>>

(* pg_advisory_xact_lock of the role's name: one database, until the transaction ends. *)
AdvisoryLock(m) ==
  /\ \A n \in Migrations : location[n] = location[m] => ~Open(n)
  /\ Moves(m, "lock", "look")
  /\ work' = [work EXCEPT ![m] = [cluster |-> cluster, db |-> db[location[m]]]]
  /\ UNCHANGED <<Access, cluster, db, policies, rowHolder, drifts>>

(* IF NOT EXISTS (SELECT 1 FROM pg_roles ...) *)
LookForRole(m) ==
  /\ Moves(m, "look", IF cluster.role = {"absent"} THEN "create" ELSE "alter")
  /\ UNCHANGED <<Access, cluster, db, policies, work, rowHolder, drifts>>

(* CREATE ROLE waits for a transaction that made the role, and ignores a duplicate. *)
CreateRole(m) ==
  /\ rowHolder = "none"
  /\ Moves(m, "create", "alter")
  /\ IF cluster.role = {"absent"}
     THEN /\ rowHolder' = m
          /\ work' = [work EXCEPT ![m].cluster = [cluster EXCEPT !.role = {"INHERIT"}]]
     ELSE UNCHANGED <<rowHolder, work>>
  /\ UNCHANGED <<Access, cluster, db, policies, drifts>>

(* ALTER ROLE sets every attribute of the contract, whoever made the role. *)
AlterRole(m) ==
  LET seen == IF rowHolder = m THEN work[m].cluster ELSE cluster
      cleared == {"LOGIN"} \cup manifest[m].attributes
  IN  /\ rowHolder \in {"none", m}
      /\ Moves(m, "alter", "members")
      /\ rowHolder' = m
      /\ work' = [work EXCEPT ![m].cluster = [seen EXCEPT !.role = (@ \ cleared) \cup {"INHERIT"}]]
      /\ UNCHANGED <<Access, cluster, db, policies, drifts>>

(* GRANT permission and required roles; REVOKE the forbidden ones that exist. *)
Memberships(m) ==
  LET mf == manifest[m]
  IN  /\ Moves(m, "members", "grants")
      /\ mf.required \subseteq work[m].cluster.exist
      /\ work' = [work EXCEPT ![m].cluster.members =
                    (@ \cup {"permission"} \cup mf.required) \ (mf.excluded \cap work[m].cluster.exist)]
      /\ UNCHANGED <<Access, cluster, db, policies, rowHolder, drifts>>

(* GRANT ... ON TABLE, then GRANT ... (column).  Schemas, sequences and functions are *)
(* granted the same way, and nothing of them is ever revoked: tables stand for them.  *)
GrantPrivileges(m) ==
  LET mf == manifest[m]
  IN  /\ tx[m].at = "grants"
      /\ tx' = [tx EXCEPT ![m].at = "rls", ![m].left = {t \in Tables : mf.rls[t].declared}]
      /\ work' = [work EXCEPT ![m].db.acl = [t \in Tables |-> @[t] \cup (mf.tables[t] \ Unlisted)],
                              ![m].db.cols = [t \in Tables |-> @[t] \cup (mf.columns[t] \ Unlisted)]]
      /\ UNCHANGED <<Access, cluster, db, policies, rowHolder, drifts>>

(* Mutant: the policies are compared without the table lock. *)
LockTableUnlocked(m, t) ==
  /\ tx[m].at = "rls" /\ t \in tx[m].left
  /\ tx' = [tx EXCEPT ![m].at = "assert", ![m].now = t, ![m].left = @ \ {t}]
  /\ UNCHANGED <<Access, cluster, db, policies, work, rowHolder, drifts>>

(* LOCK TABLE ... IN ACCESS EXCLUSIVE MODE keeps policies as they are until the end. *)
LockTable(m, t) ==
  /\ tx[m].at = "rls" /\ t \in tx[m].left
  /\ tx' = [tx EXCEPT ![m].at = "assert", ![m].now = t,
                          ![m].locked = @ \cup {t}, ![m].left = @ \ {t}]
  /\ UNCHANGED <<Access, cluster, db, policies, work, rowHolder, drifts>>

(* A transaction that fails writes nothing and gives up what it held. *)
Rollback(m) ==
  /\ tx' = [tx EXCEPT ![m] = [at |-> "failed", locked |-> {}, left |-> {}, now |-> "none"]]
  /\ work' = [work EXCEPT ![m] = "none"]
  /\ rowHolder' = IF rowHolder = m THEN "none" ELSE rowHolder
  /\ UNCHANGED <<Access, cluster, db, policies, drifts>>

(* The set of policy names, then the definition of each, or RAISE EXCEPTION. *)
PoliciesMatch(actual, required) ==
  /\ {p.name : p \in actual} = {p.name : p \in required}
  /\ \A p \in required : p \in actual

AssertPolicies(m) ==
  LET t == tx[m].now
  IN  /\ tx[m].at = "assert"
      /\ IF PoliciesMatch(policies[location[m]][t], manifest[m].rls[t].policies)
         THEN /\ Moves(m, "assert", "enable")
              /\ UNCHANGED <<Access, cluster, db, policies, work, rowHolder, drifts>>
         ELSE Rollback(m)

(* ALTER TABLE ... ENABLE, then FORCE ROW LEVEL SECURITY. *)
EnableRLS(m) ==
  /\ Moves(m, "enable", "rls")
  /\ work' = [work EXCEPT ![m].db.secured = @ \cup {tx[m].now}]
  /\ UNCHANGED <<Access, cluster, db, policies, rowHolder, drifts>>

(* What is revoked: forbidden.privileges on every table the manifest names for *)
(* grants, and the mutations as well on the tables of forbidden.mutations.     *)
Revoked(m, t) ==
  (IF m.tables[t] # Unlisted \/ m.columns[t] # Unlisted \/ t \in m.mutations THEN m.privileges ELSE {})
  \cup (IF t \in m.mutations THEN MutationPrivileges ELSE {})

(* REVOKE ON TABLE takes the same privilege off its columns; the loop over the *)
(* columns repeats it for the privileges columns have.                         *)
RevokeForbidden(m) ==
  /\ tx[m].left = {}
  /\ Moves(m, "rls", "commit")
  /\ work' = [work EXCEPT ![m].db.acl = [t \in Tables |-> @[t] \ Revoked(manifest[m], t)],
                          ![m].db.cols = [t \in Tables |-> @[t] \ Revoked(manifest[m], t)]]
  /\ UNCHANGED <<Access, cluster, db, policies, rowHolder, drifts>>

Commit(m) ==
  /\ tx[m].at = "commit"
  /\ tx' = [tx EXCEPT ![m] = [at |-> "committed", locked |-> {}, left |-> {}, now |-> "none"]]
  /\ cluster' = work[m].cluster
  /\ db' = [db EXCEPT ![location[m]] = work[m].db]
  /\ work' = [work EXCEPT ![m] = "none"]
  /\ rowHolder' = "none"
  /\ UNCHANGED <<Access, policies, drifts>>

(* Any statement may fail: a missing role or table, a lost session, a concurrent update. *)
StatementFails(m) == Open(m) /\ Rollback(m)

(* An operator replaces the policies of a table no transaction has locked; tables *)
(* no contract protects are left out.                                              *)
PolicyDrift(d, t) ==
  /\ drifts < MaxDrifts
  /\ Protected(d, t)
  /\ \A m \in Migrations : location[m] = d => t \notin tx[m].locked
  /\ policies' \in {[policies EXCEPT ![d][t] = s] : s \in PolicySets}
  /\ drifts' = drifts + 1
  /\ UNCHANGED <<Access, cluster, db, tx, work, rowHolder>>

MigrationStep(m) ==
  \/ RenderSQL(m) \/ AdvisoryLock(m) \/ LookForRole(m) \/ CreateRole(m) \/ AlterRole(m)
  \/ Memberships(m) \/ GrantPrivileges(m) \/ AssertPolicies(m) \/ EnableRLS(m)
  \/ RevokeForbidden(m) \/ Commit(m) \/ StatementFails(m)
  \/ \E t \in Tables : LockTable(m, t)

AccessNext ==
  \/ \E m \in Migrations : MigrationStep(m)
  \/ \E d \in Databases, t \in Tables : PolicyDrift(d, t)

AccessSpec == AccessInit /\ [][AccessNext]_accessVars

----------------------------------------------------------------------------
RoleIsAsDeclared(m, c) ==
  /\ c.role \cap ({"absent", "LOGIN"} \cup MandatoryForbidden) = {}
  /\ {"permission"} \cup m.required \subseteq c.members
  /\ m.excluded \cap c.members = {}

PrivilegesAreAsDeclared(m, held) ==
  \A t \in Tables :
    LET effective == held.acl[t] \cup held.cols[t]
    IN  /\ m.tables[t] \ Unlisted \subseteq held.acl[t]
        /\ m.columns[t] \ Unlisted \subseteq effective
        /\ m.tables[t] # Unlisted \/ m.columns[t] # Unlisted => effective \cap m.privileges = {}
        /\ t \in m.mutations => effective \cap (m.privileges \cup MutationPrivileges) = {}
        /\ m.rls[t].declared => t \in held.secured

(* A rendered migration that reaches its commit has made the contract true, whatever  *)
(* the cluster and the database held before and whatever runs beside it: the          *)
(* permission role has no login and no forbidden attribute, even when another         *)
(* migration created it; every grant is effective and nothing forbidden is, on tables *)
(* and columns; and the policies of a protected table are exactly the declared ones   *)
(* at the commit, not only when they were compared.  What was committed stays so      *)
(* until another access migration commits.                                            *)
AccessIsAsDeclared ==
  \A m \in Migrations :
    LET mf == manifest[m]
        alone == \A n \in Migrations \ {m} : tx[n].at # "committed"
    IN  /\ tx[m].at = "commit" =>
             /\ RoleIsAsDeclared(mf, work[m].cluster)
             /\ PrivilegesAreAsDeclared(mf, work[m].db)
             /\ \A t \in Tables : mf.rls[t].declared => policies[location[m]][t] = mf.rls[t].policies
        /\ tx[m].at = "committed" /\ alone =>
             /\ RoleIsAsDeclared(mf, cluster)
             /\ PrivilegesAreAsDeclared(mf, db[location[m]])
=============================================================================
