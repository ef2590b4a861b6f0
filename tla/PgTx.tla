-------------------------------- MODULE PgTx --------------------------------
(***************************************************************************)
(* pgtx: transactions, their nesting in savepoints, and the state a        *)
(* transaction sets for row level security and search_path; and            *)
(* audit.Recorder, whose rows live in the transaction they are about.      *)
(*                                                                         *)
(* One goroutine on one pooled connection; its code nests Do as it likes,  *)
(* each with the Transactor and the ctx it likes, reads and writes rows,   *)
(* and lets each fn return, fail or panic.  PostgreSQL is modelled by what *)
(* the code relies on: SET LOCAL lasts to the end of the transaction and   *)
(* is undone only with the savepoint it was made in, a failed statement    *)
(* aborts the transaction up to the enclosing savepoint, and policies see  *)
(* the settings, not the caller.                                           *)
(*                                                                         *)
(* An operator whose name begins with that of the definition after it is a *)
(* faulty variant of it, against which a property is tested.               *)
(***************************************************************************)
EXTENDS Naturals, Sequences, FiniteSets, SequencesExt

CONSTANTS
  TxTenants,    \* tenants a ctx may carry
  TxSchemas,    \* schemas a route may return
  MaxDo         \* bound: transactions and savepoints begun

ASSUME PgTxAssumption == "" \notin TxTenants /\ "" \notin TxSchemas /\ MaxDo \in Nat

VARIABLES
  table,    \* row level security of the tables with tenant_id, and the role
  started,  \* VerifyTenantRLS found nothing
  frames,   \* Do calls under way, outermost first
  session,  \* settings of the connection, and whether the transaction is aborted
  saved,    \* per frame: settings and rows at its BEGIN or SAVEPOINT
  rows,     \* rows as the transaction sees them
  stable,   \* committed rows
  begun,    \* how many frames were begun: the id of the latest
  wrote,    \* history: which Do wrote to which table
  access    \* history: what the last statement touched, through which ctx

txVars == <<table, started, frames, session, saved, rows, stable, begun, wrote, access>>

(* What a ctx and a Transactor make of a transaction (transactionScope). *)
Scopes ==
  [tenant : BOOLEAN, tenantID : TxTenants \cup {""}, readAll : BOOLEAN,
   routed : BOOLEAN, schema : TxSchemas \cup {""}]

ValidScope(s) ==
  /\ ~s.tenant => s.tenantID = ""
  /\ s.routed <=> s.schema # ""

(* Settings outside a transaction; tables of a domain that is not routed    *)
(* are qualified with a schema of their own.                                *)
Unset == [tenant |-> "", all |-> FALSE, path |-> "", aborted |-> FALSE]
NoAccess == [kind |-> "none", tenants |-> {}, schema |-> "", scope |-> [tenant |-> FALSE]]

PgTxInit ==
  /\ table \in [enabled : BOOLEAN, forced : BOOLEAN, isolation : BOOLEAN, readAll : BOOLEAN,
               bypass : BOOLEAN]
  /\ started = FALSE
  /\ frames = <<>> /\ saved = <<>> /\ session = Unset
  /\ rows = {} /\ stable = {} /\ begun = 0 /\ wrote = {}
  /\ access = NoAccess

(* VerifyTenantRLS, when the application starts; it does not with a problem. *)
VerifyTenantRLS ==
  /\ ~started
  /\ table.enabled /\ table.forced /\ table.isolation /\ table.readAll /\ ~table.bypass
  /\ started' = TRUE
  /\ UNCHANGED <<table, frames, session, saved, rows, stable, begun, wrote, access>>

-----------------------------------------------------------------------------
(* applyScope: SET LOCAL search_path, app.tenant_id and app.tenant_scope. *)
ApplyScope(s) ==
  [session EXCEPT !.path = IF s.routed THEN s.schema ELSE @,
                  !.tenant = IF s.tenant /\ s.tenantID # "" THEN s.tenantID ELSE @,
                  !.all = @ \/ (s.tenant /\ s.readAll)]

(* A nested Do must derive the scope of the one around it; a handle that Do *)
(* did not put there is refused (sameTx).                                   *)
MayBeginNested(s, foreign) == frames = <<>> \/ ~foreign

MayBegin(s, foreign) == frames = <<>> \/ (~foreign /\ Last(frames).scope = s)

(* Do, up to fn: BEGIN or SAVEPOINT, then the scope.  An aborted            *)
(* transaction accepts no savepoint.                                        *)
Do(s, foreign) ==
  /\ started /\ begun < MaxDo
  /\ IF MayBegin(s, foreign) /\ ~session.aborted
     THEN /\ begun' = begun + 1
          /\ frames' = Append(frames, [id |-> begun + 1, scope |-> s])
          /\ saved' = Append(saved, [session |-> session, rows |-> rows])
          /\ session' = ApplyScope(s)
     ELSE UNCHANGED <<frames, saved, session, begun>>
  /\ access' = NoAccess
  /\ UNCHANGED <<table, started, rows, stable, wrote>>

(* The ROLLBACK of a frame, and of the savepoints inside it. *)
RolledBack(n) ==
  /\ frames' = SubSeq(frames, 1, n - 1) /\ saved' = SubSeq(saved, 1, n - 1)
  /\ session' = saved[n].session /\ rows' = saved[n].rows
  /\ UNCHANGED stable

(* fn returns an error, panics or ends by Goexit, or applyScope fails. *)
DoFails ==
  /\ frames # <<>> /\ RolledBack(Len(frames))
  /\ access' = NoAccess /\ UNCHANGED <<table, started, begun, wrote>>

(* fn returns nil: COMMIT or RELEASE; the commit of an aborted transaction  *)
(* is a rollback and an error.  SET LOCAL of a savepoint outlives it.       *)
DoReturns ==
  /\ frames # <<>>
  /\ IF session.aborted THEN RolledBack(Len(frames))
     ELSE /\ frames' = Front(frames) /\ saved' = Front(saved)
          /\ IF Len(frames) = 1 THEN session' = Unset /\ stable' = rows
             ELSE UNCHANGED <<session, stable>>
          /\ UNCHANGED rows
  /\ access' = NoAccess /\ UNCHANGED <<table, started, begun, wrote>>

(* The connection breaks, during the COMMIT too: whether that took effect   *)
(* is not known to Do, which reports an error; the pool opens another.      *)
ConnectionLost(committed) ==
  /\ frames # <<>>
  /\ committed => Len(frames) = 1 /\ ~session.aborted
  /\ frames' = <<>> /\ saved' = <<>> /\ session' = Unset
  /\ stable' = IF committed THEN rows ELSE stable
  /\ rows' = stable'
  /\ access' = NoAccess /\ UNCHANGED <<table, started, begun, wrote>>

-----------------------------------------------------------------------------
(* Statements, through From(ctx): on the transaction of the innermost Do.   *)

(* Policies bind the owner of a table only when it forces them. *)
PoliciesApply == table.enabled /\ table.forced /\ ~table.bypass

(* appkit_current_tenant: raises without a tenant, unless all may be read. *)
TenantRaises == PoliciesApply /\ table.isolation /\ session.tenant = "" /\ ~session.all

(* The policies of TenantPolicySQL, on a table with tenant_id. *)
Visible ==
  {r \in rows : /\ r.schema = session.path
                /\ \/ ~PoliciesApply
                   \/ table.isolation /\ r.tenant = session.tenant
                   \/ table.readAll /\ session.all}
Writable(tenant) ==
  ~PoliciesApply \/ (table.isolation /\ session.tenant # "" /\ tenant = session.tenant)

Statement(kind, tenants) ==
  access' = [kind |-> kind, tenants |-> tenants, schema |-> session.path, scope |-> Last(frames).scope]

SelectRows ==
  /\ frames # <<>> /\ ~session.aborted
  /\ IF TenantRaises THEN session' = [session EXCEPT !.aborted = TRUE] /\ access' = NoAccess
     ELSE Statement("read", {r.tenant : r \in Visible}) /\ UNCHANGED session
  /\ UNCHANGED <<table, started, frames, saved, rows, stable, begun, wrote>>

(* An INSERT for some tenant: another's row violates WITH CHECK. *)
InsertRow(tenant) ==
  /\ frames # <<>> /\ ~session.aborted
  /\ IF Writable(tenant)
     THEN /\ rows' = rows \cup {[schema |-> session.path, tenant |-> tenant,
                                 of |-> Last(frames).id, table |-> "business"]}
          /\ wrote' = wrote \cup {<<Last(frames).id, "business">>}
          /\ Statement("write", {tenant}) /\ UNCHANGED session
     ELSE session' = [session EXCEPT !.aborted = TRUE] /\ access' = NoAccess /\ UNCHANGED <<rows, wrote>>
  /\ UNCHANGED <<table, started, frames, saved, stable, begun>>

(* audit.Record: refused outside a transaction; the table has no tenant. *)
Record ==
  /\ frames # <<>> /\ ~session.aborted
  /\ rows' = rows \cup {[schema |-> "audit", tenant |-> "", of |-> Last(frames).id, table |-> "audit"]}
  /\ wrote' = wrote \cup {<<Last(frames).id, "audit">>}
  /\ access' = NoAccess
  /\ UNCHANGED <<table, started, frames, session, saved, stable, begun>>

PgTxNext ==
  \/ VerifyTenantRLS
  \/ \E s \in Scopes, foreign \in BOOLEAN : ValidScope(s) /\ Do(s, foreign)
  \/ DoFails \/ DoReturns \/ SelectRows \/ Record
  \/ \E committed \in BOOLEAN : ConnectionLost(committed)
  \/ \E tenant \in TxTenants : InsertRow(tenant)

PgTxSpec == PgTxInit /\ [][PgTxNext]_txVars

-----------------------------------------------------------------------------
(* Properties. *)

(* A statement touches the rows of the tenant and the schema of the ctx its *)
(* Do was called with, never those of another Do around, inside or before   *)
(* it; all tenants are read only where that Do asked, and none is written   *)
(* but its own; and a connection goes back to the pool as it came.  What    *)
(* one Do wrote becomes durable together: an audit row never without the    *)
(* change it is about, whatever failed around it (pgtx.go:181-260, 298-345, *)
(* tenant.go:51-115, audit.go:82-114).                                      *)
TenantIsolation ==
  /\ access.kind # "none" =>
       /\ access.scope.tenant
       /\ access.schema = access.scope.schema
       /\ access.kind = "write" => access.tenants = {access.scope.tenantID}
       /\ access.kind = "read" /\ ~access.scope.readAll => access.tenants \subseteq {access.scope.tenantID}
  /\ frames = <<>> => session = Unset /\ rows = stable
  /\ \A i \in 1..begun : (\A n \in 1..Len(frames) : frames[n].id # i) =>
       LET durable == {r.table : r \in {q \in stable : q.of = i}}
       IN durable \in {{}, {w[2] : w \in {v \in wrote : v[1] = i}}}
=============================================================================
