---------------------------- MODULE Installation ----------------------------
(***************************************************************************)
(* Plugin rows, installation rows and capability-installation rows of the  *)
(* metadata store, as changed by InstallPlugin, UninstallPlugin and        *)
(* UpgradePlugin in src/internal/types/models/curd/atomic.go.              *)
(*                                                                         *)
(* Requests are served by concurrent HTTP handlers (Workers).  Install and *)
(* Uninstall first read the installation table outside any transaction    *)
(* and then run a transaction; Upgrade is a single transaction.  A        *)
(* transaction is one atomic step that either commits all its writes or,  *)
(* when its closure returns an error, none of them.                       *)
(***************************************************************************)
EXTENDS Integers, FiniteSets

CONSTANTS
    Tenants,        \* tenant ids
    UIDs,           \* plugin unique identifiers (author/name:version@sum)
    PluginIdOf(_),  \* the PluginID() accessor: author/name of an identifier
    RuntimeTypes,   \* install_type / runtime_type values
    HasCapability,  \* identifiers whose declaration has a Tool section
    Workers,        \* concurrent request handlers
    MaxRequests     \* bound on the number of requests served

ASSUME HasCapability \subseteq UIDs /\ MaxRequests \in Nat

VARIABLES
    plugins,        \* rows of table plugin: [uid, type, refers]
    installations,  \* rows of table plugin_installation: [id, tenant, uid, type]
    caps,           \* caps[t][u]: tool_installation rows of tenant t for u
    req,            \* req[w]: the request handler w is in the middle of
    issued          \* number of requests started (bounded by MaxRequests)

vars == <<plugins, installations, caps, req, issued>>

NoReq == [op |-> "none"]

PluginRow == [uid: UIDs, type: RuntimeTypes, refers: 1..MaxRequests]
InstallationRow == [id: 1..MaxRequests, tenant: Tenants, uid: UIDs,
                    type: RuntimeTypes]
PendingInstall == [op: {"install"}, tenant: Tenants, uid: UIDs,
                   type: RuntimeTypes, id: 1..MaxRequests]
PendingUninstall == [op: {"uninstall"}, tenant: Tenants, uid: UIDs,
                     id: 1..MaxRequests]

TypeOK ==
    /\ plugins \subseteq PluginRow
    /\ installations \subseteq InstallationRow
    /\ caps \in [Tenants -> [UIDs -> Nat]]
    /\ req \in [Workers -> {NoReq} \cup PendingInstall \cup PendingUninstall]
    /\ issued \in 0..MaxRequests

Init ==
    /\ plugins = {}
    /\ installations = {}
    /\ caps = [t \in Tenants |-> [u \in UIDs |-> 0]]
    /\ req = [w \in Workers |-> NoReq]
    /\ issued = 0

-----------------------------------------------------------------------------
(* Row helpers                                                             *)

RowsOf(u) == {p \in plugins : p.uid = u}

InstallationsOf(t, u) == {i \in installations : i.tenant = t /\ i.uid = u}

\* Starting a request handler consumes one unit of the request budget.
Begin(w) ==
    /\ req[w] = NoReq
    /\ issued < MaxRequests
    /\ issued' = issued + 1

-----------------------------------------------------------------------------
(* InstallPlugin                                                           *)

\* The check outside the transaction: any installation of the same
\* PluginID for the tenant makes the call fail with ErrPluginAlreadyInstalled.
InstallCheck(w, t, u, ty) ==
    /\ Begin(w)
    /\ IF \E i \in installations : PluginIdOf(i.uid) = PluginIdOf(u)
                                   /\ i.tenant = t
       THEN UNCHANGED req
       ELSE req' = [req EXCEPT ![w] =
                    [op |-> "install", tenant |-> t, uid |-> u, type |-> ty,
                     id |-> issued']]
    /\ UNCHANGED <<plugins, installations, caps>>

\* Mutant: the existing installations deleted by PluginID and runtime type
\* only, whatever their tenant.
InstallationsKeptAnyTenant(r) ==
    {i \in installations : ~(PluginIdOf(i.uid) = PluginIdOf(r.uid)
                             /\ i.type = r.type)}

\* "remove exists installation": the tenant's installations of the same
\* PluginID and runtime type are deleted; every other row is kept.
InstallationsKept(r) ==
    {i \in installations : ~(PluginIdOf(i.uid) = PluginIdOf(r.uid)
                             /\ i.type = r.type
                             /\ i.tenant = r.tenant)}

\* The transaction: take the plugin row for (uid, plugin_id, install_type)
\* and increment Refers, or create it with Refers 1; delete the tenant's
\* installations of that PluginID and runtime type; create the new
\* installation and, for a declaration with a Tool, the tool installation.
InstallTx(w) ==
    LET r == req[w]
        row == {p \in RowsOf(r.uid) : p.type = r.type}
        new == [id |-> r.id, tenant |-> r.tenant, uid |-> r.uid,
                type |-> r.type]
    IN
    /\ r.op = "install"
    /\ plugins' = IF row = {}
                  THEN plugins \cup {[uid |-> r.uid, type |-> r.type,
                                      refers |-> 1]}
                  ELSE (plugins \ row) \cup
                       {[p EXCEPT !.refers = @ + 1] : p \in row}
    /\ installations' = InstallationsKept(r) \cup {new}
    /\ caps' = IF r.uid \in HasCapability
               THEN [caps EXCEPT ![r.tenant][r.uid] = @ + 1]
               ELSE caps
    /\ req' = [req EXCEPT ![w] = NoReq]
    /\ UNCHANGED issued

-----------------------------------------------------------------------------
(* UninstallPlugin                                                         *)

\* The check outside the transaction: the installation id must exist for
\* the tenant and identifier, else "plugin has not been installed".
UninstallCheck(w, t, i) ==
    /\ Begin(w)
    /\ i.tenant = t
    /\ req' = [req EXCEPT ![w] =
               [op |-> "uninstall", tenant |-> t, uid |-> i.uid, id |-> i.id]]
    /\ UNCHANGED <<plugins, installations, caps>>

\* Mutant: the zero test made on Refers as read, before the decrement.
PluginDeletedBeforeDecrement(p) == p.refers = 0

\* After p.Refers-- the row is deleted when its Refers is 0.
PluginDeleted(p) == p.refers - 1 = 0

\* The transaction: lock the plugin row of the identifier and decrement
\* Refers, delete the tenant's installation of that identifier (found by
\* identifier and tenant, not by id), delete its tool installations, and
\* delete the plugin row when Refers reached 0.  A missing row or
\* installation returns an error and rolls everything back.
UninstallTx(w) ==
    LET r == req[w] IN
    /\ r.op = "uninstall"
    /\ req' = [req EXCEPT ![w] = NoReq]
    /\ UNCHANGED issued
    /\ IF RowsOf(r.uid) = {} \/ InstallationsOf(r.tenant, r.uid) = {}
       THEN UNCHANGED <<plugins, installations, caps>>
       ELSE \E p \in RowsOf(r.uid), i \in InstallationsOf(r.tenant, r.uid) :
              /\ plugins' = (plugins \ {p}) \cup
                            (IF PluginDeleted(p) THEN {}
                             ELSE {[p EXCEPT !.refers = @ - 1]})
              /\ installations' = installations \ {i}
              /\ caps' = IF r.uid \in HasCapability
                         THEN [caps EXCEPT ![r.tenant][r.uid] = 0]
                         ELSE caps

-----------------------------------------------------------------------------
(* UpgradePlugin                                                           *)

\* The plugin row UpgradePlugin creates for a new identifier: Refers 0,
\* incremented at the end of the transaction.
NewPluginRow(u, ty) == [uid |-> u, type |-> ty, refers |-> 0]

\* Mutant: the original row deleted without looking at its Refers.
DeleteOriginalAlways(o) == TRUE

\* The original row is deleted when its Refers, after the decrement, is 0.
DeleteOriginal(o) == o.refers = 0

\* One transaction: lock the tenant's installation of the original
\* identifier; create the new plugin row with Refers 0 if missing; point the
\* installation at the new identifier; decrement Refers of the original
\* rows and delete the original row when it reached 0 (a missing original
\* row is an error); increment Refers of the new rows.  Tool installations
\* are not touched.
UpgradeTx(w, t, orig, new, ty) ==
    LET created == IF RowsOf(new) = {}
                   THEN {NewPluginRow(new, ty)} ELSE {}
        dec(p) == IF p.uid = orig THEN [p EXCEPT !.refers = @ - 1] ELSE p
        inc(p) == IF p.uid = new THEN [p EXCEPT !.refers = @ + 1] ELSE p
        afterDec == {dec(p) : p \in plugins \cup created}
        origRows == {p \in afterDec : p.uid = orig}
    IN
    /\ Begin(w)
    /\ UNCHANGED req
    /\ IF InstallationsOf(t, orig) = {} \/ origRows = {}
       THEN UNCHANGED <<plugins, installations, caps>>
       ELSE \E i \in InstallationsOf(t, orig), o \in origRows :
              /\ installations' = (installations \ {i}) \cup
                                  {[i EXCEPT !.uid = new]}
              /\ plugins' = {inc(p) : p \in IF DeleteOriginal(o)
                                             THEN afterDec \ {o}
                                             ELSE afterDec}
              /\ UNCHANGED caps

-----------------------------------------------------------------------------

\* Upgrade requests name two builds of the same plugin.
UpgradeArgs == {<<o, n>> \in UIDs \X UIDs : o /= n /\ PluginIdOf(o) = PluginIdOf(n)}

\* All requests served and no handler busy.
Quiescent ==
    /\ issued = MaxRequests
    /\ \A w \in Workers : req[w] = NoReq
    /\ UNCHANGED vars

Next ==
    \/ \E w \in Workers :
          \/ \E t \in Tenants, u \in UIDs, ty \in RuntimeTypes :
                InstallCheck(w, t, u, ty)
          \/ InstallTx(w)
          \/ \E t \in Tenants, i \in installations : UninstallCheck(w, t, i)
          \/ UninstallTx(w)
          \/ \E t \in Tenants, a \in UpgradeArgs, ty \in RuntimeTypes :
                UpgradeTx(w, t, a[1], a[2], ty)
    \/ Quiescent

Spec == Init /\ [][Next]_vars

-----------------------------------------------------------------------------
(* Refinement of TenantInstallations                                      *)

\* What a tenant observes: the builds its installation rows name.
TenantView == [t \in Tenants |-> {i.uid : i \in {j \in installations : j.tenant = t}}]

Tenancy == INSTANCE TenantInstallations WITH installed <- TenantView

\* Every committed transaction, under any interleaving of the handlers'
\* checks and transactions, is one install, upgrade or uninstall of one
\* tenant's build as TenantInstallations allows, and changes no other
\* tenant's installations; a failed check or rolled-back transaction
\* changes nothing a tenant sees.
ImplementsTenantInstallations == Tenancy!Spec

-----------------------------------------------------------------------------
(* Properties                                                              *)

\* Every installation names an identifier that still has a plugin row: no
\* interleaving of installs, uninstalls and upgrades by several tenants
\* drops a plugin row (and with it the declaration) that an installation
\* still uses.
NoDanglingInstallation ==
    \A i \in installations : \E p \in plugins : p.uid = i.uid /\ p.type = i.type

\* Refers of a plugin row counts the installations that use it, so a row is
\* deleted exactly when its last installation goes.
RefersCountsInstallations ==
    \A p \in plugins :
        p.refers = Cardinality({i \in installations : i.uid = p.uid
                                                      /\ i.type = p.type})

\* Every tool installation row belongs to a current installation of the
\* same tenant and identifier.
CapabilitiesMatchInstallations ==
    \A t \in Tenants, u \in UIDs : caps[t][u] > 0 => InstallationsOf(t, u) /= {}

=============================================================================
