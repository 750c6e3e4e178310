------------------------- MODULE TenantInstallations -------------------------
(***************************************************************************)
(* What the installation transactions of atomic.go promise a tenant, over  *)
(* the one thing the tenant observes: which builds it has installed.  A    *)
(* tenant holds at most one build of a plugin per runtime type; installing *)
(* a build replaces the tenant's build of that plugin, upgrading swaps the *)
(* installed build for another build of the same plugin, and uninstalling *)
(* removes it.  Other tenants' builds are never touched.                  *)
(*                                                                         *)
(* It is the abstract specification that Installation implements, with   *)
(* one runtime type; the refinement is a PROPERTY of Installation's run.  *)
(***************************************************************************)
CONSTANTS
    Tenants,        \* tenant ids
    UIDs,           \* plugin unique identifiers
    PluginIdOf(_)   \* the plugin (author/name) a build belongs to

VARIABLE
    installed       \* installed[t]: the builds tenant t has installed

TypeOK == installed \in [Tenants -> SUBSET UIDs]

Init == installed = [t \in Tenants |-> {}]

\* The builds of t that belong to another plugin than u.
OtherPlugins(t, u) == {v \in installed[t] : PluginIdOf(v) /= PluginIdOf(u)}

Install(t, u) ==
    installed' = [installed EXCEPT ![t] = OtherPlugins(t, u) \cup {u}]

Uninstall(t, u) ==
    /\ u \in installed[t]
    /\ installed' = [installed EXCEPT ![t] = @ \ {u}]

Upgrade(t, orig, new) ==
    /\ orig \in installed[t]
    /\ PluginIdOf(new) = PluginIdOf(orig)
    /\ installed' = [installed EXCEPT ![t] = (@ \ {orig}) \cup {new}]

Next ==
    \E t \in Tenants, u, v \in UIDs :
        Install(t, u) \/ Uninstall(t, u) \/ Upgrade(t, u, v)

\* No fairness: tenants install and uninstall at will.
Spec == Init /\ [][Next]_installed

=============================================================================
