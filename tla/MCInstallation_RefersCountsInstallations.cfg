\* Installs, uninstalls and upgrades of two builds of one plugin by two
\* tenants through two concurrent handlers, one runtime type.
CONSTANTS
    Tenants = {t1, t2}
    UIDs = {u1, u2}
    RuntimeTypes = {local}
    HasCapability = {u1}
    Workers = {w1, w2}
    PluginIdOf <- MCPluginIdOf
    MaxRequests <- MCMaxRequests
SPECIFICATION Spec

INVARIANT RefersCountsInstallations
