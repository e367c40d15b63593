\* Every configuration (both running modes, relay on/off, relay port set or
\* not, log file or console) and every failing step of NewServer.
SPECIFICATION Spec
PROPERTY StartsAfterDependencies
INVARIANT StartedAsConfigured
