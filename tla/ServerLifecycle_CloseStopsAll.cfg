SPECIFICATION Spec
INVARIANT CloseStopsAll
