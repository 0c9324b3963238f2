SPECIFICATION MCSpec
INVARIANTS FrontendsTypeOK CacheConsistent ReplayExact AddressesKept
PROPERTIES RunsEnd
