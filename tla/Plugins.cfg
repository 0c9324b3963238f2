SPECIFICATION MCSpec
VIEW MCView
CHECK_DEADLOCK FALSE
INVARIANTS PluginsTypeOK HammerBound CountsKept IndirectionSound
