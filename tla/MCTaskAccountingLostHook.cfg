CONSTANT Setups <- MCLostHook
SPECIFICATION Spec
CHECK_DEADLOCK FALSE
INVARIANT TaskSettles
