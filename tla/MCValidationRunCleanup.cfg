SPECIFICATION Spec
CONSTANT N = 1
INVARIANT LaunchedAreCleaned
