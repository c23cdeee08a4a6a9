SPECIFICATION MiniSpec
CONSTANT taskTop = 2
INVARIANT LockExcludes
