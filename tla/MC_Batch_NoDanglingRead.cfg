\* Batch: copy semantics and the caller's buffer.
CONSTANT MaxScript <- MCMaxScript
SPECIFICATION Spec
INVARIANT NoDanglingRead
CHECK_DEADLOCK FALSE
