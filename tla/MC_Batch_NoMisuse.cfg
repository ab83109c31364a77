\* Batch: a script with a trailing comment or an empty statement.
CONSTANT MaxScript <- MCMaxScript
SPECIFICATION Spec
INVARIANT NoMisuse
CHECK_DEADLOCK FALSE
