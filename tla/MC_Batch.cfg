\* Batch: statements run once each and in order, execute_all returns, and
\* reports success only when the whole script ran.
CONSTANT MaxScript <- MCMaxScript
SPECIFICATION FairSpec
INVARIANTS
    InOrderOnce
    CompleteOnSuccess
PROPERTY
    AllTerminates
\* The client may stop calling at any point.
CHECK_DEADLOCK FALSE
