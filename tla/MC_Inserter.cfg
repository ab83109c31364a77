\* inserter::insert(): the rowid it returns is the one its step inserted.
CONSTANTS
    MinRowid <- MCMinRowid
    MaxRowid <- MCMaxRowid
SPECIFICATION Spec
INVARIANT InsertReportsOwnRow
\* The client may stop calling at any point.
CHECK_DEADLOCK FALSE
