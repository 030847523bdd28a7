CONSTANTS
    Entries <- MCEntries
    MaxEntries = 2
SPECIFICATION Spec
CHECK_DEADLOCK FALSE
INVARIANT TypeOK
INVARIANT CatalogIsUnion
