CONSTANTS
    Nids <- MCNids
    Entries <- MCEntries
    Programs <- MCPrograms
    HleModules <- MCHleModules
SPECIFICATION Spec
INVARIANT RuntimeModulesCleared
CHECK_DEADLOCK FALSE
