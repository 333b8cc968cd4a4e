SPECIFICATION Spec
CONSTANTS
  Clients = {1, 2}
  Tenants = {"tenantA", "tenantB"}
  OtherKeys = {"max_global_series_per_user"}
  Theirs <- MCTheirs
  Rest <- MCRest
  InitialDocs <- MCInitialDocs
  MaxCalls = 3
CHECK_DEADLOCK FALSE
INVARIANTS TypeOK UnmanagedPreserved ManagedWhole 
