SPECIFICATION Spec
CONSTANTS
  Users <- MCUsers
  Tenants <- MCTenants
  Starts <- MCStarts
  TenantName <- MCTenantName
  Inside <- MCInside
  PageSize = 2
  MaxAccounts = 4
  People = {"Ann", "ann", "bob"}
  Lower <- MCLower
  MaxId = 6
  TenantTrouble = 2
  UserEvents = 4
  LoginMishaps = 2
INVARIANTS
  TypeOK
  OneTenantPerUser
PROPERTIES
  OneAccountPerUser
  AccountsConfigured
  OrphansDeleted
  TenantsSettle
  RecordedAccountKept
  UsersSettle
  LoginsSettle
CHECK_DEADLOCK FALSE
