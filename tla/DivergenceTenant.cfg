SPECIFICATION SideSpec
CONSTANTS
  Bit = {1}
  Session = {1, 2}
  Tenant = {0, 1}
  Partition = {1}
  Shard = {0, 1}
  Policy <- Policies3
  Profile <- Profiles
  Trusted = {0}
  Scopes = {{}, {1}}
  Loads <- Reports
  ExpiryPolicy <- Expiries
  Capacity = 2
  MaxEpoch = 2
  MaxQuiet = 2
  MaxSaid = 4
PROPERTY BootstrapClips
