SPECIFICATION FairSpec
CONSTANTS
  Device = {d1, d2}
  Mortal = {d1}
  Key = {1, 2, 3, 4}
  INIT_TIME = 1
  RENEW_TIME = 1
  SshErrors = {"SSHException"}
  MaxInFlight = 1
  MaxConnect = 2
INVARIANT TypeOK
PROPERTIES EveryDeviceWatched DeadDeviceRemoved
