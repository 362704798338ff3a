SPECIFICATION FairSpec
CONSTANTS
  Device = {d1}
  Mortal = {d1}
  Key = {1, 2, 3}
  INIT_TIME = 1
  RENEW_TIME = 1
  SshErrors = {"SSHException", "OSError"}
  MaxInFlight = 0
  MaxConnect = 1
PROPERTY DeadDeviceRemoved
CHECK_DEADLOCK FALSE
