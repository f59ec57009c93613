CONSTANTS
  Devices = {d1, d2}
  Resources = {r1, r2}
  Addresses = {a1, a2}
  NoDevice = NoDevice
  Requests <- MCRequests
  Word = 128
  Wide = 2048
  Machines <- MCMachines
  MaxJobs = 2
SPECIFICATION Spec
SYMMETRY Symmetric
CHECK_DEADLOCK FALSE
INVARIANTS PartsOutliveUsers ForeignNeverRecorded SelectionUsable UploadsCover
