CONSTANTS
  p = p
  q = q
  e = e
  f = f
  m = m
  n = n
  high = high
  None = None
  ProfileDefined = ProfileDefined
  Profiles <- MCProfiles
  Engines <- MCEngines
  Models <- MCModels
  Efforts <- MCEfforts
  Configs <- MCConfigs
  Flags <- MCFlags
  Edits <- MCEdits
SPECIFICATION Spec
INVARIANT TypeOK
PROPERTIES RetriesGoTheSameWay ReopenedGoesToItsProfile CapIsCheckedWhereCounted
