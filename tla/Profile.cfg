SPECIFICATION Spec
CONSTANTS
  Processes = {p1, p2}
  Releases <- MCReleases
  Libraries <- MCLibraries
  Edits <- MCEdits
  Empty = Empty
  OneTitle = OneTitle
  TwoTitles = TwoTitles
  UserPaths = {chosen1, chosen2}
  SafetyPaths = {safety1, safety2}
  Absent = Absent
  Damaged = Damaged
  Other = Other
  None = None
INVARIANT Consistent
PROPERTIES OnlyItsOwner KeepsCustody
