SPECIFICATION Spec
CONSTANTS
  file_a = file_a
  file_b = file_b
  file_c = file_c
  Name = {file_a, file_b, file_c}
  x = x
  y = y
  Value = {x, y}
  MaxLength = 2
  Content <- MCContent
  NSlots = 2
  LastCluster = 4
  Absent = Absent
  Unknown = Unknown
  MaxFaults = 0
INVARIANT FilesApart
