CONSTANTS
  Scope = {Tenant, ResourceGroup, Extension}
  Absent = Absent
  ReadOnly = ReadOnly
SPECIFICATION Spec
CHECK_DEADLOCK FALSE
INVARIANT LegacyWritableIsReadable
PROPERTY ScopesStable
