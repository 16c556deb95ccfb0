SPECIFICATION Spec
CONSTANTS
  Ssids = {"truck", "phone"}
  Keys = {"key1", "key2"}
  Placeholder = "placeholder"
  Empty = ""
INVARIANTS
  PasswordIsForNetwork
PROPERTIES
  KeyStays
