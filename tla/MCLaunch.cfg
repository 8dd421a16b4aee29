CONSTANTS
  Files = {"a.log", "b.log", "no/such.log"}
  Openable = {"a.log", "b.log"}
  Levels = {"CRITICAL", "DEBUG"}
  Unset = unset

SPECIFICATION LaunchSpec

INVARIANT LogRight
