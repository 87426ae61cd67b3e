CONSTANTS
  Roots <- MCRoots
  Bytes <- MCBytes
  MaxArgs = 2
  MaxArgLen = 2
  CharSigned = FALSE
  OOM = TRUE
SPECIFICATION Spec
INVARIANT EncodesAsSpecified
INVARIANT WritesWithinBlock
\* nih_dbus_path is one call: once it has returned there is nothing left to do.
CHECK_DEADLOCK FALSE
