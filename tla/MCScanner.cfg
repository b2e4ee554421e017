\* Every short source of identifiers, numbers, operators, comments, newlines
\* and string literals.
CONSTANTS
  Sources <- ScannerSources
  MaxLen = 5
SPECIFICATION Spec
INVARIANT ScannerTypeOK
INVARIANT LineNumbersCounted
INVARIANT StringTokensUnescaped
PROPERTY ScanStops
