SPECIFICATION Spec
CONSTANTS
  Names <- MCNames
  V6 <- MCV6
  Ports <- MCPorts
  Digits <- MCDigits
  Localhost = "localhost"
  Loopback <- MCLoopback
  Lower <- MCLower
  Allowed <- MCAllowed
  NoHeader = NoHeader
INVARIANT ServedIffPermitted
