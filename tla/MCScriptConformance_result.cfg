CONSTANTS
  MAX_STACK_SIZE = 4
  MAX_SCRIPT_OPS = 3
  MAX_SCRIPT_SIZE = 4
  Opcodes <- MCOpcodes
  DigestLead = 1
SPECIFICATION CSpec
INVARIANT ResultAgrees
CHECK_DEADLOCK FALSE
