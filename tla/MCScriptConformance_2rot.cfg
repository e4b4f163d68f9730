CONSTANTS
  MAX_STACK_SIZE = 6
  MAX_SCRIPT_OPS = 5
  MAX_SCRIPT_SIZE = 5
  Opcodes <- MCRotOpcodes
  DigestLead = 1
SPECIFICATION CSpec
INVARIANT StacksAgree
CHECK_DEADLOCK FALSE
