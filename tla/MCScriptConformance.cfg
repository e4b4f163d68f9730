CONSTANTS
  MAX_STACK_SIZE = 4
  MAX_SCRIPT_OPS = 3
  Opcodes <- MCOpcodes
  DigestLead = 1
  MAX_SCRIPT_SIZE = 4
SPECIFICATION CSpec
CONSTRAINT InterpreterRunning
INVARIANTS TypeOK StacksAgree 
CHECK_DEADLOCK FALSE
