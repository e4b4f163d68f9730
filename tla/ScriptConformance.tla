-------------------------- MODULE ScriptConformance --------------------------
(***************************************************************************)
(* The interpreter of ScriptVM run in lockstep with a reference machine    *)
(* written from spec section 4.C, both fed the same bytes and the same    *)
(* script boundaries.  Where the spec is silent on an opcode's encoding   *)
(* (the bytes DEPTH, SIZE and EQUAL push, how PICK and ROLL read n, what  *)
(* the hashes give) the reference takes execute_opcode's arm; the stack   *)
(* shuffles it takes from the table below, PICK and ROLL's movement of    *)
(* the item n deep from the spec's wording, the bounds, the op count and  *)
(* the script sequence from the spec:                                      *)
(*   - a script holds at most MAX_SCRIPT_SIZE bytes;                       *)
(*   - op_count counts non-push opcodes only, at most MAX_SCRIPT_OPS;      *)
(*   - the stack may never exceed MAX_STACK_SIZE, a structural error;     *)
(*   - script_pubkey runs on the residue of script_sig, the witness last, *)
(*     and only the final stack must be exactly one true item.            *)
(***************************************************************************)
EXTENDS ScriptVM, TLC

CONSTANT MAX_SCRIPT_SIZE  \* constants.rs MAX_SCRIPT_SIZE (scaled, >= MAX_SCRIPT_OPS)

VARIABLES
  refPhase,   \* the script the reference is running
  refStack,   \* its stack
  refOps,     \* its count of non-push opcodes in the running script
  refSize,    \* the bytes of the running script read so far
  refStatus   \* "running", "true", "false", "error"

refVars == <<refPhase, refStack, refOps, refSize, refStatus>>
allVars == <<vars, refVars>>

(* The stack shuffles by their effect on the top `need` items x1..xneed    *)
(* (xneed on top): the items that replace them, by index.                  *)
ShuffleTable ==
  118 :> [need |-> 1, out |-> <<1, 1>>]                    \* DUP
  @@ 117 :> [need |-> 1, out |-> <<>>]                     \* DROP
  @@ 119 :> [need |-> 2, out |-> <<2>>]                    \* NIP
  @@ 120 :> [need |-> 2, out |-> <<1, 2, 1>>]              \* OVER
  @@ 123 :> [need |-> 3, out |-> <<2, 3, 1>>]              \* ROT
  @@ 124 :> [need |-> 2, out |-> <<2, 1>>]                 \* SWAP
  @@ 125 :> [need |-> 2, out |-> <<2, 1, 2>>]              \* TUCK
  @@ 109 :> [need |-> 2, out |-> <<>>]                     \* 2DROP
  @@ 110 :> [need |-> 2, out |-> <<1, 2, 1, 2>>]           \* 2DUP
  @@ 111 :> [need |-> 3, out |-> <<1, 2, 3, 1, 2, 3>>]     \* 3DUP
  @@ 112 :> [need |-> 4, out |-> <<1, 2, 3, 4, 1, 2>>]     \* 2OVER
  @@ 113 :> [need |-> 6, out |-> <<3, 4, 5, 6, 1, 2>>]     \* 2ROT
  @@ 114 :> [need |-> 4, out |-> <<3, 4, 1, 2>>]           \* 2SWAP

SeqExt == INSTANCE SequencesExt

(* PICK (copy) and ROLL (move): n is popped and read as execute_opcode     *)
(* reads it; then the stack must hold the item n below its top, which is  *)
(* brought to the top.                                                      *)
RefPickRoll(roll, s) ==
  IF s = <<>> THEN Fail(s)
  ELSE LET r == SubSeq(s, 1, Len(s) - 1)
           i == Len(r) - FirstByte(s[Len(s)])
       IN IF ItemLen(s[Len(s)]) = 0 \/ i < 1 THEN Fail(r)
          ELSE Ok(Append(IF roll THEN SeqExt!RemoveAt(r, i) ELSE r, r[i]))

RefOpcode(op, s) ==
  IF op \in DOMAIN ShuffleTable
  THEN LET t == ShuffleTable[op]
           base == Len(s) - t.need
       IN IF Len(s) < t.need THEN Fail(s)
          ELSE Ok(SubSeq(s, 1, base) \o [i \in DOMAIN t.out |-> s[base + t.out[i]]])
  ELSE IF op \in {121, 122} THEN RefPickRoll(op = 122, s)
  ELSE ExecuteOpcode(op, s)

IsPush(op) == op = 0 \/ op \in 81..96

RefInit ==
  /\ refPhase = "sig"
  /\ refStack = <<>>
  /\ refOps = 0
  /\ refSize = 0
  /\ refStatus = "running"

(* Spec 4.C/4.D: CHECKSIG and CHECKSIGVERIFY pop two items and compute     *)
(* the signing hash, which fails when the context's input index or         *)
(* prevouts do not fit the transaction.                                    *)
RefSighashFails(op, s) == op \in {172, 173} /\ Len(s) >= 2 /\ context' = "err"

RefExecute(op) ==
  LET ops == refOps + (IF IsPush(op) THEN 0 ELSE 1)
      r   == RefOpcode(op, refStack)
      limit == refSize + 1 > MAX_SCRIPT_SIZE \/ ops > MAX_SCRIPT_OPS
  IN /\ refOps' = ops
     /\ refSize' = refSize + 1
     /\ refStack' = IF limit THEN refStack ELSE r.stack
     /\ refStatus' = CASE limit                          -> "error"
                       [] RefSighashFails(op, refStack)   -> "error"
                       [] ~r.ok                           -> "false"
                       [] Len(r.stack) > MAX_STACK_SIZE   -> "error"
                       [] OTHER                           -> "running"
     /\ UNCHANGED refPhase

RefEnd ==
  /\ IF NextPhase(refPhase, hasWitness) = {}
     THEN /\ refStatus' = IF FinalStackOK(refStack) THEN "true" ELSE "false"
          /\ UNCHANGED refPhase
     ELSE refPhase' \in NextPhase(refPhase, hasWitness) /\ UNCHANGED refStatus
  /\ refOps' = 0
  /\ refSize' = 0
  /\ UNCHANGED refStack

CInit == Init /\ RefInit

\* The next byte of the running script, executed by each machine still running.
Read(op) ==
  /\ status = "running" \/ refStatus = "running"
  /\ IF status = "running" THEN LimitExceeded \/ Execute(op) \/ ExecuteWithContext(op)
     ELSE UNCHANGED vars
  /\ IF refStatus = "running" THEN RefExecute(op) ELSE UNCHANGED refVars

\* The running script ends, for each machine still running.
End ==
  /\ status = "running" \/ refStatus = "running"
  /\ IF status = "running" THEN EndScript ELSE UNCHANGED vars
  /\ IF refStatus = "running" THEN RefEnd ELSE UNCHANGED refVars

CNext == (\E op \in Opcodes : Read(op)) \/ End

CSpec == CInit /\ [][CNext]_allVars

\* The states where the interpreter still runs (what StacksAgree is about).
InterpreterRunning == status = "running"

\* Type invariant of the reference machine.
RefTypeOK ==
  /\ refPhase \in {"sig", "pubkey", "witness"}
  /\ Len(refStack) <= MAX_STACK_SIZE + 3
  /\ refOps \in 0..MAX_SCRIPT_OPS + 1
  /\ refSize \in 0..MAX_SCRIPT_SIZE + 1
  /\ refStatus \in {"running", "true", "false", "error"}

(* While the interpreter and the reference both run, they hold the same    *)
(* stack: every opcode execute_opcode accepts moves the items as the      *)
(* reference does, on every stack a script can build.                      *)
StacksAgree ==
  status = "running" /\ refStatus = "running" => stack = refStack

(* The Err of eval_script's op or stack bound, which stops with op_count  *)
(* past MAX_SCRIPT_OPS or the stack past MAX_STACK_SIZE.  It differs from *)
(* the spec by design (pushes are counted, the stack is tested before the *)
(* opcode): ResultAgrees judges it.                                        *)
LimitErr == opCount > MAX_SCRIPT_OPS \/ Len(stack) > MAX_STACK_SIZE

ResultAgrees ==
  status # "running" /\ refStatus # "running" => status = refStatus

=============================================================================
