------------------------------ MODULE ScriptVM ------------------------------
(***************************************************************************)
(* The script interpreter of src/src/script.rs: execute_opcode, the loop   *)
(* of eval_script and the three-script sequence of verify_script (the     *)
(* build without the "production" feature; the caches of that build are   *)
(* in ScriptCache).                                                        *)
(*                                                                         *)
(* A script is read one byte at a time: each step executes the next opcode *)
(* the environment supplies, or ends the current script.  So the model    *)
(* runs every script of every length, and its state is the code's own     *)
(* (the stack, op_count, which script is running, the outcome).           *)
(*                                                                         *)
(* Stack items.  No opcode pushes data from the script (0x01..0x4e are    *)
(* unknown opcodes here), so an item is either a byte string of length 0  *)
(* or 1 made by the VM, or the digest of an item.  A digest is kept as    *)
(* the record of the hash and its input: equal digests have equal inputs. *)
(* Its first byte is the constant DigestLead.                              *)
(***************************************************************************)
EXTENDS Integers, Sequences

CONSTANTS
  MAX_STACK_SIZE,  \* constants.rs MAX_STACK_SIZE (scaled)
  MAX_SCRIPT_OPS,  \* constants.rs MAX_SCRIPT_OPS (scaled)
  Opcodes,         \* the bytes a script may contain
  DigestLead       \* the first byte of every digest, in 1..255

VARIABLES
  phase,       \* the script being run: "sig", "pubkey" or "witness"
  hasWitness,  \* verify_script's witness argument is Some
  stack,       \* the stack, top at the end (a Vec)
  opCount,     \* eval_script's op_count for the running script
  status,      \* "running", or verify_script's outcome "true", "false", "error"
  context      \* what the call's CHECKSIGs do: one of CallContexts

vars == <<phase, hasWitness, stack, opCount, status, context>>

(* Which call runs.  verify_script, and verify_script_with_context whose  *)
(* (tx, input_index, prevouts) let calculate_transaction_sighash return   *)
(* Ok, run the same loop and leave the same stacks: verify_signature      *)
(* fails before it reads the hash.  A context whose sighash returns Err   *)
(* (input_index >= |inputs|, or |prevouts| # |inputs|) differs from them  *)
(* first at a CHECKSIG or CHECKSIGVERIFY with two items.  So the kind of  *)
(* call is left open ("any") until that opcode fixes it: "computable"     *)
(* (every sighash of the call is Ok) or "err".                            *)
CallContexts == {"any", "computable", "err"}

Data(b) == [tag |-> "data", bytes |-> b]
Digest(kind, x) == [tag |-> kind, of |-> x]

ItemLen(x) == CASE x.tag = "data" -> Len(x.bytes)
              []   x.tag = "h160" -> 20
              []   OTHER          -> 32

FirstByte(x) == IF x.tag = "data" THEN x.bytes[1] ELSE DigestLead

\* The test of the final stack, OP_VERIFY and OP_IFDUP: !item.is_empty() && item[0] != 0.
Truthy(x) == ItemLen(x) > 0 /\ FirstByte(x) # 0

Top(s, i) == s[Len(s) - i]                 \* i = 0 is the top
Popped(s, n) == SubSeq(s, 1, Len(s) - n)
Ok(s) == [ok |-> TRUE, stack |-> s]
Fail(s) == [ok |-> FALSE, stack |-> s]      \* Ok(false), the stack as left

(* verify_signature: PublicKey::from_slice accepts 33 or 65 bytes only,    *)
(* and no item of those lengths can be on the stack, so it returns false  *)
(* before the signature or the hash is looked at.                          *)
VerifySignature(pubkey, sig) == ItemLen(pubkey) \in {33, 65} /\ FALSE

(***************************************************************************)
(* execute_opcode, arm by arm                                              *)
(***************************************************************************)

\* A stack-shape opcode needing `need` items: Fail(s) below that, else its effect.
Needs(s, need, effect) == IF Len(s) >= need THEN Ok(effect) ELSE Fail(s)

OpPush(op, s) == Ok(Append(s, Data(IF op = 0 THEN <<>> ELSE <<op - 80>>)))
OpDup(s)   == Needs(s, 1, Append(s, Top(s, 0)))
OpHash(kind, s) ==
  IF s = <<>> THEN Fail(s) ELSE Ok(Append(Popped(s, 1), Digest(kind, Top(s, 0))))
OpEqual(s) ==
  Needs(s, 2, Append(Popped(s, 2), Data(IF Top(s, 0) = Top(s, 1) THEN <<1>> ELSE <<0>>)))
OpEqualVerify(s) ==
  IF Len(s) < 2 THEN Fail(s)
  ELSE [ok |-> Top(s, 0) = Top(s, 1), stack |-> Popped(s, 2)]
OpCheckSig(s) ==
  Needs(s, 2, Append(Popped(s, 2),
                     Data(IF VerifySignature(Top(s, 0), Top(s, 1)) THEN <<1>> ELSE <<0>>)))
OpCheckSigVerify(s) ==
  IF Len(s) < 2 THEN Fail(s)
  ELSE [ok |-> VerifySignature(Top(s, 0), Top(s, 1)), stack |-> Popped(s, 2)]
OpVerify(s) ==
  IF s = <<>> THEN Fail(s) ELSE [ok |-> Truthy(Top(s, 0)), stack |-> Popped(s, 1)]
OpIfDup(s) ==
  Needs(s, 1, IF Truthy(Top(s, 0)) THEN Append(s, Top(s, 0)) ELSE s)
OpDepth(s) == Ok(Append(s, Data(<<Len(s) % 256>>)))       \* stack.len() as u8
OpDrop(s)  == Needs(s, 1, Popped(s, 1))
OpNip(s)   == Needs(s, 2, Append(Popped(s, 2), Top(s, 0)))
OpOver(s)  == Needs(s, 2, Append(s, Top(s, 1)))

(* OP_PICK and OP_ROLL: pop n_bytes; Fail if empty; n = n_bytes[0];        *)
(* n < len copies (PICK) or moves (ROLL) the item n below the top.         *)
OpPickRoll(roll, s) ==
  IF s = <<>> THEN Fail(s)
  ELSE LET r == Popped(s, 1)
           nb == Top(s, 0)
       IN IF ItemLen(nb) = 0 THEN Fail(r)
          ELSE LET n == FirstByte(nb)
               IN IF n >= Len(r) THEN Fail(r)
                  ELSE IF roll
                       THEN Ok(Append(SubSeq(r, 1, Len(r) - n - 1) \o SubSeq(r, Len(r) - n + 1, Len(r)),
                                      Top(r, n)))
                       ELSE Ok(Append(r, Top(r, n)))

\* Mutant: OP_ROT bringing the second item up instead of the third.
OpRotSwapped(s) == Needs(s, 3, Popped(s, 3) \o <<Top(s, 2), Top(s, 0), Top(s, 1)>>)

OpRot(s)   == Needs(s, 3, Popped(s, 3) \o <<Top(s, 1), Top(s, 0), Top(s, 2)>>)
OpSwap(s)  == Needs(s, 2, Popped(s, 2) \o <<Top(s, 0), Top(s, 1)>>)
OpTuck(s)  == Needs(s, 2, Popped(s, 2) \o <<Top(s, 0), Top(s, 1), Top(s, 0)>>)
Op2Drop(s) == Needs(s, 2, Popped(s, 2))
Op2Dup(s)  == Needs(s, 2, s \o <<Top(s, 1), Top(s, 0)>>)
Op3Dup(s)  == Needs(s, 3, s \o <<Top(s, 2), Top(s, 1), Top(s, 0)>>)
Op2Over(s) == Needs(s, 4, s \o <<Top(s, 3), Top(s, 2)>>)

(* OP_2ROT: remove(len - 6), then remove(len - 5) of the shortened stack,  *)
(* which is the item that was at len - 5; push them in that order.  So     *)
(* x1 x2 x3 x4 x5 x6 becomes x3 x4 x5 x6 x2 x1.                            *)
Op2Rot(s) ==
  Needs(s, 6, Popped(s, 6) \o <<Top(s, 3), Top(s, 2), Top(s, 1), Top(s, 0), Top(s, 4), Top(s, 5)>>)

Op2Swap(s) == Needs(s, 4, Popped(s, 4) \o <<Top(s, 1), Top(s, 0), Top(s, 3), Top(s, 2)>>)
OpSize(s)  == Needs(s, 1, Append(s, Data(<<ItemLen(Top(s, 0)) % 256>>)))  \* len() as u8

ExecuteOpcode(op, s) ==
  CASE op = 0 \/ op \in 81..96 -> OpPush(op, s)
    [] op = 118 -> OpDup(s)
    [] op = 169 -> OpHash("h160", s)
    [] op = 170 -> OpHash("h256", s)
    [] op = 135 -> OpEqual(s)
    [] op = 136 -> OpEqualVerify(s)
    [] op = 172 -> OpCheckSig(s)
    [] op = 173 -> OpCheckSigVerify(s)
    [] op = 106 -> Fail(s)                         \* OP_RETURN
    [] op = 105 -> OpVerify(s)
    [] op = 115 -> OpIfDup(s)
    [] op = 116 -> OpDepth(s)
    [] op = 117 -> OpDrop(s)
    [] op = 119 -> OpNip(s)
    [] op = 120 -> OpOver(s)
    [] op = 121 -> OpPickRoll(FALSE, s)
    [] op = 122 -> OpPickRoll(TRUE, s)
    [] op = 123 -> OpRot(s)
    [] op = 124 -> OpSwap(s)
    [] op = 125 -> OpTuck(s)
    [] op = 109 -> Op2Drop(s)
    [] op = 110 -> Op2Dup(s)
    [] op = 111 -> Op3Dup(s)
    [] op = 112 -> Op2Over(s)
    [] op = 113 -> Op2Rot(s)
    [] op = 114 -> Op2Swap(s)
    [] op = 130 -> OpSize(s)
    [] OTHER    -> Fail(s)                         \* unknown opcode

(***************************************************************************)
(* execute_opcode_with_context                                             *)
(***************************************************************************)

\* A result of execute_opcode, which never returns Err, as one that may.
NoErr(r) == [ok |-> r.ok, err |-> FALSE, stack |-> r.stack]

ExecuteOpcodeWithContext(op, s, fails) ==
  LET valid == VerifySignature(Top(s, 0), Top(s, 1))
  IN CASE op \notin {172, 173} -> NoErr(ExecuteOpcode(op, s))
       [] Len(s) < 2          -> NoErr(Fail(s))
       [] fails               -> [ok |-> FALSE, err |-> TRUE, stack |-> Popped(s, 2)]
       [] op = 172 -> NoErr(Ok(Append(Popped(s, 2), Data(IF valid THEN <<1>> ELSE <<0>>))))
       [] OTHER    -> NoErr([ok |-> valid, stack |-> Popped(s, 2)])

(***************************************************************************)
(* eval_script and verify_script                                           *)
(***************************************************************************)

\* eval_script's final test, repeated by verify_script at the end.
FinalStackOK(s) == Len(s) = 1 /\ Truthy(s[1])

\* The script that runs after `phase`, if any.
NextPhase(p, witness) ==
  IF p = "sig" THEN {"pubkey"} ELSE IF p = "pubkey" /\ witness THEN {"witness"} ELSE {}

\* eval_script is entered with `let mut op_count = 0` (the capacity reserve is not modelled).
OpCountAtEntry == 0

Init ==
  /\ context = "any"
  /\ phase = "sig"
  /\ hasWitness \in BOOLEAN
  /\ stack = <<>>
  /\ opCount = OpCountAtEntry
  /\ status = "running"

(* One turn of eval_script's loop that stops at a bound: op_count += 1,    *)
(* then Err if it exceeds MAX_SCRIPT_OPS or if the stack (before the      *)
(* opcode) holds more than MAX_STACK_SIZE items.  verify_script passes    *)
(* the Err on with `?`.                                                    *)
LimitExceeded ==
  /\ status = "running"
  /\ opCount + 1 > MAX_SCRIPT_OPS \/ Len(stack) > MAX_STACK_SIZE
  /\ opCount' = opCount + 1
  /\ status' = "error"
  /\ UNCHANGED <<phase, hasWitness, stack, context>>

\* Mutant: the op_count bound tested before the increment.
ExecuteCountBefore(op) ==
  /\ status = "running"
  /\ opCount <= MAX_SCRIPT_OPS /\ Len(stack) <= MAX_STACK_SIZE
  /\ LET r == ExecuteOpcode(op, stack)
     IN /\ stack' = r.stack
        /\ status' = IF r.ok THEN "running" ELSE "false"
  /\ opCount' = opCount + 1
  /\ context' = IF op \in {172, 173} /\ Len(stack) >= 2 THEN "computable" ELSE context
  /\ UNCHANGED <<phase, hasWitness>>

(* One turn of eval_script's loop within the bounds: execute_opcode; an    *)
(* Ok(false) ends eval_script and verify_script with false.  For a byte   *)
(* other than 0xac and 0xad execute_opcode_with_context is execute_opcode, *)
(* so this is also that turn of eval_script_with_context's loop.  A        *)
(* CHECKSIG that pops two items here (a dummy hash) makes the call one    *)
(* whose CHECKSIGs never fail for want of a sighash.                       *)
Execute(op) ==
  /\ status = "running"
  /\ opCount + 1 <= MAX_SCRIPT_OPS /\ Len(stack) <= MAX_STACK_SIZE
  /\ LET r == ExecuteOpcode(op, stack)
     IN /\ stack' = r.stack
        /\ status' = IF r.ok THEN "running" ELSE "false"
  /\ opCount' = opCount + 1
  /\ context' = IF op \in {172, 173} /\ Len(stack) >= 2 THEN "computable" ELSE context
  /\ UNCHANGED <<phase, hasWitness>>

\* The outcomes calculate_transaction_sighash may still have in this call.
SighashMayFail ==
  CASE context = "any" -> BOOLEAN [] context = "computable" -> {FALSE} [] OTHER -> {TRUE}

(* A turn of eval_script_with_context's loop on 0xac or 0xad within the   *)
(* bounds: execute_opcode_with_context; its Err leaves                     *)
(* verify_script_with_context through `?`, an Ok(false) ends it with       *)
(* false.  A sighash computed fixes the kind of call.                      *)
ExecuteWithContext(op) ==
  /\ status = "running" /\ op \in {172, 173}
  /\ opCount + 1 <= MAX_SCRIPT_OPS /\ Len(stack) <= MAX_STACK_SIZE
  /\ \E fails \in SighashMayFail :
       LET r == ExecuteOpcodeWithContext(op, stack, fails)
       IN /\ stack' = r.stack
          /\ status' = CASE r.err -> "error" [] r.ok -> "running" [] OTHER -> "false"
          /\ context' = CASE Len(stack) < 2 -> context
                          [] fails         -> "err"
                          [] OTHER         -> "computable"
  /\ opCount' = opCount + 1
  /\ UNCHANGED <<phase, hasWitness>>

(* The script ends: eval_script returns its final test.  False ends       *)
(* verify_script; true starts the next script on the same stack, or, after *)
(* the last one, verify_script returns the same test again (true).         *)
(* verify_script_with_context runs the same sequence.                      *)
EndScript ==
  /\ status = "running"
  /\ IF ~FinalStackOK(stack) THEN status' = "false" /\ UNCHANGED phase
     ELSE IF NextPhase(phase, hasWitness) = {} THEN status' = "true" /\ UNCHANGED phase
     ELSE phase' \in NextPhase(phase, hasWitness) /\ UNCHANGED status
  /\ opCount' = OpCountAtEntry
  /\ UNCHANGED <<hasWitness, stack, context>>

Next ==
  \/ LimitExceeded
  \/ \E op \in Opcodes : Execute(op) \/ ExecuteWithContext(op)
  \/ EndScript

Spec == Init /\ [][Next]_vars

(* Type invariant.  The stack is checked before an opcode, and the widest  *)
(* opcode (OP_3DUP) adds three items, so it never holds more than          *)
(* MAX_STACK_SIZE + 3.                                                      *)
TypeOK ==
  /\ phase \in {"sig", "pubkey", "witness"}
  /\ hasWitness \in BOOLEAN
  /\ \A i \in DOMAIN stack : stack[i].tag \in {"data", "h160", "h256"}
  /\ Len(stack) <= MAX_STACK_SIZE + 3
  /\ opCount \in 0..MAX_SCRIPT_OPS + 1
  /\ status \in {"running", "true", "false", "error"}
  /\ context \in CallContexts

=============================================================================
