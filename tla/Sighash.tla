------------------------------- MODULE Sighash -------------------------------
(***************************************************************************)
(* The signing hash of src/src/transaction_hash.rs: SighashType::from_byte *)
(* with its BitOr, encode_varint and calculate_transaction_sighash, which *)
(* builds the preimage byte by byte.  Double SHA-256 is taken to be free  *)
(* of collisions, so the digest is the preimage itself.                    *)
(*                                                                         *)
(* The state machine around it is the use a signature is put to: a signer *)
(* signs input i of a transaction with a sighash type byte; afterwards    *)
(* anyone may replace the transaction by another one under which the      *)
(* signature still verifies (the same digest for the same input and      *)
(* type), as a relaying node or an attacker can.                          *)
(***************************************************************************)
EXTENDS Integers, SequencesExt

CONSTANTS
  Txs,         \* the transactions the environment may build (small)
  TypeBytes    \* the sighash type bytes a signer may use

VARIABLES
  tx,        \* the transaction as it now stands
  signedTx,  \* the transaction as the signer signed it
  sig        \* [index, byte, digest] of the signature, NoSig before signing

vars == <<tx, signedTx, sig>>

NoSig == [index |-> 0, byte |-> 0, digest |-> <<>>]

\* v as n little-endian bytes (to_le_bytes of a non-negative value).
RECURSIVE LE(_, _)
LE(v, n) == IF n = 0 THEN <<>> ELSE <<v % 256>> \o LE(v \div 256, n - 1)

\* A hash: 32 bytes, here the id h in the first byte and zeros after.
HashBytes(h) == [k \in 1..32 |-> IF k = 1 THEN h ELSE 0]

(* encode_varint: one byte below 0xfd, else a marker and 2, 4 or 8 LE     *)
(* bytes.  (Values past 2^31 are out of TLC's reach and not met here.)    *)
EncodeVarint(v) ==
  CASE v < 253        -> <<v>>
    [] v <= 65535     -> <<253>> \o LE(v, 2)
    [] OTHER          -> <<254>> \o LE(v, 4)

(***************************************************************************)
(* Sighash types                                                           *)
(***************************************************************************)

\* The enum's discriminants (All = 0x01 .. AnyoneCanPay = 0x80).
TypeValue == [All |-> 1, None |-> 2, Single |-> 3, AnyoneCanPay |-> 128]

(* BitOr: the three (base, AnyoneCanPay) arms return the base, and the     *)
(* catch-all returns self: every arm gives the left operand.               *)
BitOr(self, rhs) == self

(* from_byte: 0x01..0x03 to the base types, 0x81..0x83 to BitOr(base,      *)
(* AnyoneCanPay), anything else Err.                                       *)
FromByte(b) ==
  CASE b = 1   -> [ok |-> TRUE, type |-> "All"]
    [] b = 2   -> [ok |-> TRUE, type |-> "None"]
    [] b = 3   -> [ok |-> TRUE, type |-> "Single"]
    [] b = 129 -> [ok |-> TRUE, type |-> BitOr("All", "AnyoneCanPay")]
    [] b = 130 -> [ok |-> TRUE, type |-> BitOr("None", "AnyoneCanPay")]
    [] b = 131 -> [ok |-> TRUE, type |-> BitOr("Single", "AnyoneCanPay")]
    [] OTHER   -> [ok |-> FALSE, type |-> "All"]

(***************************************************************************)
(* calculate_transaction_sighash                                           *)
(***************************************************************************)

SerializeInput(in) ==
  HashBytes(in.prevout.hash) \o LE(in.prevout.index, 4)
  \o EncodeVarint(Len(in.script_sig)) \o in.script_sig \o LE(in.sequence, 4)

\* The dummy of a skipped input: 32 zero bytes, 4 zero bytes, 0, 4 zero bytes.
BlankInput == [k \in 1..41 |-> 0]

SerializeOutput(out) ==
  LE(out.value, 8) \o EncodeVarint(Len(out.script_pubkey)) \o out.script_pubkey

(* Step 3: input k is serialized iff the type is AnyoneCanPay or k is the  *)
(* signed input; every other input is blanked.                             *)
InputsPart(t, i, ins) ==
  FlattenSeq([k \in DOMAIN ins |->
                IF t = "AnyoneCanPay" \/ k = i THEN SerializeInput(ins[k]) ELSE BlankInput])

\* Mutant: SINGLE serializing the output after the input's index.
OutputsPartNextIndex(t, i, outs) ==
  CASE t = "None"   -> <<>>
    [] t = "Single" -> IF i + 1 <= Len(outs) THEN SerializeOutput(outs[i + 1]) ELSE <<>>
    [] OTHER        -> FlattenSeq([k \in DOMAIN outs |-> SerializeOutput(outs[k])])

(* Step 5: All and the catch-all (AnyoneCanPay) emit every output, None    *)
(* none, Single the output at the input's index if there is one.           *)
OutputsPart(t, i, outs) ==
  CASE t = "None"   -> <<>>
    [] t = "Single" -> IF i <= Len(outs) THEN SerializeOutput(outs[i]) ELSE <<>>
    [] OTHER        -> FlattenSeq([k \in DOMAIN outs |-> SerializeOutput(outs[k])])

\* Mutant: the input index bound off by one.
CalculateTransactionSighashIndexOffByOne(t0, i, t) ==
  IF i > Len(t0.inputs) + 1 THEN [ok |-> FALSE, digest |-> <<>>]
  ELSE [ok |-> TRUE,
        digest |-> LE(t0.version, 4)
                   \o EncodeVarint(Len(t0.inputs)) \o InputsPart(t, i, t0.inputs)
                   \o EncodeVarint(Len(t0.outputs)) \o OutputsPart(t, i, t0.outputs)
                   \o LE(t0.lock_time, 4) \o LE(TypeValue[t], 4)]

(* The preimage for input i (1-based here, input_index = i - 1) and type   *)
(* t; ok = FALSE for the InvalidInputIndex error.  prevouts is built      *)
(* from the inputs, so the InvalidPrevoutsCount check always passes.      *)
CalculateTransactionSighash(t0, i, t) ==
  IF i > Len(t0.inputs) THEN [ok |-> FALSE, digest |-> <<>>]
  ELSE [ok |-> TRUE,
        digest |-> LE(t0.version, 4)
                   \o EncodeVarint(Len(t0.inputs)) \o InputsPart(t, i, t0.inputs)
                   \o EncodeVarint(Len(t0.outputs)) \o OutputsPart(t, i, t0.outputs)
                   \o LE(t0.lock_time, 4) \o LE(TypeValue[t], 4)]

\* The digest a signature of input i with type byte b commits to, if any.
SighashFor(t0, i, b) ==
  LET p == FromByte(b)
      r == CalculateTransactionSighash(t0, i, p.type)
  IN IF p.ok /\ r.ok THEN [ok |-> TRUE, digest |-> r.digest] ELSE [ok |-> FALSE, digest |-> <<>>]

(***************************************************************************)
(* The specification                                                       *)
(***************************************************************************)

Init ==
  /\ tx \in Txs
  /\ signedTx = tx
  /\ sig = NoSig

\* The signer signs input i of the transaction with type byte b.
Sign(i, b) ==
  LET r == SighashFor(tx, i, b)
  IN /\ sig = NoSig
     /\ r.ok
     /\ sig' = [index |-> i, byte |-> b, digest |-> r.digest]
     /\ signedTx' = tx
     /\ UNCHANGED tx

\* The transaction is replaced by one the signature still verifies against.
Replace(t2) ==
  LET r == SighashFor(t2, sig.index, sig.byte)
  IN /\ sig # NoSig
     /\ r.ok /\ r.digest = sig.digest
     /\ tx' = t2
     /\ UNCHANGED <<signedTx, sig>>

Next ==
  \/ \E i \in 1..2, b \in TypeBytes : Sign(i, b)
  \/ \E t2 \in Txs : Replace(t2)

Spec == Init /\ [][Next]_vars

(***************************************************************************)
(* Properties                                                              *)
(***************************************************************************)

TypeOK ==
  /\ tx \in Txs /\ signedTx \in Txs
  /\ sig = NoSig \/ (sig.index \in 1..Len(signedTx.inputs) /\ sig.byte \in TypeBytes)

(* What spec 4.C says a signature of input i with type byte b covers:      *)
(* version, lock_time, the type, the number of inputs and outputs; every  *)
(* input unless ANYONECANPAY (0x80) is set, then only input i; all, none  *)
(* or the i-th output for ALL, NONE, SINGLE.                               *)
Covered(t0, i, b) ==
  LET base == b % 128
      acp  == b >= 128
  IN [version |-> t0.version, lock_time |-> t0.lock_time, byte |-> b,
      nin |-> Len(t0.inputs), nout |-> Len(t0.outputs),
      inputs |-> IF acp THEN <<t0.inputs[i]>> ELSE t0.inputs,
      outputs |-> CASE base = 2 -> <<>>
                    [] base = 3 -> IF i <= Len(t0.outputs) THEN <<t0.outputs[i]>> ELSE <<>>
                    [] OTHER    -> t0.outputs]

(* A signature binds what the spec says it covers: any transaction it      *)
(* still verifies against agrees with the signed one on those parts.  A   *)
(* SIGHASH_ALL signature on one input must fix every other input's       *)
(* prevout, or the coins a signer agreed to spend can be swapped.         *)
SignatureBindsCovered ==
  sig # NoSig => Covered(tx, sig.index, sig.byte) = Covered(signedTx, sig.index, sig.byte)

=============================================================================
