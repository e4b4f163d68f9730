--------------------------- MODULE AbstractSync ---------------------------
(***************************************************************************)
(* What an initial sync promises (spec 4.J), with no peers in it: a call  *)
(* runs, then either fails or returns the UTXO commitment of the honest   *)
(* chain at a height of the local header chain, whose block hash is the  *)
(* local header's; and it does not run forever.                           *)
(*                                                                         *)
(* A commitment is a record of its root ("true" for the honest UTXO set   *)
(* at that height), its block hash and its height.  A header's hash is    *)
(* its height, as in InitialSync: the local chain has no collisions.     *)
(***************************************************************************)
EXTENDS Integers

CONSTANT HeaderLens   \* the lengths the local header chain may have

VARIABLES
  headerLen,  \* the local header chain's length
  phase,      \* "running", "done" or "failed"
  result      \* the commitment returned

avars == <<headerLen, phase, result>>

NoCommitment == [root |-> "none", block_hash |-> -1, height |-> -1]

\* The honest commitments a chain of `len` headers can confirm.
HonestCommitments(len) ==
  {[root |-> "true", block_hash |-> h, height |-> h] : h \in 0..len - 1}

Init ==
  /\ headerLen \in HeaderLens
  /\ phase = "running"
  /\ result = NoCommitment

Fail ==
  /\ phase = "running"
  /\ phase' = "failed"
  /\ UNCHANGED <<headerLen, result>>

Succeed ==
  /\ phase = "running"
  /\ phase' = "done"
  /\ result' \in HonestCommitments(headerLen)
  /\ UNCHANGED headerLen

Next == Fail \/ Succeed

\* A running sync eventually ends.
Spec == Init /\ [][Next]_avars /\ WF_avars(Next)

=============================================================================
