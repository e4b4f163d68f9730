--------------------------- MODULE Reorganization ---------------------------
(***************************************************************************)
(* Chain reorganization as src/src/reorganization.rs performs it, on top   *)
(* of the ledger of UtxoLedger: besides connecting a block on the tip, the *)
(* block source may offer a branch that forks off the active chain at some *)
(* height k.  The node asks should_reorganize(branch, current) with        *)
(* current the blocks above k, and if it says yes runs reorganize_chain,  *)
(* adopting the result when it is Ok.                                      *)
(*                                                                         *)
(* The work of a header is computed at a width of WORK_BITS bits in place  *)
(* of u128; the additions of calculate_chain_work wrap at that width as    *)
(* they do in a release build (a debug build panics instead).              *)
(***************************************************************************)
EXTENDS UtxoLedger

CONSTANTS
  WORK_BITS,   \* the width of calculate_chain_work's u128 (scaled)
  MaxBranch    \* the longest branch the block source offers

ASSUME WORK_BITS \in Nat \ {0} /\ MaxBranch \in Nat \ {0}

WORK_MAX == 2 ^ WORK_BITS - 1   \* u128::MAX at the scaled width

(* calculate_tx_id: a "hash" made of the low bytes of version, input      *)
(* count, output count and lock_time, the other 28 bytes zero.  It is not *)
(* the txid connect_block keys outputs by.                                 *)
CalculateTxId(tx) ==
  [bytes |-> <<tx.version % 256, Len(tx.inputs) % 256, Len(tx.outputs) % 256,
               tx.lock_time % 256>>]

(* disconnect_block: remove the outpoints (calculate_tx_id(tx), i) of      *)
(* every output of every transaction; the loop meant to restore the spent *)
(* inputs has an empty body.                                               *)
DisconnectBlock(block, us) ==
  LET removed == UNION {{[hash |-> CalculateTxId(block.txs[t]), index |-> i - 1]
                         : i \in DOMAIN block.txs[t].outputs}
                        : t \in DOMAIN block.txs}
  IN Restrict(us, DOMAIN us \ removed)

\* The loop of reorganize_chain over current_chain from its last block down.
RECURSIVE DisconnectChain(_, _)
DisconnectChain(chain, us) ==
  IF chain = <<>> THEN us
  ELSE DisconnectChain(SubSeq(chain, 1, Len(chain) - 1),
                       DisconnectBlock(chain[Len(chain)], us))

(* ReorganizationResult: of its fields the node reads new_utxo_set and    *)
(* new_height; common_ancestor, the two block lists and the depth are not *)
(* read by any caller.                                                     *)
ReorganizationResult(us, h) == [ok |-> TRUE, utxo |-> us, height |-> h]

(* The connect loop of reorganize_chain: new_height += 1, connect_block at *)
(* new_height, and Err at the first block that is not Valid.              *)
RECURSIVE ConnectChain(_, _, _)
ConnectChain(chain, us, h) ==
  IF chain = <<>> THEN ReorganizationResult(us, h)
  ELSE LET r == ConnectBlockResult(Head(chain), us, h + 1)
       IN IF r.ok THEN ConnectChain(Tail(chain), r.utxo, h + 1)
          ELSE [ok |-> FALSE, utxo |-> us, height |-> h]

(* find_common_ancestor: Err when either chain is empty, otherwise the     *)
(* header of current_chain[0] whatever the chains hold.                    *)
FindCommonAncestorOK(newChain, currentChain) ==
  newChain # <<>> /\ currentChain # <<>>

(* reorganize_chain(new_chain, current_chain, utxo, current_height):       *)
(* disconnect every block of current_chain in reverse, then connect the   *)
(* new chain from new_height = current_height - len(current_chain) + 1.    *)
(* Any Err aborts the whole call (ok = FALSE).                             *)
ReorganizeChain(newChain, currentChain, us, currentHeight) ==
  IF ~FindCommonAncestorOK(newChain, currentChain)
  THEN [ok |-> FALSE, utxo |-> us, height |-> currentHeight]
  ELSE ConnectChain(newChain, DisconnectChain(currentChain, us),
                    currentHeight - Len(currentChain) + 1)

(* expand_target: the compact bits to a target.  An exponent of 3 or less  *)
(* shifts the mantissa right; a larger one shifts it left, and Err when    *)
(* the shift reaches 104 bits.  The shift 8 * (exponent - 3) is u8         *)
(* arithmetic: from exponent 35 on it wraps (a release build; a debug      *)
(* build panics), so exponents 35..47 shift by 0..96 and are not Err.      *)
ExpandTarget(bits) ==
  LET exponent == (bits \div 2 ^ 24) % 256
      mantissa == bits % 2 ^ 24
      shift    == (8 * (exponent - 3)) % 256
  IN IF exponent <= 3
     THEN [ok |-> TRUE, target |-> mantissa \div 2 ^ (8 * (3 - exponent))]
     ELSE IF shift >= 104 THEN [ok |-> FALSE, target |-> 0]
     ELSE [ok |-> TRUE, target |-> mantissa * 2 ^ shift]

(* calculate_chain_work: total_work += u128::MAX / target for each block   *)
(* with a positive target, wrapping at the width; Err if a target is Err.  *)
RECURSIVE CalculateChainWork(_)
CalculateChainWork(chain) ==
  IF chain = <<>> THEN [ok |-> TRUE, work |-> 0]
  ELSE LET rest == CalculateChainWork(Tail(chain))
           t    == ExpandTarget(Head(chain).bits)
           w    == IF t.target > 0 THEN WORK_MAX \div t.target ELSE 0
       IN IF ~t.ok \/ ~rest.ok THEN [ok |-> FALSE, work |-> 0]
          ELSE [ok |-> TRUE, work |-> (rest.work + w) % 2 ^ WORK_BITS]

(* should_reorganize: yes if the new chain is longer; if equally long,     *)
(* yes iff its work is greater.  An Err from the work is taken as no.      *)
ShouldReorganize(newChain, currentChain) ==
  \/ Len(newChain) > Len(currentChain)
  \/ /\ Len(newChain) = Len(currentChain)
     /\ LET nw == CalculateChainWork(newChain)
            cw == CalculateChainWork(currentChain)
        IN nw.ok /\ cw.ok /\ nw.work > cw.work

(***************************************************************************)
(* The block source's branches                                             *)
(***************************************************************************)

(* The branches of n blocks built on top of chain: each block one the      *)
(* block source could offer on the branch so far, valid or not.            *)
RECURSIVE Branches(_, _)
Branches(chain, n) ==
  IF n = 0 THEN {<<>>}
  ELSE UNION {{<<b>> \o rest : rest \in Branches(Append(chain, b), n - 1)}
              : b \in CandidateBlocks(UtxoOf(chain), Len(chain) + 1)}

(***************************************************************************)
(* The specification                                                       *)
(***************************************************************************)

(* A reorganization to newChain forking above height k: the whole of       *)
(* should_reorganize then reorganize_chain; an Err leaves the state as it  *)
(* was.                                                                    *)
Reorganize(k, newChain) ==
  LET current == SubSeq(blocks, k + 1, Len(blocks))
      r       == ReorganizeChain(newChain, current, utxo, height)
  IN /\ ShouldReorganize(newChain, current)
     /\ r.ok
     /\ utxo' = r.utxo
     /\ height' = r.height
     /\ blocks' = SubSeq(blocks, 1, k) \o newChain

ReorgNext ==
  \/ Next
  \/ \E k \in 0..Len(blocks), n \in 1..MaxBranch :
       \E newChain \in Branches(SubSeq(blocks, 1, k), n) : Reorganize(k, newChain)

ReorgSpec == Init /\ [][ReorgNext]_vars

(***************************************************************************)
(* Properties                                                              *)
(***************************************************************************)

(* Per-header work of spec 4.I, floor(2^128 / (T + 1)), at the width.      *)
HeaderWork(bits) == (2 ^ WORK_BITS) \div (ExpandTarget(bits).target + 1)

ChainWork(chain) == SumFunction([k \in DOMAIN chain |-> HeaderWork(chain[k].bits)])

(* Spec 4.I: the node follows the chain of maximum work, so no step of it  *)
(* (a connect or a reorganization) lowers the work of the active chain.    *)
(* should_reorganize switches to any longer branch whatever its work, and  *)
(* its kani proof claims it does so iff the work is greater.               *)
WorkNeverDecreases == [][ChainWork(blocks') >= ChainWork(blocks)]_vars

=============================================================================
