---------------------------- MODULE InitialSync ----------------------------
(***************************************************************************)
(* InitialSync::execute_initial_sync of                                    *)
(* src/src/utxo_commitments/initial_sync.rs: pick diverse peers, fix the   *)
(* checkpoint from the local header chain, ask every peer for its UTXO    *)
(* commitment at the checkpoint (the one await), then find the consensus  *)
(* commitment and check it against the header chain.                      *)
(*                                                                         *)
(* The peer-consensus helpers (discover_diverse_peers, request_utxo_sets,  *)
(* find_consensus, verify_consensus_commitment) live in peer_consensus.rs, *)
(* which is not in this source tree: they are written from spec 4.J and  *)
(* section 6.  Each peer's request either returns a commitment or times  *)
(* out; Byzantine peers return any commitment they like.  A header hash   *)
(* (compute_block_hash, double SHA-256) is the header's height here: the  *)
(* local chain has no collisions.                                          *)
(***************************************************************************)
EXTENDS Integers, FiniteSets, TLC

CONSTANTS
  Peers,          \* all_peers
  Byzantine,      \* the peers that may answer anything
  Prefix,         \* a peer's network prefix, for the diversity filter
  MIN_PEERS,      \* config.min_peers
  QUORUM,         \* the least number of answers a consensus may rest on
  SAFETY_MARGIN,  \* config.safety_margin
  HeaderLens      \* the lengths the local header chain may have

ASSUME Byzantine \subseteq Peers

Roots == {"true", "forged"}   \* the honest UTXO root at the checkpoint, or not

VARIABLES
  headerLen,   \* header_chain.len()
  phase,       \* "start", "requested", "done", "forward", "synced", "failed"
  checkpoint,  \* checkpoint_height
  pending,     \* the peers whose request has neither answered nor timed out
  answers,     \* peer -> the commitment it returned
  result,      \* the commitment execute_initial_sync returned
  height       \* complete_sync_from_checkpoint's loop variable

vars == <<headerLen, phase, checkpoint, pending, answers, result, height>>

NoCommitment == [root |-> "none", block_hash |-> -1, height |-> -1]

\* compute_block_hash of the local header at height h.
ComputeBlockHash(h) == h

(* discover_diverse_peers (spec 4.J step 1): at most one peer per network  *)
(* prefix.  Which peer of a prefix is kept is not specified: any choice.  *)
DiverseChoices ==
  {S \in SUBSET Peers :
     /\ \A p, q \in S : p # q => Prefix[p] # Prefix[q]
     /\ \A p \in Peers : \E q \in S : Prefix[q] = Prefix[p]}

(* InitialSync::new(config): the ConsensusConfig is kept in the            *)
(* PeerConsensus, and execute_initial_sync reads it there; the spam       *)
(* filter it also builds is not used by the sync.                          *)
config == [min_peers |-> MIN_PEERS, safety_margin |-> SAFETY_MARGIN]

\* Mutant: the tip minus the margin without the `tip > safety_margin` test.
CheckpointHeightNoGuard(len) == len - 1 - config.safety_margin

(* The checkpoint of execute_initial_sync: peer_tips is always empty, so   *)
(* the tip of the header chain minus safety_margin, or 0 when the tip is  *)
(* not above the margin.                                                   *)
CheckpointHeight(len) ==
  LET tip == len - 1
  IN IF tip > config.safety_margin THEN tip - config.safety_margin ELSE 0

\* What a peer may answer for the checkpoint: an honest peer the truth.
Answers(p, cp) ==
  IF p \in Byzantine
  THEN [root : Roots, block_hash : {ComputeBlockHash(cp), cp + 1}, height : {cp}]
  ELSE {[root |-> "true", block_hash |-> ComputeBlockHash(cp), height |-> cp]}

\* Mutant: a consensus with no lower bound on the number of answers.
FindConsensusNoQuorum(ans) ==
  LET n == Cardinality(DOMAIN ans)
      winners == {c \in {ans[p] : p \in DOMAIN ans} :
                    2 * Cardinality({p \in DOMAIN ans : ans[p] = c}) > n}
  IN IF winners # {}
     THEN [ok |-> TRUE, commitment |-> CHOOSE c \in winners : TRUE]
     ELSE [ok |-> FALSE, commitment |-> NoCommitment]

(* find_consensus (spec 4.J step 4): group the answers by identical        *)
(* commitment; the commitment of a group holding more than half of at     *)
(* least QUORUM answers, if there is one.                                  *)
FindConsensus(ans) ==
  LET n == Cardinality(DOMAIN ans)
      winners == {c \in {ans[p] : p \in DOMAIN ans} :
                    2 * Cardinality({p \in DOMAIN ans : ans[p] = c}) > n}
  IN IF n >= QUORUM /\ winners # {}
     THEN [ok |-> TRUE, commitment |-> CHOOSE c \in winners : TRUE]
     ELSE [ok |-> FALSE, commitment |-> NoCommitment]

(* verify_consensus_commitment (spec 4.J step 5): the commitment's block   *)
(* hash is the local header's at its height.                               *)
VerifyConsensusCommitment(c, len) ==
  c.height \in 0..len - 1 /\ c.block_hash = ComputeBlockHash(c.height)

Init ==
  /\ headerLen \in HeaderLens
  /\ phase = "start"
  /\ checkpoint = 0
  /\ pending = {}
  /\ answers = [p \in {} |-> NoCommitment]
  /\ result = NoCommitment
  /\ height = 0

(* execute_initial_sync up to the await: too few diverse peers, an empty   *)
(* header chain, or a checkpoint past its end (never: it is at most the   *)
(* tip) fail; otherwise request_utxo_sets goes out to every diverse peer. *)
Start ==
  /\ phase = "start"
  /\ \E diverse \in DiverseChoices :
       LET cp == CheckpointHeight(headerLen)
       IN IF Cardinality(diverse) < config.min_peers \/ headerLen = 0 \/ cp >= headerLen
          THEN phase' = "failed" /\ UNCHANGED <<checkpoint, pending>>
          ELSE phase' = "requested" /\ checkpoint' = cp /\ pending' = diverse
  /\ UNCHANGED <<headerLen, answers, result, height>>

\* A peer's request completes with a commitment.
Answer(p) ==
  /\ phase = "requested" /\ p \in pending
  /\ \E c \in Answers(p, checkpoint) : answers' = answers @@ (p :> c)
  /\ pending' = pending \ {p}
  /\ UNCHANGED <<headerLen, phase, checkpoint, result, height>>

\* A peer's request times out (or its answer is lost).
TimeOut(p) ==
  /\ phase = "requested" /\ p \in pending
  /\ pending' = pending \ {p}
  /\ UNCHANGED <<headerLen, phase, checkpoint, answers, result, height>>

\* Mutant: a failed consensus or header check that is not returned as an error.
ConcludeSwallowsFailure ==
  /\ phase = "requested" /\ pending = {}
  /\ LET r == FindConsensus(answers)
     IN IF r.ok /\ VerifyConsensusCommitment(r.commitment, headerLen)
        THEN phase' = "done" /\ result' = r.commitment
        ELSE UNCHANGED <<phase, result>>
  /\ UNCHANGED <<headerLen, checkpoint, pending, answers, height>>

(* The await returns: find_consensus, then verify_consensus_commitment;    *)
(* either error fails the sync, else the consensus commitment is returned. *)
Conclude ==
  /\ phase = "requested" /\ pending = {}
  /\ LET r == FindConsensus(answers)
     IN IF r.ok /\ VerifyConsensusCommitment(r.commitment, headerLen)
        THEN phase' = "done" /\ result' = r.commitment
        ELSE phase' = "failed" /\ UNCHANGED result
  /\ UNCHANGED <<headerLen, checkpoint, pending, answers, height>>

(* The node goes on (spec 4.J step 7) with complete_sync_from_checkpoint  *)
(* from the checkpoint to the tip of its header chain: the loop starts at *)
(* checkpoint_height + 1.                                                  *)
CompleteSyncFromCheckpoint ==
  /\ phase = "done"
  /\ phase' = "forward" /\ height' = checkpoint + 1
  /\ UNCHANGED <<headerLen, checkpoint, pending, answers, result>>

(* One turn of the loop `for height in checkpoint_height + 1..=current_tip`: *)
(* its body fetches and applies nothing, so the UTXO tree (and with it the *)
(* commitment the node holds) stays the checkpoint's.                     *)
ForwardStep ==
  /\ phase = "forward" /\ height <= headerLen - 1
  /\ height' = height + 1
  /\ UNCHANGED <<headerLen, phase, checkpoint, pending, answers, result>>

\* The loop is over: Ok(()).
ForwardEnd ==
  /\ phase = "forward" /\ height > headerLen - 1
  /\ phase' = "synced"
  /\ UNCHANGED <<headerLen, checkpoint, pending, answers, result, height>>

Next ==
  \/ Start
  \/ \E p \in Peers : Answer(p) \/ TimeOut(p)
  \/ Conclude
  \/ CompleteSyncFromCheckpoint \/ ForwardStep \/ ForwardEnd

Spec == Init /\ [][Next]_vars

(* The sync is one task: while it is not parked on the await it runs its  *)
(* next synchronous step (Start, Conclude, and the forward loop).  Every request carries a       *)
(* timeout (spec section 6, the peer transport), so a pending request     *)
(* answers or times out: weak fairness of TimeOut(p) says no more, since  *)
(* a timeout stays possible for as long as the request is pending.  An    *)
(* answer is not assumed to come.                                          *)
Fairness ==
  /\ WF_vars(Start)
  /\ WF_vars(Conclude)
  /\ WF_vars(CompleteSyncFromCheckpoint) /\ WF_vars(ForwardStep) /\ WF_vars(ForwardEnd)
  /\ \A p \in Peers : WF_vars(TimeOut(p))

FairSpec == Spec /\ Fairness

(* The sync seen as AbstractSync: it runs until the forward sync returns,  *)
(* and only then is the commitment it rests on the outcome.               *)
Abstract == INSTANCE AbstractSync
  WITH phase  <- CASE phase = "synced" -> "done"
                   [] phase = "failed" -> "failed"
                   [] OTHER            -> "running",
       result <- IF phase = "synced" THEN result ELSE NoCommitment

(***************************************************************************)
(* Properties                                                              *)
(***************************************************************************)

TypeOK ==
  /\ headerLen \in HeaderLens
  /\ phase \in {"start", "requested", "done", "forward", "synced", "failed"}
  /\ height \in Nat
  /\ checkpoint \in Nat
  /\ pending \subseteq Peers
  /\ DOMAIN answers \subseteq Peers
  /\ result \in {NoCommitment} \cup [root : Roots, block_hash : Int, height : Nat]

(* A sync that succeeds returns the honest UTXO root at the checkpoint      *)
(* execute_initial_sync chose, whatever the Byzantine peers answer and     *)
(* whichever requests time out, as long as they are fewer than half of     *)
(* QUORUM.  It rests on find_consensus demanding both a quorum of answers *)
(* and a strict majority: the honest peers that time out shrink the vote  *)
(* the liars must beat.                                                    *)
SyncAcceptsOnlyTrue ==
  phase \in {"done", "forward", "synced"} => result.root = "true" /\ result.height = checkpoint

(* execute_initial_sync implements AbstractSync: every step it takes is a *)
(* step of a sync that returns only the honest commitment of a local      *)
(* header, or fails; and under the timeouts of the requests it always     *)
(* returns, whichever peers answer, lie or stay silent.                    *)
SyncImplementsAbstract == Abstract!Spec

=============================================================================
