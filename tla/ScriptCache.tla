----------------------------- MODULE ScriptCache -----------------------------
(***************************************************************************)
(* The script-result cache of verify_script in the "production" build     *)
(* (src/src/script.rs): a process-wide LRU map from a u64 key to bool,     *)
(* behind an RwLock, shared by every thread that verifies scripts.  A      *)
(* call takes the read lock and peeks; on a miss it releases the lock,    *)
(* runs the scripts, then takes the write lock and puts the outcome.       *)
(* Between the two locks other threads run, hit, miss, put and evict.      *)
(*                                                                         *)
(* What the scripts evaluate to is not modelled here (ScriptVM does it):   *)
(* the uncached verify_script is any fixed function `eval` from the        *)
(* arguments to "true", "false" or "error" (an Err, which `?` returns      *)
(* uncached).  The key is compute_script_cache_key: DefaultHasher over    *)
(* script_sig, script_pubkey, the witness if any, and flags, i.e. a       *)
(* 64-bit hash Hash64 of that byte stream.                                 *)
(*                                                                         *)
(* Two more pieces of the production build share the threads.  While a   *)
(* thread evaluates, its OP_HASH160 and OP_HASH256 go through a second     *)
(* process-wide LRU (HASH_CACHE, keyed by SHA-256 of the item and the     *)
(* opcode byte, with its own peek-then-put window); and the stack it      *)
(* evaluates on comes from, and goes back to, its thread-local STACK_POOL. *)
(***************************************************************************)
EXTENDS Integers, Sequences, SequencesExt

CONSTANTS
  Threads,     \* the verifying threads
  Sigs,        \* script_sig values
  PubKeys,     \* script_pubkey values
  Witnesses,   \* witness values (None is one of them)
  None,        \* the witness argument None
  Flags,       \* flags values
  Hash64,      \* DefaultHasher::finish of the hashed fields
  CAPACITY,    \* the script cache's capacity (10_000, scaled)
  HashInputs,  \* the items OP_HASH160 and OP_HASH256 may pop
  HASH_CAPACITY, \* the hash cache's capacity (5_000, scaled)
  POOL_LIMIT   \* the most stacks return_pooled_stack keeps (10)

Args == [sig : Sigs, pubkey : PubKeys, witness : Witnesses, flags : Flags]
Outcomes == {"true", "false", "error"}
NoArgs == [sig |-> None, pubkey |-> None, witness |-> None, flags |-> None]

(* The uncached hash of an item: RIPEMD160(SHA256(x)) is 20 bytes,        *)
(* SHA256(SHA256(x)) 32; each is injective, so a digest is its input,     *)
(* its function and its length.                                            *)
Digest(x, op160) == [of |-> x, hash160 |-> op160, len |-> IF op160 THEN 20 ELSE 32]
Digests == {Digest(x, b) : x \in HashInputs, b \in BOOLEAN}
NoHashArg == [item |-> None, op160 |-> FALSE]
NoDigest == [of |-> None, hash160 |-> FALSE, len |-> 0]

\* A stack as the pool sees it: empty, or holding what a script left.
Stacks == {"empty", "residue"}

VARIABLES
  eval,    \* the uncached verify_script: Args -> Outcomes (fixed)
  cache,   \* the LruCache: a sequence of [key, val], most recent last
  pc,      \* thread -> "idle" or "evaluating" (between peek and put)
  arg,     \* thread -> the arguments of its current call
  ret,     \* thread -> what its last call returned, "none" before any
  hcache,  \* the hash cache: a sequence of [key, val], most recent last
  hpc,     \* thread -> "idle" or "hashing" (between the hash peek and put)
  harg,    \* thread -> [item, op160] of its current hash opcode
  hret,    \* thread -> the digest its last hash opcode pushed, or NoDigest
  pool     \* thread -> its STACK_POOL, a sequence of Stacks

vars == <<eval, cache, pc, arg, ret, hcache, hpc, harg, hret, pool>>
hvars == <<hcache, hpc, harg, hret>>

\* Mutant: a key that leaves the witness out.
ComputeScriptCacheKeyNoWitness(a) == Hash64[<<a.sig, a.pubkey, None, a.flags>>]

(* compute_script_cache_key: script_sig, script_pubkey, the witness when   *)
(* Some (nothing for None), flags, fed to one DefaultHasher.               *)
ComputeScriptCacheKey(a) == Hash64[<<a.sig, a.pubkey, a.witness, a.flags>>]

\* The keys an LruCache `c` holds.
LruKeys(c) == {c[i].key : i \in DOMAIN c}

\* LruCache::peek: the value under k, without touching the recency order.
Peek(c, k) == c[CHOOSE i \in DOMAIN c : c[i].key = k].val

\* Mutant: a put that never evicts.
PutNoEvict(c, cap, k, v) ==
  Append(SelectSeq(c, LAMBDA e : e.key # k), [key |-> k, val |-> v])

(* LruCache::put: an existing entry is updated and made most recent; a new *)
(* one is appended, evicting the least recent entry when the cache is full. *)
Put(c, cap, k, v) ==
  LET others == SelectSeq(c, LAMBDA e : e.key # k)
      room   == IF k \notin LruKeys(c) /\ Len(c) = cap THEN Tail(others) ELSE others
  IN Append(room, [key |-> k, val |-> v])

\* Mutant: a hash key of the opcode byte alone, the item left out.
ComputeHashCacheKeyNoInput(x, op160) == <<None, IF op160 THEN 169 ELSE 170>>

(* compute_hash_cache_key: SHA-256 of the item followed by 0xa9 (HASH160) *)
(* or 0xaa (HASH256); SHA-256 is taken to be collision-free.              *)
ComputeHashCacheKey(x, op160) == <<x, IF op160 THEN 169 ELSE 170>>

(* The hash arms' hit: an entry under the key whose length is the one the *)
(* opcode produces (20 for HASH160, 32 for HASH256); any other entry is   *)
(* treated as a miss.                                                      *)
HashHit(k, op160) ==
  k \in LruKeys(hcache) /\ Peek(hcache, k).len = IF op160 THEN 20 ELSE 32

\* Vec::clear: no item is left.
Clear(st) == "empty"

(* get_pooled_stack: the front stack of the pool, cleared, or a new empty  *)
(* one when the pool is empty.                                             *)
GetPooledStack(p) ==
  IF p = <<>> THEN [stack |-> "empty", pool |-> p]
  ELSE [stack |-> Clear(Head(p)), pool |-> Tail(p)]

(* return_pooled_stack: the stack is cleared and kept if the pool holds   *)
(* fewer than POOL_LIMIT stacks, else dropped.                             *)
ReturnPooledStack(p, st) ==
  IF Len(p) < POOL_LIMIT THEN Append(p, Clear(st)) ELSE p

(* SCRIPT_CACHE, made empty by get_script_cache on the first call; Put    *)
(* bounds it at CAPACITY entries.                                          *)
EmptyScriptCache == <<>>

(* HASH_CACHE, made empty by get_hash_cache on the first hash opcode; Put  *)
(* bounds it at HASH_CAPACITY entries.                                     *)
EmptyHashCache == <<>>

\* STACK_POOL: every thread's VecDeque of stacks starts empty.
EmptyPools == [t \in Threads |-> <<>>]

Init ==
  /\ eval \in [Args -> Outcomes]
  /\ cache = EmptyScriptCache
  /\ pc = [t \in Threads |-> "idle"]
  /\ arg = [t \in Threads |-> NoArgs]
  /\ ret = [t \in Threads |-> "none"]
  /\ hcache = EmptyHashCache
  /\ hpc = [t \in Threads |-> "idle"]
  /\ harg = [t \in Threads |-> NoHashArg]
  /\ hret = [t \in Threads |-> NoDigest]
  /\ pool = EmptyPools

(* verify_script is called; under the read lock, peek.  A hit returns     *)
(* Ok(cached_result) at once; a miss goes on to evaluate.                  *)
Call(t, a) ==
  LET k == ComputeScriptCacheKey(a)
  IN /\ pc[t] = "idle"
     /\ arg' = [arg EXCEPT ![t] = a]
     /\ IF k \in LruKeys(cache)
        THEN /\ ret' = [ret EXCEPT ![t] = IF Peek(cache, k) THEN "true" ELSE "false"]
             /\ UNCHANGED pc
        ELSE /\ pc' = [pc EXCEPT ![t] = "evaluating"]
             /\ UNCHANGED ret
     /\ UNCHANGED <<eval, cache, pool>> /\ UNCHANGED hvars

(* The miss path ends: a stack from the pool, the scripts evaluated on it  *)
(* (eval, as long as the stack starts empty), then an Err leaves through  *)
(* `?` uncached and without returning the stack to the pool; otherwise    *)
(* the write lock is taken and the outcome put under the key computed     *)
(* before the read lock, whatever other threads did meanwhile, and the    *)
(* stack goes back to the pool.                                           *)
Finish(t) ==
  LET a == arg[t]
      g == GetPooledStack(pool[t])
  IN /\ pc[t] = "evaluating" /\ hpc[t] = "idle"
     /\ \E r \in IF g.stack = "empty" THEN {eval[a]} ELSE Outcomes :
          /\ ret' = [ret EXCEPT ![t] = r]
          /\ cache' = IF r = "error" THEN cache ELSE Put(cache, CAPACITY, ComputeScriptCacheKey(a), r = "true")
          /\ pool' = [pool EXCEPT ![t] = IF r = "error" THEN g.pool ELSE ReturnPooledStack(g.pool, "residue")]
     /\ pc' = [pc EXCEPT ![t] = "idle"]
     /\ UNCHANGED <<eval, arg>> /\ UNCHANGED hvars

(* A thread evaluating a script pops item x at OP_HASH160 (op160) or       *)
(* OP_HASH256; under the hash cache's read lock, peek.  A hit of the right *)
(* length is pushed at once; otherwise the lock is released to hash.      *)
HashCall(t, x, op160) ==
  LET k == ComputeHashCacheKey(x, op160)
  IN /\ pc[t] = "evaluating" /\ hpc[t] = "idle"
     /\ harg' = [harg EXCEPT ![t] = [item |-> x, op160 |-> op160]]
     /\ IF HashHit(k, op160)
        THEN hret' = [hret EXCEPT ![t] = Peek(hcache, k)] /\ UNCHANGED hpc
        ELSE hpc' = [hpc EXCEPT ![t] = "hashing"] /\ UNCHANGED hret
     /\ UNCHANGED <<eval, cache, pc, arg, ret, hcache, pool>>

(* The hash miss ends: the digest is computed, put under the write lock   *)
(* with the key computed before, and pushed.                               *)
HashFinish(t) ==
  LET d == Digest(harg[t].item, harg[t].op160)
  IN /\ hpc[t] = "hashing"
     /\ hcache' = Put(hcache, HASH_CAPACITY, ComputeHashCacheKey(harg[t].item, harg[t].op160), d)
     /\ hret' = [hret EXCEPT ![t] = d]
     /\ hpc' = [hpc EXCEPT ![t] = "idle"]
     /\ UNCHANGED <<eval, cache, pc, arg, ret, harg, pool>>

Next ==
  \/ \E t \in Threads, a \in Args : Call(t, a)
  \/ \E t \in Threads : Finish(t) \/ HashFinish(t)
  \/ \E t \in Threads, x \in HashInputs, b \in BOOLEAN : HashCall(t, x, b)

Spec == Init /\ [][Next]_vars

(***************************************************************************)
(* Properties                                                              *)
(***************************************************************************)

TypeOK ==
  /\ eval \in [Args -> Outcomes]
  /\ Len(cache) <= CAPACITY
  /\ pc \in [Threads -> {"idle", "evaluating"}]
  /\ ret \in [Threads -> Outcomes \cup {"none"}]
  /\ Len(hcache) <= HASH_CAPACITY
  /\ hpc \in [Threads -> {"idle", "hashing"}]
  /\ hret \in [Threads -> Digests \cup {NoDigest}]
  /\ \A t \in Threads : Len(pool[t]) <= POOL_LIMIT /\ \A i \in DOMAIN pool[t] : pool[t][i] \in Stacks

(* Spec section 9: turning the caches on leaves every result as it was.    *)
(* Whatever the interleaving of peeks, puts and evictions of the threads, *)
(* each call of verify_script returns what the uncached function returns  *)
(* for its arguments.                                                      *)
CacheTransparent ==
  \A t \in Threads : pc[t] = "idle" /\ ret[t] # "none" => ret[t] = eval[arg[t]]

(* Spec section 9 again, for the hash cache: whatever the interleaving of  *)
(* the threads' peeks, puts and evictions, and although HASH160 and        *)
(* HASH256 results of the same item share the cache, every digest an      *)
(* OP_HASH160 or OP_HASH256 pushes is the uncached hash of the item it     *)
(* popped.                                                                 *)
HashCacheTransparent ==
  \A t \in Threads :
    hpc[t] = "idle" /\ hret[t] # NoDigest => hret[t] = Digest(harg[t].item, harg[t].op160)

=============================================================================
