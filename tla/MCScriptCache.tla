--------------------------- MODULE MCScriptCache ---------------------------
EXTENDS ScriptCache

CONSTANTS t1, t2, s1, s2, k1, w1, x1, x2

MCThreads == {t1, t2}
MCSigs == {s1, s2}
MCWitnesses == {None, w1}

\* The hashed fields of every call.
HashedFields == MCSigs \X {k1} \X MCWitnesses \X {0}

\* A 64-bit hash without collisions on these fields.
MCHash64 == [x \in HashedFields |-> x]

(* Two calls whose fields DefaultHasher maps to the same u64: DefaultHasher *)
(* is SipHash with fixed zero keys, so such pairs can be searched for      *)
(* offline in about 2^32 hashes.                                           *)
MCHash64Colliding == [x \in HashedFields |-> IF x = <<s2, k1, None, 0>> THEN <<s1, k1, None, 0>> ELSE x]
=============================================================================
