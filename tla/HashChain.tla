------------------------------ MODULE HashChain ------------------------------
(***************************************************************************)
(* The hash chain of the epistemic log, as both SDKs compute and check it. *)
(*                                                                         *)
(* SHA-256 is taken to have no collisions, so a hash is modelled by what   *)
(* it was computed from: a data hash by the content it covers, an entry    *)
(* hash by the sequence of data hashes chained into it.  Appending to the  *)
(* previous hash is then one-to-one, as hashing data_hash + prev_hash is.  *)
(***************************************************************************)
EXTENDS Naturals, Sequences

GENESIS_HASH == <<>>

ComputeEntryHash(data_hash, prev_hash) == Append(prev_hash, data_hash)

LatestHash(log) ==
  IF log = <<>> THEN GENESIS_HASH ELSE log[Len(log)].entry_hash

(***************************************************************************)
(* One entry's checks in verify_integrity: its prev_hash against the entry *)
(* before it, and the two recomputations, where rehash is what the entry's *)
(* content hashes to now.                                                  *)
(***************************************************************************)
\* Defect: the first entry is not held to the genesis hash.
LinkedUnrooted(log, k) ==
  k = 1 \/ log[k].prev_hash = log[k - 1].entry_hash

Linked(log, k) ==
  log[k].prev_hash = IF k = 1 THEN GENESIS_HASH ELSE log[k - 1].entry_hash

Rehashes(entry, rehash) ==
  /\ entry.data_hash = rehash
  /\ entry.entry_hash = ComputeEntryHash(entry.data_hash, entry.prev_hash)
=============================================================================
