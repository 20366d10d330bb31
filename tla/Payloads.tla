------------------------------- MODULE Payloads -------------------------------
(***************************************************************************)
(* The data that callers attach to networks.  A payload is a Perl hash     *)
(* reference (a function from some fields to values) or anything else (a   *)
(* scalar, an array: an element of Scalars).  The tree identifies a payload*)
(* by the SHA1 of its canonical form; the digest is taken to be injective, *)
(* so a record's key is the payload itself.                                *)
(***************************************************************************)
CONSTANTS
  Fields, Values,          \* keys and values of the hashes
  Scalars,                 \* payloads that are not hashes
  Empty,                   \* MMDBW_RECORD_TYPE_EMPTY: no data
  Clash                    \* what two payloads that cannot be merged give

Hash == UNION {[S -> Values] : S \in SUBSET Fields}

Data == Hash \cup Scalars

ASSUME PayloadAssumption ==
  /\ Scalars \cap Hash = {}
  /\ Empty \notin Data
  /\ Clash \notin Data \cup {Empty}

\* merge_hash: copy into "to" the entries of "from" that it does not have.
MergeHash(from, to) ==
  [k \in DOMAIN to \cup DOMAIN from |-> IF k \in DOMAIN to THEN to[k] ELSE from[k]]

\* merge_hashes_for_keys croaks unless both payloads are hashes.
Mergeable(from, into) == from \in Hash /\ into \in Hash

\* merge_hashes_for_keys: the inserted payload "into" wins over the stored one.
Merged(from, into) == MergeHash(from, into)
===============================================================================
