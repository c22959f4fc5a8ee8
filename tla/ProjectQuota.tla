---------------------------- MODULE ProjectQuota ----------------------------
(***************************************************************************)
(* The arithmetic of a project's storage quota.  Both upload services add  *)
(* up the sizes of a set of rows; the sum is taken here as the number of   *)
(* pairs <<u, k>> with k a byte of u.                                      *)
(***************************************************************************)
EXTENDS Naturals, FiniteSets

CONSTANTS Uploads,
          Size,           \* uploads.expected_bytes
          MaxBytes,       \* the largest upload the routes let through
          Quota           \* projectStorageQuotaBytes

ASSUME QuotaAssumption ==
    /\ IsFiniteSet(Uploads)
    /\ MaxBytes \in Nat /\ Quota \in Nat
    /\ Size \in [Uploads -> 1..MaxBytes]

BytesOf(S) == {b \in S \X (1..MaxBytes) : b[2] <= Size[b[1]]}
Total(S) == Cardinality(BytesOf(S))
=============================================================================
