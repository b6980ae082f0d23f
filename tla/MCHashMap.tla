------------------------------ MODULE MCHashMap ------------------------------
(* HashMap for TLC: all hash functions.                                    *)
EXTENDS HashMap

AllHashFns == [Key -> Hash]
=============================================================================
