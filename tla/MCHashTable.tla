----------------------------- MODULE MCHashTable -----------------------------
(***************************************************************************)
(* Four entries in two or four buckets: two whose hash values differ only  *)
(* in the bit the flags may ignore, one that collides with them in a small *)
(* table, and one of another bucket.                                       *)
(***************************************************************************)
EXTENDS HashTable

Entries == {"a", "b", "c", "d"}

Values == [e \in Entries |->
             IF e = "a" THEN 4 ELSE IF e = "b" THEN 5 ELSE IF e = "c" THEN 8 ELSE 259]

=============================================================================
