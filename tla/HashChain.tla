----------------------------- MODULE HashChain ------------------------------
(***************************************************************************)
(* Hash-chained records, as the agent's log, the server's audit_chain      *)
(* table and tools/verify_chain.py share them.  SHA-256 over the canonical *)
(* JSON of {prev_hash, content} is taken to be free of collisions, so a    *)
(* hash stands for all it was computed from: the sequence of the contents  *)
(* of the record and of every record before it back to the start of its    *)
(* chain.                                                                  *)
(***************************************************************************)
EXTENDS Integers, Sequences, FiniteSetsExt

(* The 64 zeros that stand before the first record.                        *)
Genesis == <<>>

Digest(prev, content) == Append(prev, content)

(* The record_hash that verify_chain holds when it comes to line i, of the *)
(* lines at the places in read.                                            *)
HashBefore(lines, read, i) ==
    LET before == {j \in read : j < i} IN
    IF before = {} THEN Genesis ELSE lines[Max(before)].record_hash

(* Mutant, part of no specification: the first record is not checked.      *)
FirstUnchecked(lines, read) ==
    {i \in read : (\E j \in read : j < i) /\ lines[i].prev_hash # HashBefore(lines, read, i)}

(* The first check of verify_chain, of the linkage: the records whose      *)
(* prev_hash is not the record_hash before them.                           *)
LinkErrors(lines, read) == {i \in read : lines[i].prev_hash # HashBefore(lines, read, i)}

(* Its second check: the records whose record_hash is not the one computed *)
(* from the rest of the record.                                            *)
HashErrors(lines, read) ==
    {i \in read : lines[i].record_hash # Digest(lines[i].prev_hash, lines[i].event)}

(* The records that verify_chain reports, for one check or the other.      *)
verify_chain(lines, read) == LinkErrors(lines, read) \cup HashErrors(lines, read)

=============================================================================
