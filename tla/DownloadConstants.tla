------------------------- MODULE DownloadConstants --------------------------
(* The parameters of Download. *)
EXTENDS Naturals

CONSTANTS
    Readers,        \* tasks of the application that call get_chunk
    Lengths,        \* lengths a file may have
    ChunkSize,      \* DOWNLOAD_CHUNK_SIZE
    MaxReadFaults,  \* bound: requests that fail
    MaxReadCancels  \* bound: calls of get_chunk the application cancels

ASSUME SizesAssumption == Lengths \subseteq Nat /\ ChunkSize \in Nat \ {0}

ASSUME ReadsAssumption == MaxReadFaults \in Nat /\ MaxReadCancels \in Nat
=============================================================================
