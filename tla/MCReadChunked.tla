--------------------------- MODULE MCReadChunked ---------------------------
(* ReadChunked on small instances.  The transfer sizes are scaled down so   *)
(* that, as in the code, a full chunk of CD sectors is an odd number of     *)
(* them (7, there 27) and a full chunk of blocks a power of two (8, there   *)
(* 32).                                                                     *)
EXTENDS ReadChunked, TLC

Read10(lba, n) == [kind |-> "data", lba |-> lba, n |-> n]
ReadCd(kind, lba, n) == [kind |-> kind, lba |-> lba, n |-> n]

MCRequests == {Read10(2, 8), ReadCd("form2", 0, 8), ReadCd("unknown", 0, 2),
               Read10(0, -1)}
MCBadSectors == {{}, {4}, {7}}

Symmetry == Permutations(Readers)

CdRequests == {ReadCd("any", 0, 9)}

============================================================================
