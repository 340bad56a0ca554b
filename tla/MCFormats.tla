------------------------------ MODULE MCFormats ------------------------------
(***************************************************************************)
(* Formats on scaled sizes, each function compared with its reference on   *)
(* every input up to a bound.  TLC evaluates these with the runs of        *)
(* MCDriveStack, whose discs are what these functions make of bytes.       *)
(***************************************************************************)
EXTENDS Integers, Sequences

Scaled == INSTANCE Formats WITH
    SectorSize <- 4, MaxDirSectors <- 4, RecordHeader <- 1, Word <- 64,
    TocBuffer <- 36, LabelMax <- 7, IntMax <- 21, LongMax <- 29

\* On a 32-bit system long is as wide as int.
Scaled32 == INSTANCE Formats WITH
    SectorSize <- 4, MaxDirSectors <- 4, RecordHeader <- 2, Word <- 64,
    TocBuffer <- 36, LabelMax <- 7, IntMax <- 21, LongMax <- 21

Records == [len : 0 .. 5, names : BOOLEAN]

\* The record walk finds the first entry wanted, and reads none past the
\* sector (disc.c, iso_find_child()).
ASSUME DirectoryWalk ==
    \A sector \in [0 .. 3 -> Records] :
        Scaled!WalkFindsTheFirst(sector) /\ Scaled32!WalkFindsTheFirst(sector)

\* The walk covers the directory, except for a length that wraps in 32 bits.
ASSUME DirectoryLength == \A dir_len \in 0 .. 63 : Scaled!LengthIsRounded(dir_len)

\* An unreadable sector ends the search, even before a later match.
ASSUME DirectorySearch ==
    LET Empty  == [off \in 0 .. 3 |-> [len |-> 0, names |-> FALSE]]
        Second == [off \in 0 .. 3 |-> [len |-> 2, names |-> off = 2]]
        Kinds  == {Empty, Second, <<>>}
    IN  \A dir \in [0 .. 4 -> Kinds], dir_len \in 0 .. 20 :
            Scaled!FindChild(dir, dir_len) =
                IF \E s \in 0 .. 3 : /\ 4 * s < dir_len /\ dir[s] = Second
                                     /\ \A p \in 0 .. s - 1 : dir[p] = Empty
                THEN <<CHOOSE s \in 0 .. 3 : dir[s] = Second /\ \A p \in 0 .. s - 1 : dir[p] = Empty, 2>>
                ELSE <<>>

\* No descriptor of a TOC is read that was not announced and transferred.
ASSUME TocBounds ==
    \A announced, actual \in 0 .. 40 : Scaled!DescriptorsAreWhole(announced, actual)

\* The first data track is the first there is, and an audio first track makes
\* an audio CD whatever follows it.
ASSUME TocTracks ==
    \A toc \in [1 .. 2 -> [data : BOOLEAN, leadout : BOOLEAN, lba : {150, 200}]] :
        /\ Scaled!FirstDataLba(toc, 10, 36) # 0 <=> toc[1].data /\ ~toc[1].leadout
        /\ Scaled!TocKind(toc, 18, 36) = "audio" <=> ~toc[1].data
        /\ ~toc[1].data /\ toc[2].data /\ ~toc[2].leadout =>
              Scaled!FirstDataLba(toc, 18, 20) = toc[2].lba

\* A label is cut between characters, as late as fits.
ASSUME LabelCut ==
    \A n \in 0 .. 4 : \A chars \in [1 .. n -> 1 .. 4] : Scaled!LabelIsWhole(chars)

\* Exactly the decimal numbers an int holds are tokens, whatever the width
\* of long; 10 and 11 stand for a sign and for any other character.
ASSUME Tokens ==
    \A n \in 0 .. 3 : \A str \in [1 .. n -> {0, 1, 2, 9, 10, 11}] :
        Scaled!TokenIsAnInt(str) /\ Scaled32!TokenIsAnInt(str)

\* A mismatch is reported exactly when disc and drive permit no common region
\* and both have a say.
ASSUME RegionMasks ==
    LET Masks == {S \cup {3, 4, 5, 6, 7} : S \in SUBSET {0, 1, 2}} \cup {{}, {0}}
    IN  \A mask, disc \in Masks, enforces, set \in BOOLEAN :
            LET rpc == [enforces |-> enforces, set |-> set, mask |-> mask]
            IN  /\ Scaled!MismatchIsReal(rpc, [mask |-> disc])
                /\ ~Scaled!RegionMismatch(rpc, <<>>)
                /\ ~Scaled!RegionMismatch(<<>>, [mask |-> disc])

=============================================================================
