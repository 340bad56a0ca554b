---------------------------- MODULE MCDriveStack ----------------------------
(* DriveStack on small instances. *)
EXTENDS DriveStack, MCFormats, TLC

Bot(ins, outs) == [bot |-> TRUE, ins |-> ins, outs |-> outs]
Hid == [bot |-> FALSE, ins |-> 1, outs |-> 1]

Machine(interfaces, max_lun, units, settling, firmware, configures) ==
    [interfaces |-> interfaces, max_lun |-> max_lun, units |-> units,
     settling |-> settling, firmware |-> firmware, configures |-> configures]

Unit0(pdt) == [u \in {0} |-> pdt]
Units(a, b, c) == [u \in 0 .. 2 |-> <<a, b, c>>[u + 1]]

A(profile, toc, iso, udf, zones) ==
    [profile |-> profile, toc |-> toc, iso |-> iso, udf |-> udf, zones |-> zones]

Red       == A("cd", "audio", "none", FALSE, {})
Svcd      == A("cd", "data", "SVCD", FALSE, {})
OnCd      == A("cd", "data", "empty", TRUE, {"video"})
Universal == A("dvd", "data", "empty", TRUE, {"video", "audio"})
DvdAudio  == A("dvd", "audio", "empty", TRUE, {"audio"})
Bd        == A("bd", "data", "none", TRUE, {"bdmv"})

MCDrives == {
    \* plain drives
    <<Machine(<<Bot(1, 1)>>, None, Unit0(5), 0, "full", TRUE), Universal>>,
    \* behind a front panel and a half-built function; a slow bridge
    <<Machine(<<Hid, Bot(1, 0), Bot(2, 1)>>, 0, Unit0(5), 1, "no_immed", TRUE), Red>>,
    \* a combo enclosure, the drive its second unit, that names no medium
    <<Machine(<<Bot(1, 1)>>, 1, Units(0, 5, 5), 0, "no_loej", FALSE), Svcd>>,
    \* one whose first unit never answers
    <<Machine(<<Bot(1, 1)>>, 1, Units(0, 5, None), 2, "loads_only", TRUE), OnCd>>,
    \* a lying descriptor with units that are not there
    <<Machine(<<Bot(1, 1)>>, 7, Units(7, None, 0), 0, "no_opcode", TRUE), Bd>>,
    \* a card reader, a dead bridge, and no Bulk-Only interface at all
    <<Machine(<<Bot(1, 1)>>, 1, Units(0, 0, 5), 0, "full", TRUE), Bd>>,
    <<Machine(<<Bot(1, 1)>>, None, Unit0(None), 0, "full", TRUE), Bd>>,
    <<Machine(<<Hid, Bot(0, 1)>>, None, Unit0(5), 0, "full", TRUE), Bd>>}

MCDiscs == {DvdAudio}

=============================================================================
