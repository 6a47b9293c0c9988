------------------------------ MODULE Formats ------------------------------
(***************************************************************************)
(* The six programs of Programs, and three that take in bytes and make     *)
(* something of them: the CRC32 of a file, the rarjpeg detector and the    *)
(* converter.  They share nothing, and only the one that was chosen runs.  *)
(***************************************************************************)
EXTENDS Programs

CONSTANTS
  PageSize, Contents,
  Pictures, Archives, Rests, Beyond,
  Names, Octets, MaxText

VARIABLES
  content, length, block, res, outcome, failed_call,
  picture, archive, rest, verdict, names,
  page, text, utf8, exit_code

Crc == INSTANCE CrcBlocks WITH i <- block
Rar == INSTANCE Rarjpeg
Conv == INSTANCE Converter

ASSUME FormatsAssumption ==
  Crc!CrcBlocksAssumption /\ Rar!RarjpegAssumption /\ Conv!ConverterAssumption

crcVars == <<content, length, block, res, outcome, failed_call>>
rarVars == <<picture, archive, rest, verdict, names>>
convVars == <<page, text, utf8, exit_code>>

Nine == Six \cup {"crc", "rarjpeg", "converter"}
FormatsInit == which \in Nine /\ Beginning /\ Crc!Init /\ Rar!Init /\ Conv!Init

FormatsNext ==
  \/ ProgramsNext /\ UNCHANGED <<crcVars, rarVars, convVars>>
  \/ /\ UNCHANGED <<which, programsVars>>
     /\ \/ which = "crc" /\ Crc!Next /\ UNCHANGED <<rarVars, convVars>>
        \/ which = "rarjpeg" /\ Rar!Next /\ UNCHANGED <<crcVars, convVars>>
        \/ which = "converter" /\ Conv!Next /\ UNCHANGED <<crcVars, rarVars>>

FormatsSpec == FormatsInit /\ [][FormatsNext]_<<which, programsVars, crcVars, rarVars, convVars>>

-----------------------------------------------------------------------------
(* The properties of the modules, under the names a configuration can use. *)
CrcExact == Crc!CrcExact
VerdictRight == Rar!VerdictRight
Readable == Conv!Readable
=============================================================================
