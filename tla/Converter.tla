----------------------------- MODULE Converter -----------------------------
(***************************************************************************)
(* The character set converter (src/HW1/converter): a byte below 128 is    *)
(* copied, another one goes by the table of its code page to a code point  *)
(* and from there to UTF-8. The tables hold the code points of the bytes   *)
(* 128 to 255.                                                             *)
(***************************************************************************)
EXTENDS Integers, Sequences, FiniteSets

CONSTANTS
  Names,        \* bound: the code pages asked for
  Octets,        \* bound: the bytes of the input, of which there are
  MaxText       \* at most so many

ConverterAssumption == Octets \subseteq 0..255 /\ MaxText \in Nat

CpKoi == <<
  9472, 9474, 9484, 9488, 9492, 9496, 9500, 9508, 9516, 9524, 9532, 9600, 9604, 9608, 9612, 9616,
  9617, 9618, 9619, 8992, 9632, 8729, 8730, 8776, 8804, 8805, 160, 8993, 176, 178, 183, 247,
  9552, 9553, 9554, 1105, 9555, 9556, 9557, 9558, 9559, 9560, 9561, 9562, 9563, 9564, 9565, 9566,
  9567, 9568, 9569, 1025, 9570, 9571, 9572, 9573, 9574, 9575, 9576, 9577, 9578, 9579, 9580, 169,
  1102, 1072, 1073, 1094, 1076, 1077, 1092, 1075, 1093, 1080, 1081, 1082, 1083, 1084, 1085, 1086,
  1087, 1103, 1088, 1089, 1090, 1091, 1078, 1074, 1100, 1099, 1079, 1096, 1101, 1097, 1095, 1098,
  1070, 1040, 1041, 1062, 1044, 1045, 1060, 1043, 1061, 1048, 1049, 1050, 1051, 1052, 1053, 1054,
  1055, 1071, 1056, 1057, 1058, 1059, 1046, 1042, 1068, 1067, 1047, 1064, 1069, 1065, 1063, 1066 >>

CpCp == <<
  1026, 1027, 8218, 1107, 8222, 8230, 8224, 8225, 8364, 8240, 1033, 8249, 1034, 1036, 1035, 1039,
  1106, 8216, 8217, 8220, 8221, 8226, 8211, 8212, 65533, 8482, 1113, 8250, 1114, 1116, 1115, 1119,
  160, 1038, 1118, 1032, 164, 1168, 166, 167, 1025, 169, 1028, 171, 172, 173, 174, 1031,
  176, 177, 1030, 1110, 1169, 181, 182, 183, 1105, 8470, 1108, 187, 1112, 1029, 1109, 1111,
  1040, 1041, 1042, 1043, 1044, 1045, 1046, 1047, 1048, 1049, 1050, 1051, 1052, 1053, 1054, 1055,
  1056, 1057, 1058, 1059, 1060, 1061, 1062, 1063, 1064, 1065, 1066, 1067, 1068, 1069, 1070, 1071,
  1072, 1073, 1074, 1075, 1076, 1077, 1078, 1079, 1080, 1081, 1082, 1083, 1084, 1085, 1086, 1087,
  1088, 1089, 1090, 1091, 1092, 1093, 1094, 1095, 1096, 1097, 1098, 1099, 1100, 1101, 1102, 1103 >>

CpIso == <<
  128, 129, 130, 131, 132, 133, 134, 135, 136, 137, 138, 139, 140, 141, 142, 143,
  144, 145, 146, 147, 148, 149, 150, 151, 152, 153, 154, 155, 156, 157, 158, 159,
  160, 1025, 1026, 1027, 1028, 1029, 1030, 1031, 1032, 1033, 1034, 1035, 1036, 173, 1038, 1039,
  1040, 1041, 1042, 1043, 1044, 1045, 1046, 1047, 1048, 1049, 1050, 1051, 1052, 1053, 1054, 1055,
  1056, 1057, 1058, 1059, 1060, 1061, 1062, 1063, 1064, 1065, 1066, 1067, 1068, 1069, 1070, 1071,
  1072, 1073, 1074, 1075, 1076, 1077, 1078, 1079, 1080, 1081, 1082, 1083, 1084, 1085, 1086, 1087,
  1088, 1089, 1090, 1091, 1092, 1093, 1094, 1095, 1096, 1097, 1098, 1099, 1100, 1101, 1102, 1103,
  8470, 1105, 1106, 1107, 1108, 1109, 1110, 1111, 1112, 1113, 1114, 1115, 1116, 167, 1118, 1119 >>

Pages == {"KOI8-R", "CP-1251", "ISO-8859-5"}
Table(page) == CASE page = "KOI8-R" -> CpKoi [] page = "CP-1251" -> CpCp
                 [] page = "ISO-8859-5" -> CpIso

Trail_ThirtyOne(cp) == 128 + (cp % 32)
Trail(cp) == 128 + (cp % 64)          \* a byte that is not the first

(* codepoint_to_utf8; a surrogate, or what is no code point, gives nothing. *)
Utf8(cp) ==
  IF cp <= 127 THEN <<cp>>
  ELSE IF cp <= 2047 THEN <<192 + cp \div 64, Trail(cp)>>
  ELSE IF cp \in 55296..57343 \/ cp > 1114111 THEN <<>>
  ELSE IF cp <= 65535 THEN <<224 + cp \div 4096, Trail(cp \div 64), Trail(cp)>>
  ELSE <<240 + cp \div 262144, Trail(cp \div 4096), Trail(cp \div 64), Trail(cp)>>

Encoded(cpage, byte) == IF byte < 128 THEN <<byte>> ELSE Utf8(Table(cpage)[byte - 127])

VARIABLES
  page,         \* the code page, or "none"
  text, utf8, \* the bytes read and written so far
  exit_code     \* -1 before the end

vars == <<page, text, utf8, exit_code>>

Init == page = "none" /\ text = <<>> /\ utf8 = <<>> /\ exit_code = -1

(* The output file has been created by the time the name is looked at.     *)
Open(name) ==
  /\ page = "none" /\ exit_code = -1
  /\ \/ exit_code' \in {1, 2} /\ UNCHANGED page
     \/ IF name \in Pages THEN page' = name /\ UNCHANGED exit_code
                          ELSE exit_code' = 3 /\ UNCHANGED page
  /\ UNCHANGED <<text, utf8>>

Convert(byte) ==
  /\ page # "none" /\ exit_code = -1 /\ Len(text) < MaxText
  /\ text' = Append(text, byte) /\ utf8' = utf8 \o Encoded(page, byte)
  /\ UNCHANGED <<page, exit_code>>

(* fclose or fwrite fails: errno, or 101 for a write cut short.            *)
Finish ==
  /\ page # "none" /\ exit_code = -1 /\ exit_code' \in {0, 101}
  /\ UNCHANGED <<page, text, utf8>>

Next == (\E name \in Names : Open(name)) \/ (\E byte \in Octets : Convert(byte)) \/ Finish

Spec == Init /\ [][Next]_vars

-----------------------------------------------------------------------------
(* A reader of UTF-8: how long a character is by its first byte, and which *)
(* one it is; 0 for a sequence that is none, or is longer than it need be. *)
Length(first) == CASE first < 128 -> 1 [] first \in 192..223 -> 2 [] first \in 224..239 -> 3
                   [] first \in 240..247 -> 4 [] OTHER -> 1
Character(c) ==
  LET n == Len(c)
      value[k \in 1..n] == IF k = 1 THEN c[1] - <<0, 192, 224, 240>>[n] ELSE 64 * value[k - 1] + c[k] - 128
      least == <<0, 128, 2048, 65536>>
  IN IF (n = 1 => c[1] < 128) /\ (\A k \in 2..n : c[k] \in 128..191) /\ value[n] >= least[n] THEN value[n] ELSE 0
Characters(s) ==
  LET from[k \in 1..(Len(s) + 1)] ==
        IF k > Len(s) THEN <<>>
        ELSE LET n == Length(s[k]) IN
             IF k + n - 1 > Len(s) THEN <<0>>
             ELSE <<Character(SubSeq(s, k, k + n - 1))>> \o from[k + n]
  IN from[1]

RussianLetters == (1040..1103) \cup {1025, 1105}

(* What is written is UTF-8, and reading it gives back the code points of  *)
(* the text, one for each of its bytes. No two bytes of a code page stand  *)
(* for one character, so that nothing is lost, and each page has all the   *)
(* Russian letters.                                                        *)
Readable ==
  page # "none" =>
    LET point(byte) == IF byte < 128 THEN byte ELSE Table(page)[byte - 127] IN
    /\ Characters(utf8) = [k \in 1..Len(text) |-> point(text[k])]
    /\ Cardinality({point(b) : b \in 0..255}) = 256
    /\ RussianLetters \subseteq {point(b) : b \in 128..255}
=============================================================================
