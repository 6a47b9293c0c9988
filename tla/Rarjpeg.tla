------------------------------ MODULE Rarjpeg ------------------------------
(***************************************************************************)
(* The rarjpeg detector (src/HW1/rarjpeg): is a file a JPEG, a ZIP, or a   *)
(* JPEG with a ZIP behind it, and what does the ZIP hold? A file is the    *)
(* sequence of its bytes, an offset counts from 0, and a function that     *)
(* exits in the code has the exit code as its value, or in its value.      *)
(***************************************************************************)
EXTENDS Integers, Sequences

CONSTANTS
  Pictures,     \* bound: what a file begins with
  Archives,     \* bound: the ZIP behind it, with names <<>> for one of no account
  Rests,        \* bound: what follows the ZIP
  Beyond        \* bound: what lies in memory behind the array a name is read into

LocalHeader == <<80, 75, 3, 4>>
EndRecord == <<80, 75, 5, 6>>
EndRecordLen == 22                 \* with its signature and no comment
Entry == 46                        \* struct CDFH

At(f, offset, n) == SubSeq(f, offset + 1, offset + n)
Has(f, offset, s) == offset >= 0 /\ offset + Len(s) <= Len(f) /\ At(f, offset, Len(s)) = s
U16(f, offset) == f[offset + 1] + 256 * f[offset + 2]
CutShort == 101
Invalid == 22                      \* EINVAL

(* A ZIP with something in it: the end record, at "end", behind which no   *)
(* other one fits, and the entries, at the places "at", which it counts    *)
(* and of which it knows the first; each entry tells how far the next is.  *)
Zip(a) ==
  LET z == a.bytes
      place == a.at
  IN /\ Has(z, 0, LocalHeader)
     /\ a.end \in 1..(Len(z) - EndRecordLen) /\ Has(z, a.end, EndRecord)
     /\ \A o \in (a.end + 1)..(Len(z) - EndRecordLen) : ~Has(z, o, EndRecord)
     /\ U16(z, a.end + 8) = Len(a.names) /\ Len(place) = Len(a.names) + 1
     /\ place[1] = U16(z, a.end + 16) + 65536 * U16(z, a.end + 18)
     /\ \A n \in 1..Len(a.names) :
          /\ a.names[n] # <<>> /\ U16(z, place[n] + 28) = Len(a.names[n])
          /\ Has(z, place[n] + Entry, a.names[n])
          /\ place[n + 1] = place[n] + Entry + Len(a.names[n])
                            + U16(z, place[n] + 30) + U16(z, place[n] + 32)

Bytes == Seq(0..255)
RarjpegAssumption ==
  /\ Pictures \subseteq Bytes /\ Rests \subseteq Bytes /\ Beyond \subseteq Bytes
  /\ \A a \in Archives : /\ a.bytes \in Bytes /\ a.names \in Seq(Bytes) /\ a.at \in Seq(Nat)
                         /\ a.names # <<>> => Zip(a)

IsShort(f) == Len(f) < 4
IsJpegBegun(f) == Has(f, 0, <<255, 216>>)
IsJpegEnd(f) == Has(f, Len(f) - 2, <<255, 217>>)

(* eocd_offset: backwards from the last place where the record fits, but   *)
(* never at offset 0; the result is behind the signature.                  *)
EocdOffset(f) ==
  LET search[o \in 0..Len(f)] ==
        IF o = 0 THEN -1 ELSE IF Has(f, o, EndRecord) THEN o + 4 ELSE search[o - 1]
  IN search[Len(f) - EndRecordLen]

(* get_jpeg_end: behind the first FF D9, the bytes behind an FF being read *)
(* with it; the length of the file when there is none.                     *)
GetJpegEnd_OnePast(f) ==
  LET from[o \in 0..Len(f)] ==
        IF o >= Len(f) - 1 THEN Len(f)
        ELSE IF f[o + 1] = 255 /\ f[o + 2] = 217 THEN o + 3 ELSE from[o + 1]
  IN from[0]
GetJpegEnd(f) ==
  LET from[o \in 0..Len(f)] ==
        IF o >= Len(f) - 1 THEN Len(f)
        ELSE IF f[o + 1] # 255 THEN from[o + 1]
        ELSE IF f[o + 2] = 217 THEN o + 2 ELSE from[o + 2]
  IN from[0]

(* A name is read, what follows it is skipped; the file may end before.    *)
GetFileName(f, e) ==
  LET length == IF e.at + Entry <= Len(f) THEN U16(f, e.at + 28) ELSE 0
  IN IF e.short \/ e.at + Entry + length > Len(f) THEN [e EXCEPT !.short = TRUE]
     ELSE [e EXCEPT !.at = @ + Entry + length + U16(f, @ + 30) + U16(f, @ + 32),
                    !.names = IF length = 0 THEN @ ELSE Append(@, At(f, e.at + Entry, length))]

(* A name is printed up to the first zero: its array has no terminator, so *)
(* that what lies behind it in memory follows, up to a zero there.         *)
Printed(name, beyond) ==
  LET all == name \o beyond \o <<0>>
      stop == CHOOSE k \in 1..Len(all) : all[k] = 0 /\ \A j \in 1..(k - 1) : all[j] # 0
  IN SubSeq(all, 1, stop - 1)
Shown(got) == {[n \in 1..Len(got) |-> Printed(got[n], beyond[n])] : beyond \in [1..Len(got) -> Beyond]}

(* As many entries as the end record says.                                 *)
CollectFileNames(f, eocd, begin) ==
  LET count == U16(f, eocd + 4)
      first == begin + U16(f, eocd + 12) + 65536 * U16(f, eocd + 14)
      after[n \in 0..count] == IF n = 0 THEN [at |-> first, names |-> <<>>, short |-> FALSE]
                               ELSE GetFileName(f, after[n - 1])
  IN after[count]

-----------------------------------------------------------------------------
VARIABLES
  picture, archive, rest,          \* what the file is made of
  verdict, names                   \* -1 before the end, and the lines printed for the names

vars == <<picture, archive, rest, verdict, names>>
File == picture \o archive.bytes \o rest

Init == /\ picture = <<>> /\ rest = <<>>
        /\ archive = [bytes |-> <<>>, names |-> <<>>, end |-> 0, at |-> <<>>]
        /\ verdict = -1 /\ names = <<>>

Choose(p, a, r) ==
  /\ verdict = -1 /\ picture' = p /\ archive' = a /\ rest' = r
  /\ verdict' = -2 /\ UNCHANGED names

(* main(): what is said without looking at the ZIP...                      *)
Ends(code) == verdict' = code /\ UNCHANGED <<picture, archive, rest>>
Refuse ==
  /\ verdict = -2
  /\ \/ IsShort(File) /\ Ends(6)
     \/ ~IsShort(File) /\ IsJpegBegun(File) /\ IsJpegEnd(File) /\ Ends(5)
     \/ /\ ~IsShort(File) /\ ~(IsJpegBegun(File) /\ IsJpegEnd(File))
        /\ \/ Len(File) < EndRecordLen /\ Ends(Invalid)        \* a seek to before the file
           \/ Len(File) >= EndRecordLen /\ EocdOffset(File) = -1 /\ Ends(6)
  /\ UNCHANGED names

(* ... and with it: get32 exits with 14 when the JPEG has no end.          *)
List(begin, code) ==
  LET found == CollectFileNames(File, EocdOffset(File), begin) IN
  /\ names' \in Shown(found.names)
  /\ Ends(IF found.short THEN CutShort ELSE code)
Inspect ==
  /\ verdict = -2 /\ ~IsShort(File) /\ Len(File) >= EndRecordLen /\ EocdOffset(File) # -1
  /\ ~(IsJpegBegun(File) /\ IsJpegEnd(File))
  /\ LET begin == IF IsJpegBegun(File) THEN GetJpegEnd(File) ELSE 0 IN
     \/ begin + 4 > Len(File) /\ Ends(14) /\ UNCHANGED names
     \/ Has(File, begin, LocalHeader) /\ List(begin, IF IsJpegBegun(File) THEN 4 ELSE 3)
     \/ begin + 4 <= Len(File) /\ ~Has(File, begin, LocalHeader) /\ Ends(6) /\ UNCHANGED names

Next == \/ \E p \in Pictures, a \in Archives, r \in Rests : Choose(p, a, r)
        \/ Refuse \/ Inspect

Spec == Init /\ [][Next]_vars

-----------------------------------------------------------------------------
(* A picture in which every FF begins a marker of two bytes, none of them  *)
(* the end marker but the last.                                            *)
Marks(p, o) == p[o] = 255 /\ (o = 1 \/ p[o - 1] # 255)
Plain(p) ==
  /\ Len(p) >= 4 /\ Has(p, 0, <<255, 216>>) /\ Has(p, Len(p) - 2, <<255, 217>>)
  /\ \A o \in 1..(Len(p) - 1) : p[o] = 255 => Marks(p, o) /\ p[o + 1] # 255
                                              /\ (p[o + 1] = 217 => o = Len(p) - 1)

(* A line for each name: it begins with the name, and ends at its zero if  *)
(* the name has one; otherwise it may go on with anything.                 *)
Shows(line, name) ==
  \A k \in 1..Len(name) : (\A j \in 1..(k - 1) : name[j] # 0) =>
      IF name[k] = 0 THEN Len(line) = k - 1 ELSE k <= Len(line) /\ line[k] = name[k]
Listed(lines, all) == Len(lines) = Len(all) /\ \A n \in 1..Len(all) : Shows(lines[n], all[n])

(* A plain picture, an archive with something in it, and a plain picture   *)
(* with such an archive behind it are told for what they are, with a line  *)
(* for every name, unless the file happens to end like a picture.          *)
(* And "rarjpeg" is said of nothing but a file with a JPEG's first marker, *)
(* a local header right behind an end marker, and an end record.           *)
VerdictRight ==
  LET full == archive.names # <<>> /\ rest = <<>> /\ ~IsJpegEnd(File) IN
  verdict >= 0 =>
    /\ Plain(File) => verdict = 5
    /\ full /\ picture = <<>> => verdict = 3 /\ Listed(names, archive.names)
    /\ full /\ Plain(picture) => verdict = 4 /\ Listed(names, archive.names)
    /\ verdict = 4 =>
         /\ Has(File, 0, <<255, 216>>)
         /\ \E o \in 0..Len(File) : Has(File, o, <<255, 217>> \o LocalHeader)
         /\ \E o \in 0..Len(File) : Has(File, o, EndRecord)
=============================================================================
