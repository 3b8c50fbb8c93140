-------------------------------- MODULE Headers --------------------------------
(***************************************************************************)
(* The headers of the cpio formats: the numbers of a file are written into *)
(* fields of a fixed width (copyout.rs, write_out_header), followed by the *)
(* name and its padding, and copy-in finds the headers again among what    *)
(* else is in the archive (copyin.rs, read_in_header).                     *)
(*                                                                         *)
(* A number is a sequence of digits: characters in the ASCII formats,      *)
(* halfwords in the binary ones.  The archive is a sequence of cells, and  *)
(* a whole header is one of them.  Neither junk nor contents look like a   *)
(* header.                                                                 *)
(*                                                                         *)
(* process_args throws the value of -H away: what copy-out of this program *)
(* can write is bin and, with -c, newc; the writers of the other formats   *)
(* are modelled as they stand, so that copy-in has their archives to read. *)
(***************************************************************************)
EXTENDS Casts, Sequences, FiniteSets, InodeTable

CONSTANTS
  Byte,          \* values of a byte: 256 in the program
  OctShort,      \* the values of 6 octal digits are 0 .. 2^OctShort - 1,
  OctLong,       \* and of 11 octal digits 0 .. 2^OctLong - 1
  FileLists,     \* the lists of files that are archived
  MaxJunk        \* cells of junk in the archive

Short == Byte * Byte
Long == Short * Short

(* How many numbers n digits of a base hold                                *)
Values(base, n) ==
  LET values[k \in 0 .. n] == IF k = 0 THEN 1 ELSE base * values[k - 1]
  IN values[n]

(* Six octal digits hold more than a halfword and less than a word, eleven *)
(* hold more than a word.                                                  *)
ASSUME WidthsAssumption ==
  /\ {Byte, OctShort, OctLong, MaxJunk} \subseteq Nat
  /\ Byte > 1
  /\ Short < Values(2, OctShort) /\ Values(2, OctShort) < Long
  /\ Long < Values(2, OctLong)

New == {"newc", "crc"}
OldAscii == {"odc", "hpodc"}
Bin == {"bin", "hpbin"}
Hp == {"hpodc", "hpbin"}
Formats == New \cup OldAscii \cup Bin

Kinds == {"reg", "dev", "fifo", "dir"}
Special == {"dev", "fifo"}

Files ==
  {f \in [kind : Kinds, inode : Nat, dev : Nat \X Nat, rdev : Nat \X Nat, owner : Nat,
          links : Nat, mtime : Nat, size : Nat, namesize : Nat] :
     /\ f.kind # "reg" => f.size = 0
     /\ f.kind # "dev" => f.rdev = <<0, 0>>
     /\ f.namesize > 1}

ASSUME FilesAssumption == \A list \in FileLists : list \in Seq(Files)

VARIABLES
  fmt,        \* format of the archive
  swapped,    \* a binary archive of a machine of the other byte order
  renumber, ignoreDevno,     \* options of copy-out
  files,      \* the files to archive, one after the other
  table, nextInode,          \* HASH_TABLE and NEXT_INODE
  done,       \* files copy-out is done with
  written,    \* those of them that are in the archive
  cur,        \* the header whose contents are to be written
  archive,
  rfmt,       \* format copy-in takes the archive for
  pos,        \* cells it has consumed
  skipped,    \* bytes_skipped, of all headers together
  got,        \* entries read
  phase

options == <<fmt, swapped, renumber, ignoreDevno, files>>
writer == <<table, nextInode, done, written, cur, archive>>
reader == <<rfmt, pos, skipped, got>>
vars == <<options, writer, reader, phase>>

-------------------------------------------------------------------------------
(* Digits                                                                  *)

(* The loop of to_ascii: what is left of v when the last k digits are made *)
Rest(v, n, base) ==
  LET rest[k \in 0 .. n] == IF k = 0 THEN v ELSE rest[k - 1] \div base
  IN rest

(* to_ascii; what does not fit is cut off at the left                      *)
ToAscii(v, n, base) == [k \in 1 .. n |-> Rest(v, n, base)[n - k] % base]
Overflows(v, n, base) == Rest(v, n, base)[n] # 0

(* The loop of from_ascii: the value of the first k digits                 *)
FromAscii(digits, base) ==
  LET value[k \in 0 .. Len(digits)] ==
        IF k = 0 THEN 0 ELSE value[k - 1] * base + digits[k]
  IN value[Len(digits)]

Makedev(ma, mi) == ((ma % Byte) * Byte) + (mi % Byte)
Major(device) == (device \div Byte) % Byte
Minor(device) == device % Byte

(* swab_array turns the bytes of every halfword round.                     *)
SwabShort(v) == ((v % Byte) * Byte) + (v \div Byte)
Swab(digits) == [k \in DOMAIN digits |-> SwabShort(digits[k])]

-------------------------------------------------------------------------------
(* Fields and their widths                                                 *)
Shared == {"inode", "owner", "links", "mtime", "size", "namesize"}
Numbers(f) == IF f \in New THEN Shared \cup {"devmaj", "devmin", "rdevmaj", "rdevmin"}
                           ELSE Shared \cup {"dev", "rdev"}

Base(f) == CASE f \in New      -> Byte
             [] f \in OldAscii -> 2
             [] f \in Bin      -> Short

Digits(f, field) ==
  CASE f \in New -> 4
    [] f \in OldAscii -> IF field \in {"mtime", "size"} THEN OctLong ELSE OctShort
    [] f \in Bin -> IF field \in {"mtime", "size"} THEN 2 ELSE 1

\* Mistake: the length of the name is cut as well.
CheckedSizes(f) == {"size"}
(* Of the other fields a number that is too large is cut, with a warning.  *)
Checked(f) ==
  IF f \in New THEN {"size", "namesize", "devmaj", "devmin", "rdevmaj", "rdevmin"}
               ELSE {"size", "namesize"}

TooWide(f, field, v) == Overflows(v, Digits(f, field), Base(f))
Encode(f, field, v) == ToAscii(v, Digits(f, field), Base(f))
Decode(f, digits) == FromAscii(digits, Base(f))

-------------------------------------------------------------------------------
(* Copy-out                                                                *)

(* get_inode_and_dev                                                       *)
Id(f) == <<f.inode, f.dev>>
Known(f) == FindInodeVal(table, Id(f))

InodeInArchive(f) ==
  CASE ~renumber -> f.inode
    [] renumber /\ f.links > 1 /\ Known(f) # {} -> (CHOOSE r \in Known(f) : TRUE).trans
    [] OTHER -> nextInode

\* Mistake: a number is given out again after a file without links.
CountLinksOnly(f) ==
  IF renumber /\ f.links > 1 /\ Known(f) = {}
  THEN /\ nextInode' = nextInode + 1
       /\ table' = AddInode(table, Id(f), NoName, renumber, nextInode)
  ELSE UNCHANGED <<table, nextInode>>
CountInode(f) ==
  IF ~renumber \/ (f.links > 1 /\ Known(f) # {})
  THEN UNCHANGED <<table, nextInode>>
  ELSE /\ nextInode' = nextInode + 1
       /\ table' = IF f.links > 1
                   THEN AddInode(table, Id(f), NoName, renumber, nextInode)
                   ELSE table

StatToCpio(f, number) ==
  [kind |-> f.kind, inode |-> number,
   devmaj |-> IF ignoreDevno THEN 0 ELSE f.dev[1],
   devmin |-> IF ignoreDevno THEN 0 ELSE f.dev[2],
   rdevmaj |-> f.rdev[1], rdevmin |-> f.rdev[2],
   owner |-> f.owner, links |-> f.links, mtime |-> f.mtime,
   size |-> f.size, namesize |-> f.namesize]

(* The trailer's numbers are 0, its name is not that of a file.            *)
Trailer ==
  [kind |-> "trailer", inode |-> 0, devmaj |-> 0, devmin |-> 0, rdevmaj |-> 0,
   rdevmin |-> 0, owner |-> 0, links |-> 1, mtime |-> 0, size |-> 0, namesize |-> 2]

(* hp_compute_dev: the number of a special file is its size.               *)
DeviceOf(h) == Makedev(h.devmaj, h.devmin)
RdeviceOf(h) == Makedev(h.rdevmaj, h.rdevmin)
HpDevice(h) == IF h.kind \in Special THEN Makedev(0, 1) ELSE RdeviceOf(h)
HpSize(h) == IF h.kind \in Special THEN RdeviceOf(h) ELSE h.size

(* In the HP format of ASCII digits the device is that of hp_compute_dev.  *)
ValuesToWrite(f, h) ==
  [field \in Numbers(f) |->
     CASE field = "size" -> IF f \in Hp THEN HpSize(h) ELSE h.size
       [] field = "dev" -> IF f = "hpodc" THEN HpDevice(h) ELSE DeviceOf(h)
       [] field = "rdev" -> IF f \in Hp THEN HpDevice(h) ELSE RdeviceOf(h)
       [] OTHER -> h[field]]

Refused(f, values) == \E field \in Checked(f) : TooWide(f, field, values[field])

Fields(f, values) ==
  [field \in Numbers(f) |->
     IF swapped THEN Swab(Encode(f, field, values[field]))
                ELSE Encode(f, field, values[field])]

HeaderSize(f) == CASE f \in New -> 110 [] f \in OldAscii -> 76 [] f \in Bin -> 26

(* tape_pad_output pads also where tape_skip_padding skips nothing.        *)
PadOutput(f, offset) == IF f \in New THEN (-offset) % 4 ELSE (-offset) % 2
\* Mistake: the padding of the binary formats is left to be searched.
SkipPaddingOfNew(f, offset) == IF f \in New THEN (-offset) % 4 ELSE 0
SkipPadding(f, offset) ==
  CASE f \in New -> (-offset) % 4 [] f \in Bin -> (-offset) % 2 [] OTHER -> 0

Cells(what, of, n) == [k \in 1 .. n |-> [what |-> what, of |-> of, nth |-> k]]
HeaderCell(of, kind, fields) == [what |-> "header", of |-> of, kind |-> kind, fields |-> fields]

WholeHeader(of, h, values) ==
  << HeaderCell(of, h.kind, Fields(fmt, values)) >>
  \o Cells("name", of, h.namesize)
  \o Cells("pad", of, IF fmt \in OldAscii THEN 0
                      ELSE PadOutput(fmt, h.namesize + HeaderSize(fmt)))

WriteOutHeader ==
  /\ phase = "out"
  /\ cur = 0
  /\ done < Len(files)
  /\ LET f == files[done + 1]
         h == StatToCpio(f, InodeInArchive(f))
         values == ValuesToWrite(fmt, h)
     IN /\ CountInode(f)
        /\ IF Refused(fmt, values)
           THEN UNCHANGED <<written, cur, archive>>
           ELSE /\ archive' = archive \o WholeHeader(done + 1, h, values)
                /\ written' = Append(written, done + 1)
                /\ cur' = done + 1
  /\ done' = done + 1
  /\ UNCHANGED <<options, reader, phase>>

(* What follows a header; only regular files have contents here.  Of a     *)
(* size that is negative in between the casts make one of nearly 2^64.     *)
WriteContents ==
  /\ phase = "out"
  /\ cur # 0
  /\ archive' = archive \o Cells("data", cur, AsUsize(AsI32(files[cur].size)))
                        \o Cells("pad", cur, IF files[cur].kind = "reg"
                                             THEN PadOutput(fmt, files[cur].size) ELSE 0)
  /\ cur' = 0
  /\ UNCHANGED <<options, table, nextInode, done, written, reader, phase>>

JunkIn(cells) == Cardinality({k \in DOMAIN cells : cells[k].what = "junk"})

(* Bytes of no header, in front of an entry or of the trailer              *)
Junk ==
  /\ phase = "out"
  /\ cur = 0
  /\ JunkIn(archive) < MaxJunk
  /\ archive' = archive \o Cells("junk", 0, 1)
  /\ UNCHANGED <<options, table, nextInode, done, written, cur, reader, phase>>

WriteTrailer ==
  /\ phase = "out"
  /\ cur = 0
  /\ done = Len(files)
  /\ archive' = archive \o WholeHeader(0, Trailer, ValuesToWrite(fmt, Trailer))
  /\ phase' = "magic"
  /\ UNCHANGED <<options, table, nextInode, done, written, cur, reader>>

-------------------------------------------------------------------------------
(* Copy-in                                                                 *)
AtHeader == archive[pos + 1].what = "header"

(* The HP formats have the magic numbers of the others.                    *)
Magic(f) == CASE f \in OldAscii -> "odc" [] f \in Bin -> "bin" [] OTHER -> f

SkipByte == /\ pos' = pos + 1
            /\ skipped' = skipped + 1

(* The format is looked for once, the magic number at every header.        *)
DetectFormat ==
  /\ phase = "magic"
  /\ rfmt = "unknown"
  /\ IF AtHeader THEN rfmt' = Magic(fmt) /\ UNCHANGED <<pos, skipped>>
                 ELSE SkipByte /\ rfmt' = rfmt
  /\ UNCHANGED <<options, writer, got, phase>>

SkipJunk ==
  /\ phase = "magic"
  /\ rfmt # "unknown"
  /\ ~AtHeader
  /\ SkipByte
  /\ UNCHANGED <<options, writer, rfmt, got, phase>>

Taken(from, n) == SubSeq(archive, from + 1, from + n)

\* Mistake: only the magic number of the archive is looked at.
UnswabNever(digits) == digits
Unswab(digits) == IF swapped THEN Swab(digits) ELSE digits

(* read_in_new_ascii takes the numbers of a device for device numbers.     *)
DevicesRead(f, v) ==
  IF f \in New
  THEN [devmaj |-> Major(v.devmaj), devmin |-> Minor(v.devmin),
        rdevmaj |-> Major(v.rdevmaj), rdevmin |-> Minor(v.rdevmin)]
  ELSE [devmaj |-> Major(v.dev), devmin |-> Minor(v.dev),
        rdevmaj |-> Major(v.rdev), rdevmin |-> Minor(v.rdev)]

(* The device number in the size of a special file is put back.            *)
IsHpSpecial(f, h) ==
  /\ f \notin New
  /\ h.kind \in Special
  /\ h.size # 0
  /\ h.rdevmaj = 0 /\ h.rdevmin = 1

\* Mistake: the size stays.
UndoHpNever(f, h) == h
UndoHp(f, h) ==
  IF IsHpSpecial(f, h)
  THEN [h EXCEPT !.rdevmaj = Major(h.size), !.rdevmin = Minor(h.size), !.size = 0]
  ELSE h

HeaderRead(f, cell) ==
  LET v == [field \in Numbers(f) |-> Decode(f, Unswab(cell.fields[field]))]
      devices == DevicesRead(f, v)
  IN UndoHp(f, [kind |-> cell.kind, inode |-> v.inode,
                devmaj |-> devices.devmaj, devmin |-> devices.devmin,
                rdevmaj |-> devices.rdevmaj, rdevmin |-> devices.rdevmin,
                owner |-> v.owner, links |-> v.links, mtime |-> v.mtime,
                size |-> v.size, namesize |-> v.namesize])

(* The header, its name (read_name_from_file) and their padding            *)
ReadInHeader ==
  /\ phase = "magic"
  /\ rfmt # "unknown"
  /\ AtHeader
  /\ LET cell == archive[pos + 1]
         h == HeaderRead(rfmt, cell)
     IN /\ got' = Append(got, [of |-> cell.of, header |-> h,
                               name |-> Taken(pos + 1, h.namesize), data |-> << >>])
        /\ pos' = pos + 1 + h.namesize + SkipPadding(rfmt, h.namesize + HeaderSize(rfmt))
        /\ phase' = IF cell.kind = "trailer" THEN "end" ELSE "contents"
  /\ UNCHANGED <<options, writer, rfmt, skipped>>

InHand == got[Len(got)].header
Told(h) == AsI32(h.size)

(* The contents, extracted or tossed; of a size that is negative when it   *)
(* is cast nothing is tossed, and the next header sought in the contents.  *)
TakeContents ==
  /\ phase = "contents"
  /\ IF InHand.kind = "reg"
     THEN LET n == IF Told(InHand) > 0 THEN Told(InHand) ELSE 0
          IN /\ got' = [got EXCEPT ![Len(got)].data = Taken(pos, n)]
             /\ pos' = pos + n + SkipPadding(rfmt, InHand.size)
     ELSE UNCHANGED <<got, pos>>
  /\ phase' = "magic"
  /\ UNCHANGED <<options, writer, rfmt, skipped>>

(* Extracted, such a file gets all that is left of the archive, and the    *)
(* process ends.                                                           *)
CopyTheRest ==
  /\ phase = "contents"
  /\ InHand.kind = "reg"
  /\ Told(InHand) < 0
  /\ phase' = "exit"
  /\ UNCHANGED <<options, writer, reader>>

-------------------------------------------------------------------------------
Init ==
  /\ fmt \in Formats
  /\ swapped \in IF fmt \in Bin THEN BOOLEAN ELSE {FALSE}
  /\ renumber \in BOOLEAN
  /\ ignoreDevno \in BOOLEAN
  /\ files \in FileLists
  /\ table = {} /\ nextInode = 0
  /\ done = 0 /\ written = << >> /\ cur = 0
  /\ archive = << >>
  /\ rfmt \in {"unknown", fmt}
  /\ pos = 0 /\ skipped = 0 /\ got = << >>
  /\ phase = "out"

Next ==
  \/ WriteOutHeader \/ WriteContents \/ Junk \/ WriteTrailer
  \/ DetectFormat \/ SkipJunk \/ ReadInHeader \/ TakeContents
  \/ CopyTheRest

Spec == Init /\ [][Next]_vars

-------------------------------------------------------------------------------
(* The reader stays inside the archive and in the ranges of its types.     *)
TypeOK ==
  /\ pos \in 0 .. Len(archive)
  /\ rfmt \in Formats \cup {"unknown"}
  /\ phase \in {"out", "magic", "contents", "end", "exit"}
  /\ \A k \in DOMAIN got : LET h == got[k].header
                           IN {h.devmaj, h.devmin, h.rdevmaj, h.rdevmin} \subseteq 0 .. Byte - 1

(* The entries that were read, without the trailer                         *)
Read == {k \in DOMAIN got : got[k].of # 0}

(* Whatever is between the headers, and though the two sides do not agree  *)
(* on the padding of the old ASCII formats, every entry that was written   *)
(* is read, once and in its place, with its own name and the contents of   *)
(* files below 2 GiB, and then the trailer: a truncated number never makes *)
(* the reader take the bytes of another entry (read_in_header's search,    *)
(* tape_skip_padding, field widths).                                       *)
EntriesAsWritten ==
  /\ phase = "end" <=> Len(got) = Len(written) + 1
  /\ \A k \in DOMAIN got : got[k].of = Append(written, 0)[k]
  /\ \A k \in Read :
       LET e == got[k] IN
       /\ e.name = Cells("name", e.of, files[e.of].namesize)
       /\ files[e.of].size < Half /\ (k < Len(got) \/ phase = "magic") =>
            e.data = Cells("data", e.of, files[e.of].size)

(* Only junk is skipped in search of a header, and, in the old ASCII       *)
(* formats, the byte of padding that copy-out writes after contents of an  *)
(* odd length and copy-in does not expect; unless a file of 2 GiB or more  *)
(* is in the archive.                                                      *)
Unexpected(cell) == \/ cell.what = "junk"
                    \/ cell.what = "pad" /\ fmt \in OldAscii
AllBelowHalf == \A k \in DOMAIN written : files[written[k]].size < Half
OnlyJunkSkipped ==
  AllBelowHalf => skipped = Cardinality({k \in 1 .. pos : Unexpected(archive[k])})

(* What a field has room for comes back unchanged, in each of the formats  *)
(* and from a machine of either byte order; in particular the size that    *)
(* the HP formats use for the number of a device.                          *)
Room(f, field, v) ==
  v < CASE f \in New -> Long
        [] f \in OldAscii -> Values(2, Digits(f, field))
        [] f \in Bin -> IF field \in {"mtime", "size"} THEN Long ELSE Short

NumbersSurvive ==
  \A k \in Read :
    LET e == got[k]  f == files[e.of] IN
    \A field \in Shared \ (IF renumber THEN {"inode"} ELSE {}) :
      Room(fmt, field, f[field]) => e.header[field] = f[field]

FitsBytes(n) == n[1] < Byte /\ n[2] < Byte

(* In the old formats the number of a device file comes back when it fits  *)
(* one byte for each part, also where an HP format hides it in the size.   *)
OldDevicesSurvive ==
  \A k \in Read :
    LET e == got[k]  f == files[e.of] IN
    fmt \notin New /\ f.kind = "dev" /\ FitsBytes(f.rdev) /\ f.rdev # <<0, 0>> =>
      <<e.header.rdevmaj, e.header.rdevmin>> = f.rdev

(* Copy-in takes entries of the same inode and device for links of one     *)
(* file.  Two files never become one by being archived, so long as their   *)
(* numbers fit: with renumbering the numbers that were counted, else those *)
(* of the files, in the formats that record the device.                    *)
Identity(e) == <<e.header.inode, e.header.devmaj, e.header.devmin>>
IdentityFits(f) ==
  IF renumber THEN Room(fmt, "inode", nextInode - 1)
  ELSE /\ fmt \in {"odc", "bin", "hpbin"} /\ ~ignoreDevno
       /\ FitsBytes(f.dev) /\ Room(fmt, "inode", f.inode)
FilesStayApart ==
  \A i, j \in Read :
    LET f == files[got[i].of]  g == files[got[j].of] IN
    Id(f) # Id(g) /\ IdentityFits(f) /\ IdentityFits(g) =>
      Identity(got[i]) # Identity(got[j])

(* doc/cpio.md:68: cpio handles files of every kind, device files as well. *)
(* Their numbers come back when the format has room for them.              *)
DevicesSurvive ==
  \A k \in Read :
    LET e == got[k]  f == files[e.of] IN
    f.kind = "dev" /\ FitsBytes(f.rdev) /\ f.rdev # <<0, 0>> =>
      <<e.header.rdevmaj, e.header.rdevmin>> = f.rdev
===============================================================================
