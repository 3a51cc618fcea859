------------------------------ MODULE YamlFile ------------------------------
(***************************************************************************)
(* Texts in files: YAML_Impl::toFile, getFileFormat and fromFile of        *)
(* YAML_File.cpp, and the line ends of FileSource.  A file is a sequence   *)
(* of bytes.  The two formats of UTF-32 are known and refused.             *)
(***************************************************************************)
EXTENDS Translator

ByteOrderMark == ("utf8" :> <<>>) @@ ("utf8BOM" :> <<239, 187, 191>>)
                 @@ ("utf16BE" :> <<254, 255>>) @@ ("utf16LE" :> <<255, 254>>)
Formats == DOMAIN ByteOrderMark

\* writeYAMLString
Contents16(units, format) ==
    FlattenSeq([i \in DOMAIN units |->
        IF format = "utf16BE" THEN <<units[i] \div 256, units[i] % 256>>
                              ELSE <<units[i] % 256, units[i] \div 256>>])

toFile(text, format) ==
    ByteOrderMark[format] \o
    IF format \in {"utf8", "utf8BOM"} THEN [i \in DOMAIN text |-> Code[text[i]]]
                                      ELSE Contents16(toUtf16(text), format)

\* Behind the end of a file there are bytes 255.
getFileFormat(file) ==
    LET begin == [i \in 1..4 |-> IF i <= Len(file) THEN file[i] ELSE 255]
        Begins(mark) == IsPrefix(mark, begin)
    IN CASE Begins(<<0, 0, 254, 255>>) -> "utf32BE"
         [] Begins(<<255, 254, 0, 0>>) -> "utf32LE"
         [] Begins(ByteOrderMark["utf8BOM"]) -> "utf8BOM"
         [] Begins(ByteOrderMark["utf16BE"]) -> "utf16BE"
         [] Begins(ByteOrderMark["utf16LE"]) /\ ~Begins(<<255, 254, 0, 0>>) -> "utf16LE"
         [] OTHER -> "utf8"

\* readYAMLString: both bytes of a unit go through a char; the sign of the low
\* one covers the high one.
Unit(high, low) == IF low < 128 THEN high * 256 + low ELSE 65280 + low
UnitsRead(file, format) ==
    [i \in 1..((Len(file) \div 2) - 1) |->
        IF format = "utf16BE" THEN Unit(file[2 * i + 1], file[2 * i + 2])
                              ELSE Unit(file[2 * i + 2], file[2 * i + 1])]

\* The bytes of a file without its mark, as UTF-8.
Utf8(file, format) ==
    IF format \in {"utf8", "utf8BOM"}
    THEN LET from1 == Len(ByteOrderMark[format])
         IN [i \in 1..(Len(file) - from1) |-> Char[file[from1 + i]]]
    ELSE toUtf8(UnitsRead(file, format))
fromFileThrows(file) ==
    LET format == getFileFormat(file)
    IN \/ format \notin Formats
       \/ /\ format \in {"utf16BE", "utf16LE"}
          /\ toUtf8Throws(UnitsRead(file, format))

BeforeLF(text, i) == i < Len(text) /\ text[i + 1] = LF
fromFile(file) ==
    LET translated == Utf8(file, getFileFormat(file))
    IN FlattenSeq([i \in DOMAIN translated |->
           IF translated[i] = CR /\ BeforeLF(translated, i) THEN <<>> ELSE <<translated[i]>>])

\* What the constructor of FileSource makes of a file; a mark stays in it.
FileSourceText(file) ==
    LET buffer == Utf8(file, "utf8")
    IN FlattenSeq([i \in DOMAIN buffer |->
           IF buffer[i] # CR THEN <<buffer[i]>>
           ELSE IF BeforeLF(buffer, i) THEN <<>> ELSE <<LF>>])
=============================================================================
