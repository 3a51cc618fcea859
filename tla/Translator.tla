----------------------------- MODULE Translator -----------------------------
(***************************************************************************)
(* Characters: Default_Translator with its escapes, and the converters of  *)
(* YAML_Converter.cpp between UTF-8 and UTF-16 that it works over.         *)
(*                                                                         *)
(* A text is a sequence of bytes.  A printable byte is the character it    *)
(* is, any other (and the grave accent, which a TLA+ string cannot hold)   *)
(* has a name: that of the control character, or "x" and its two digits.   *)
(* UTF-16 units are numbers, so that their widths and the surrogates are   *)
(* those of the code.                                                      *)
(***************************************************************************)
EXTENDS ParserText, TLC

Printable ==
    <<" ", "!", "\"", "#", "$", "%", "&", "'", "(", ")", "*", "+", ",", "-", ".", "/",
      "0", "1", "2", "3", "4", "5", "6", "7", "8", "9", ":", ";", "<", "=", ">", "?",
      "@", "A", "B", "C", "D", "E", "F", "G", "H", "I", "J", "K", "L", "M", "N", "O",
      "P", "Q", "R", "S", "T", "U", "V", "W", "X", "Y", "Z", "[", "\\", "]", "^", "_",
      "x60", "a", "b", "c", "d", "e", "f", "g", "h", "i", "j", "k", "l", "m", "n", "o",
      "p", "q", "r", "s", "t", "u", "v", "w", "x", "y", "z", "{", "|", "}", "~">>
CR == "\r"
Control == (7 :> "BEL") @@ (8 :> "BS") @@ (9 :> Tab) @@ (10 :> LF) @@ (11 :> "VT")
           @@ (12 :> "FF") @@ (13 :> CR) @@ (27 :> "ESC")
HexDigits == <<"0", "1", "2", "3", "4", "5", "6", "7", "8", "9",
               "A", "B", "C", "D", "E", "F">>
LowerHexDigits == [i \in 1..16 |-> IF i <= 10 THEN HexDigits[i] ELSE Printable[55 + i]]

\* The name of a byte, and its number.
Char == [n \in 0..255 |->
            IF n \in 32..126 THEN Printable[n - 31]
            ELSE IF n \in DOMAIN Control THEN Control[n]
            ELSE "x" \o HexDigits[(n \div 16) + 1] \o HexDigits[(n % 16) + 1]]
Code == [ch \in {Char[n] : n \in 0..255} |-> CHOOSE n \in 0..255 : Char[n] = ch]
-----------------------------------------------------------------------------
\* The converter of the C++ library.  A code point above 16 bits is a pair of
\* surrogates.
Upper(unit) == unit \in 55296..56319
Lower(unit) == unit \in 56320..57343
Units(point) ==
    IF point < 65536 THEN <<point>>
    ELSE <<55296 + (point - 65536) \div 1024, 56320 + ((point - 65536) % 1024)>>
Encoded(point) ==
    LET Following(n) == [i \in 1..n |-> 128 + ((point \div (64 ^ (n - i))) % 64)]
    IN IF point < 128 THEN <<point>>
       ELSE IF point < 2048 THEN <<192 + point \div 64>> \o Following(1)
       ELSE IF point < 65536 THEN <<224 + point \div 4096>> \o Following(2)
       ELSE <<240 + point \div 262144>> \o Following(3)

\* How many bytes a character has, by its first, and the code point they are.
Length(lead) == IF lead < 128 THEN 1 ELSE IF lead < 224 THEN 2
                ELSE IF lead < 240 THEN 3 ELSE 4
Point(bytes) ==
    FoldLeft(LAMBDA point, byte : point * 64 + (byte % 64),
             IF Len(bytes) = 1 THEN bytes[1] ELSE bytes[1] % (2 ^ (7 - Len(bytes))),
             Tail(bytes))

\* Texts are whole characters.
RECURSIVE UnitsOf(_)
UnitsOf(bytes) ==
    IF bytes = <<>> THEN <<>>
    ELSE Units(Point(SubSeq(bytes, 1, Length(bytes[1]))))
         \o UnitsOf(SubSeq(bytes, Length(bytes[1]) + 1, Len(bytes)))
toUtf16(utf8) == UnitsOf([i \in DOMAIN utf8 |-> Code[utf8[i]]])

RECURSIVE BytesOf(_)
BytesOf(utf16) ==
    IF utf16 = <<>> THEN <<>>
    ELSE IF Upper(utf16[1])
    THEN Encoded(65536 + (utf16[1] - 55296) * 1024 + utf16[2] - 56320)
         \o BytesOf(SubSeq(utf16, 3, Len(utf16)))
    ELSE Encoded(utf16[1]) \o BytesOf(Tail(utf16))
toUtf8(utf16) == LET bytes == BytesOf(utf16) IN [i \in DOMAIN bytes |-> Char[bytes[i]]]

\* A surrogate that is no half of a pair, or a null character, is refused.
Unpaired(utf16) ==
    \E i \in DOMAIN utf16 :
        \/ Upper(utf16[i]) /\ (i = Len(utf16) \/ ~Lower(utf16[i + 1]))
        \/ Lower(utf16[i]) /\ (i = 1 \/ ~Upper(utf16[i - 1]))
toUtf8Throws(utf16) == 0 \in ToSet(utf16) \/ Unpaired(utf16)
-----------------------------------------------------------------------------
\* Escapes of one character.  fromEscape knows some that "to" does not print.
toEscape == (92 :> "\\") @@ (9 :> "t") @@ (34 :> "\"") @@ (8 :> "b") @@ (12 :> "f")
            @@ (10 :> "n") @@ (13 :> "r") @@ (7 :> "a") @@ (11 :> "v") @@ (27 :> "e")
            @@ (133 :> "N") @@ (160 :> "_") @@ (8232 :> "L") @@ (8233 :> "P")
fromEscape == [key \in {toEscape[unit] : unit \in DOMAIN toEscape} |->
                   CHOOSE unit \in DOMAIN toEscape : toEscape[unit] = key]
              @@ ("0" :> 0) @@ (Space :> 32) @@ ("/" :> 47) @@ (Tab :> 9)

Hex(n, width) ==
    [i \in 1..width |-> HexDigits[((n \div (16 ^ (width - i))) % 16) + 1]]
encodeUTF16(unit) == <<"\\", "u">> \o Hex(unit, 4)

\* Default_Translator::to
to(rawString) ==
    LET units == toUtf16(rawString)
    IN FlattenSeq([i \in DOMAIN units |->
           IF units[i] \in DOMAIN toEscape THEN <<"\\", toEscape[units[i]]>>
           ELSE IF units[i] \in 32..126 THEN <<Char[units[i]]>>
           ELSE encodeUTF16(units[i])])
-----------------------------------------------------------------------------
\* decodeUTF8, decodeUTF16 and decodeUTF32: how many digits follow the letter.
Width == ("x" :> 2) @@ ("u" :> 4) @@ ("U" :> 8)
DigitValue == [ch \in ToSet(HexDigits) \union ToSet(LowerHexDigits) |->
                  CHOOSE n \in 0..15 : ch \in {HexDigits[n + 1], LowerHexDigits[n + 1]}]
HexValue(digits) == FoldLeft(LAMBDA n, ch : n * 16 + DigitValue[ch], 0, digits)

\* An escape without all its digits is refused here; the code asks for one too
\* few, as it counts the letter, and then reads the byte behind the text.
Digits16(escaped) ==
    LET width == Width[escaped[1]]
    IN IF Len(escaped) <= width THEN <<>> ELSE SubSeq(escaped, 2, width + 1)
DecodeThrows(escaped) ==
    LET digits == Digits16(escaped)
    IN \/ digits = <<>>
       \/ ~(ToSet(digits) \subseteq DOMAIN DigitValue)
       \/ escaped[1] = "U" /\ ~(digits[1] = "0" /\ digits[2] = "0" /\ HexValue(digits) < 1114112)

\* The units of a text with escapes.  A byte that is no escape becomes a unit
\* by itself, a char with its sign; a text that is refused has the unit 0.
RECURSIVE Unescaped(_)
Unescaped(escaped) ==
    IF escaped = <<>> THEN <<>>
    ELSE IF escaped[1] # "\\"
    THEN LET code == Code[escaped[1]]
         IN <<IF code < 128 THEN code ELSE 65280 + code>> \o Unescaped(Tail(escaped))
    ELSE IF Len(escaped) = 1 THEN <<0>>
    ELSE IF escaped[2] \in DOMAIN fromEscape
    THEN <<fromEscape[escaped[2]]>> \o Unescaped(SubSeq(escaped, 3, Len(escaped)))
    ELSE IF escaped[2] \notin DOMAIN Width \/ DecodeThrows(Tail(escaped)) THEN <<0>>
    ELSE Units(HexValue(Digits16(Tail(escaped))))
         \o Unescaped(SubSeq(escaped, 3 + Width[escaped[2]], Len(escaped)))

\* Default_Translator::from
from(escapedString) == toUtf8(Unescaped(escapedString))
fromThrows(escapedString) == toUtf8Throws(Unescaped(escapedString))
=============================================================================
