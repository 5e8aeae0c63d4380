---------------------------- MODULE JsonStrings ----------------------------
(***************************************************************************)
(* Strings in target/super/json/json.c: encode_one turns the bytes of a    *)
(* Janet string into characters and escapes, decode_string turns these     *)
(* into bytes.  One step handles one character.                            *)
(***************************************************************************)
EXTENDS Utf8

CONSTANTS
  Inputs,       \* byte strings given to json/encode, whose result is decoded
  Texts         \* JSON strings given to json/decode

Below(n) == {k \in Nat : k < n}

Byte == Below(256)

\* What a JSON string is made of: bytes, bytes escaped, and \uXXXX.
Element == [kind : {"char", "short"}, code : Byte] \cup [kind : {"hex"}, code : Below(65536)]

ASSUME StringsOfBytes == Inputs \subseteq Seq(Byte) /\ Texts \subseteq Seq(Element)

\* In JSON text: a character, a short escape for a byte, or \uXXXX.
Char(n) == [kind |-> "char", code |-> n]
Short(n) == [kind |-> "short", code |-> n]
Hex(n) == [kind |-> "hex", code |-> n]

VARIABLES
  given,        \* the byte string, or <<>>
  c,            \* position in it
  text,         \* the JSON string
  cp,           \* position in that
  bytes,        \* what decode_string has pushed
  phase         \* "encode", "decode", "done", "invalid" (encoder), "rejected" (decoder)

jsonvars == <<given, c, text, cp, bytes, phase>>

JsonInit == /\ c = 1 /\ cp = 1 /\ bytes = <<>>
            /\ \/ given \in Inputs /\ text = <<>> /\ phase = "encode"
               \/ given = <<>> /\ text \in Texts /\ phase = "decode"

-----------------------------------------------------------------------------
(* encode_one *)

\* Length by the lead byte, as the code tells it.
Lead(b) == CASE b < 128 -> 1
             [] 128 =< b /\ b < 224 -> 2
             [] 224 =< b /\ b < 240 -> 3
             [] 240 =< b /\ b < 248 -> 4
             [] OTHER -> 0

\* The n bytes from c are there and those behind the first are continuations.
Continued(n) == /\ n > 0 /\ c + n - 1 =< Len(given)
                /\ \A k \in 1..(n - 1) : given[c + k] \div 64 = 2

low6(k) == given[c + k] % 64

\* Mutant: reads the lead of a sequence of three like that of two.
codepoint_masked(n) ==
  CASE n = 1 -> given[c]
    [] n = 2 -> (given[c] % 32) * 64 + low6(1)
    [] n = 3 -> (given[c] % 32) * 64 + low6(2)
    [] n = 4 -> (given[c] % 8) * 262144 + low6(1) * 4096 + low6(3) * 64 + low6(3)

\* In a sequence of four the third byte is not read; the fourth is read twice.
codepoint(n) == CASE n = 1 -> given[c]
                  [] n = 2 -> (given[c] % 32) * 64 + low6(1)
                  [] n = 3 -> (given[c] % 16) * 4096 + low6(1) * 64 + low6(2)
                  [] n = 4 -> (given[c] % 8) * 262144 + low6(1) * 4096 + low6(3) * 64 + low6(3)

\* tohex takes the lowest 16 bits.
Escaped(n) == CASE n \in {34, 92} -> <<Short(n)>>
                [] 32 =< n /\ n < 128 /\ n \notin {34, 92} -> <<Char(n)>>
                [] n < 32 \/ (128 =< n /\ n < 65536) -> <<Hex(n)>>
                [] OTHER -> << Hex(((n - 65536) \div 1024 + 55296) % 65536),
                               Hex(((n - 65536) % 1024) + 56320) >>

EncodeOne == LET n == Lead(given[c]) IN
             /\ phase = "encode" /\ c =< Len(given)
             /\ IF Continued(n)
                THEN /\ text' = text \o Escaped(codepoint(n))
                     /\ c' = c + n /\ phase' = phase
                ELSE phase' = "invalid" /\ UNCHANGED <<text, c>>
             /\ UNCHANGED <<given, cp, bytes>>

Encoded == /\ phase = "encode" /\ c > Len(given)
           /\ phase' = "decode"
           /\ UNCHANGED <<given, c, text, cp, bytes>>

-----------------------------------------------------------------------------
(* decode_string, and the loop in decode_one for a string without escapes. *)

Utf8Bytes(n) ==
  CASE n < 128 -> <<n>>
    [] 128 =< n /\ n < 2048 -> <<192 + ((n \div 64) % 32), 128 + (n % 64)>>
    [] 2048 =< n /\ n < 65536 -> <<224 + ((n \div 4096) % 16), 128 + ((n \div 64) % 64), 128 + (n % 64)>>
    [] OTHER -> <<240 + ((n \div 262144) % 8), 128 + ((n \div 4096) % 64),
                  128 + ((n \div 64) % 64), 128 + (n % 64)>>

High(n) == 55296 =< n /\ n < 56320
Low(n) == 56320 =< n /\ n < 57344

Push(bs, n) == bytes' = bytes \o bs /\ cp' = cp + n /\ phase' = phase
Reject == phase' = "rejected" /\ UNCHANGED <<bytes, cp>>

\* Mutant: a low surrogate on its own is taken.
DecodeHex_lone(n) ==
  IF High(n) /\ cp < Len(text) /\ text[cp + 1].kind = "hex" /\ Low(text[cp + 1].code)
  THEN Push(Utf8Bytes((n - 55296) * 1024 + (text[cp + 1].code - 56320) + 65536), 2)
  ELSE IF High(n) THEN Reject ELSE Push(Utf8Bytes(n), 1)

\* \uXXXX: one escape, or two for a surrogate pair.
DecodeHex(n) ==
  IF High(n) /\ cp < Len(text) /\ text[cp + 1].kind = "hex" /\ Low(text[cp + 1].code)
  THEN Push(Utf8Bytes((n - 55296) * 1024 + (text[cp + 1].code - 56320) + 65536), 2)
  ELSE IF High(n) \/ Low(n) THEN Reject ELSE Push(Utf8Bytes(n), 1)

DecodeOne ==
  /\ phase = "decode" /\ cp =< Len(text)
  /\ LET t == text[cp] IN
     \/ t.kind = "char" /\ t.code >= 32 /\ Push(<<t.code>>, 1)
     \/ t.kind = "char" /\ t.code < 32 /\ Reject
     \/ t.kind = "short" /\ t.code \in {8, 9, 10, 12, 13, 34, 47, 92} /\ Push(<<t.code>>, 1)
     \/ t.kind = "short" /\ t.code \notin {8, 9, 10, 12, 13, 34, 47, 92} /\ Reject
     \/ t.kind = "hex" /\ DecodeHex(t.code)
  /\ UNCHANGED <<given, c, text>>

Decoded == /\ phase = "decode" /\ cp > Len(text)
           /\ phase' = "done"
           /\ UNCHANGED <<given, c, text, cp, bytes>>

JsonNext == EncodeOne \/ Encoded \/ DecodeOne \/ Decoded

-----------------------------------------------------------------------------
(* Properties *)

\* A string that is UTF-8 comes back as it was, in all planes (README of the
\* module: surrogates are supported as per the JSON spec).
RoundTripAll ==
  WellFormed(given) =>
    /\ phase \notin {"invalid", "rejected"} \/ given = <<>>
    /\ phase = "done" /\ given # <<>> => bytes = given

\* A string of characters of the basic plane comes back as it was.
RoundTrip == ~Astral(given) => RoundTripAll

\* Whatever escapes a JSON text has, the decoder delivers UTF-8 if the characters
\* between them are; and what is not UTF-8 and yet gets through the encoder is
\* changed or rejected when it is decoded: no malformed string comes back as if
\* nothing were wrong with it.
DeliversUtf8 ==
  phase = "done" =>
    /\ (\A k \in DOMAIN text : text[k].kind = "char" => text[k].code < 128) => WellFormed(bytes)
    /\ ~WellFormed(given) => bytes # given
=============================================================================
