------------------------------- MODULE RtspText ------------------------------
(***************************************************************************)
(* The conversions both programs read and write RTSP messages with.  A     *)
(* text is a sequence of tokens: words, separators and single digits.      *)
(***************************************************************************)
EXTENDS Integers, Sequences, SequencesExt

CRLF == "CRLF"
Blank == {" ", CRLF}
Digit == <<"0", "1", "2", "3", "4", "5", "6", "7", "8", "9">>

(* What printf makes of %u, the reference for itoa.                        *)
Decimal[n \in Nat] ==
  IF n < 10 THEN <<Digit[n + 1]>> ELSE Append(Decimal[n \div 10], Digit[(n % 10) + 1])

(* itoa: the greatest power of ten in the number, then a digit for each.   *)
Power[i \in Nat] == IF i < 10 THEN 1 ELSE 10 * Power[i \div 10]

Digits[power \in Nat] == [number \in Nat |->
  IF power = 0 THEN <<>>
  ELSE <<Digit[(number \div power) + 1]>> \o Digits[power \div 10][number % power]]

(* Seeded fault: the loop ends before the last digit.                      *)
Itoa_short(number) == Digits[Power[number] \div 10][number \div 10]

Itoa(number) == Digits[Power[number]][number]

(* The place of the first token of Stop in s, else that after the end; and *)
(* what is before, from and after it.                                      *)
FirstIn(s, Stop) == Min({i \in DOMAIN s : s[i] \in Stop} \cup {Len(s) + 1})
Before(s, Stop) == SubSeq(s, 1, FirstIn(s, Stop) - 1)
From(s, Stop) == SubSeq(s, FirstIn(s, Stop), Len(s))
After(s, Stop) == SubSeq(s, FirstIn(s, Stop) + 1, Len(s))

SkipBlanks(s) == SubSeq(s, Min({i \in DOMAIN s : s[i] \notin Blank} \cup {Len(s) + 1}), Len(s))

(* atoi: the digits at the start, after blanks; 0 if there are none.       *)
Number[digits \in Seq(ToSet(Digit))] ==
  IF digits = <<>> THEN 0
  ELSE 10 * Number[Front(digits)] + (CHOOSE d \in 0 .. 9 : Digit[d + 1] = Last(digits))

LeadingDigits(s) ==
  SubSeq(s, 1, Min({i \in DOMAIN s : s[i] \notin ToSet(Digit)} \cup {Len(s) + 1}) - 1)

Atoi(s) == Number[LeadingDigits(SkipBlanks(s))]

(* tolower on the words that have capitals.                                *)
LowerWord(c) ==
  CASE c \in {"CSeq", "Cseq"} -> "cseq"
    [] c = "Session" -> "session"
    [] c = "Transport" -> "transport"
    [] c = "Range" -> "range"
    [] c = "If-Modified-Since" -> "if-modified-since"
    [] c = "RTP/UDP" -> "rtp/udp"
    [] c = "RTP/TCP" -> "rtp/tcp"
    [] c = "Compression" -> "compression"
    [] OTHER -> c

(* splitNameAndValue: the name in small letters, and the rest of the line  *)
(* after the stop token, which the code leaves in the line's own buffer.   *)
Lower(s) == [i \in DOMAIN s |-> LowerWord(s[i])]
Name(line, stop) == Lower(Before(SkipBlanks(line), {stop}))
Value(line, stop) == Before(SkipBlanks(After(SkipBlanks(line), {stop})), {CRLF})
Split(line, stop) == [name |-> Name(line, stop), value |-> Value(line, stop)]

(* The k-th of the parts that stop separates is read by splitting k times. *)
Part(s, stop, k) ==
  LET rest[i \in 0 .. k] == IF i = 0 THEN s ELSE Value(rest[i - 1], stop)
  IN Name(rest[k - 1], stop)

------------------------------------------------------------------------------
(* Header lines: the list of their names and values.                       *)
Parsed(lines) == [i \in DOMAIN lines |-> Split(lines[i], ":")]

(* fieldExist and fieldNotExist give the first field of a name.            *)
FieldExists(header, name) == \E i \in DOMAIN header : header[i].name = <<name>>
Field(header, name) == header[SelectInSeq(header, LAMBDA f : f.name = <<name>>)].value

------------------------------------------------------------------------------
(* The name of the requested file.                                         *)

(* decodeURL, on the escapes of well-formed URLs.                          *)
DecodeURL(url) == [i \in DOMAIN url |-> IF url[i] = "%2F" THEN "/" ELSE url[i]]

(* Seeded fault: doubled slashes stay.                                     *)
PathBelowCurrentDirectory_doubled(url) ==
  LET path == IF url # <<>> /\ Head(url) = "rtsp://" THEN From(url, {"/"}) ELSE url
  IN IF path = <<>> THEN <<".">> ELSE IF Head(path) = "/" THEN Tail(path) ELSE path

(* pathBelowCurrentDirectory: without the server's name, "/.." before a    *)
(* slash, a slash before another, and the first slash.                     *)
PathBelowCurrentDirectory(url) ==
  LET source == IF url # <<>> /\ Head(url) = "rtsp://" THEN From(url, {"/"}) ELSE url
      Clean[i \in 1 .. Len(source) + 1] ==
        LET rest == SubSeq(source, i, Len(source)) IN
        IF rest = <<>> THEN <<>>
        ELSE IF IsPrefix(<<"/", "..", "/">>, rest) THEN Clean[i + 2]
        ELSE IF IsPrefix(<<"/", "/">>, rest) THEN Clean[i + 1]
        ELSE <<Head(rest)>> \o Clean[i + 1]
      clean == Clean[1]
      path == IF clean # <<>> /\ Head(clean) = "/" THEN Tail(clean) ELSE clean
  IN IF path \in {<<>>, <<".", "/">>, <<".", "/", "..">>} THEN <<".">> ELSE path

------------------------------------------------------------------------------
(* Times.  A time is a day of the week; of its text only the format, the   *)
(* day and the length are told apart.                                      *)
TIME_SIZE == 32
Formats == <<"rfc1123", "rfc850", "asctime">>
DayLength == [Sunday |-> 6, Monday |-> 6, Tuesday |-> 7, Wednesday |-> 9,
              Thursday |-> 8, Friday |-> 6, Saturday |-> 8]

(* "Sun, 06 Nov 1994 08:49:37 GMT", "Sunday, 06-Nov-94 08:49:37 GMT" and   *)
(* "Sun Nov  6 08:49:37 1994"                                              *)
TextLength(day, i) == CASE i = 1 -> 29 [] i = 2 -> DayLength[day] + 24 [] i = 3 -> 24

(* convertTimeFormat.  strftime writes no time if text and end do not fit  *)
(* in TIME_SIZE; the buffer then holds what malloc gave, which is no time: *)
(* the text of a time is never freed.  asctime has a buffer of its own.    *)
ConvertTimeFormat(day, i) ==
  IF i \in {1, 2, 3} /\ (i = 3 \/ TextLength(day, i) < TIME_SIZE)
    THEN <<Formats[i], day>> ELSE <<"uninitialised">>

(* Seeded fault: the last of the formats is not compared.                  *)
CompareModifiedTime_two(day, value) == \E i \in 1 .. 2 : value = ConvertTimeFormat(day, i)

(* The loop runs to NUMBER_SIZE - 1, one further than there are formats.   *)
CompareModifiedTime(day, value) == \E i \in 1 .. 4 : value = ConvertTimeFormat(day, i)
==============================================================================
