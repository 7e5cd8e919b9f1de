-------------------------- MODULE RtspRequestsProofs -------------------------
(***************************************************************************)
(* Theorems about RtspDialogue: which requests the server answers, for all *)
(* ports, session numbers, names, days and numbers of requests, and in     *)
(* which order their lines may come.                                       *)
(***************************************************************************)
EXTENDS RtspDialogueProofs

------------------------------------------------------------------------------
(* The requests on their way.                                              *)

CseqLine(n) == Line("CSeq", Decimal[n])
SessionLine == Line("Session", Decimal[client.session_id])
TimeLine(i, d) == Line("If-Modified-Since", <<Formats[i], d>>)

(* What a request may name besides: a range, or a time.                    *)
Options(kind) ==
  IF kind = "unmodified" THEN {{TimeLine(i, day)} : i \in 1 .. 3}
  ELSE {{}} \cup {{Line("Range", r)} : r \in Ranges}
            \cup {{TimeLine(i, "Sunday")} : i \in IF day = "Sunday" THEN {} ELSE 1 .. 3}

(* A request with the lines its method needs, in whatever order.           *)
Complete(q) ==
  /\ q.kind \in {"good", "unmodified"} /\ q.method \in Methods
  /\ Path(q.url) \in Existing
  /\ q.lines \in Seq(Text)
  /\ \E n \in 1 .. MaxCseq, option \in Options(q.kind) :
       ToSet(q.lines) = {CseqLine(n), UserAgent,
                         IF q.method = "SETUP" THEN Line("Transport", Udp) ELSE SessionLine}
                        \cup option

Defective(q) ==
  /\ q.kind = "defective"
  /\ \E d \in Defects : q.method = d.method /\ q.url = d.url /\ q.lines = d.lines

RequestFormed ==
  turn = "serve" => Defective(request) \/ (Complete(request) /\ Sensitive(request.method))

------------------------------------------------------------------------------
(* What is read depends on the set of the lines.                           *)

Named(lines, name) == {l \in ToSet(lines) : Split(l, ":").name = <<name>>}

LEMMA LinesAndFields ==
  ASSUME NEW lines \in Seq(Text)
  PROVE  LET header == Parsed(lines)
         IN /\ header \in Seq(Fields) /\ Len(header) \in Nat
            /\ \A i \in 1 .. Len(header) : lines[i] \in ToSet(lines) /\ header[i] = Split(lines[i], ":")
            /\ \A l \in ToSet(lines) : \E i \in 1 .. Len(header) : lines[i] = l
<1>1. DOMAIN lines = 1 .. Len(lines) /\ Len(lines) \in Nat
  BY LenProperties
<1> DEFINE header == Parsed(lines)
<1>2. /\ header \in Seq(Fields) /\ Len(header) = Len(lines)
      /\ \A i \in 1 .. Len(lines) : header[i] = Split(lines[i], ":")
  BY ParsedLines
<1> HIDE DEF header
<1>3. /\ \A i \in 1 .. Len(lines) : lines[i] \in ToSet(lines)
      /\ \A l \in ToSet(lines) : \E i \in 1 .. Len(lines) : lines[i] = l
  BY <1>1 DEF ToSet
<1> QED BY <1>1, <1>2, <1>3 DEF header

LEMMA FieldIsThere ==
  ASSUME NEW lines \in Seq(Text), NEW name
  PROVE  FieldExists(Parsed(lines), name) <=> Named(lines, name) # {}
<1> DEFINE header == Parsed(lines)
<1>1. /\ header \in Seq(Fields) /\ Len(header) \in Nat
      /\ \A i \in 1 .. Len(header) : lines[i] \in ToSet(lines) /\ header[i] = Split(lines[i], ":")
      /\ \A l \in ToSet(lines) : \E i \in 1 .. Len(header) : lines[i] = l
  BY LinesAndFields
<1> HIDE DEF header
<1>2. DOMAIN header = 1 .. Len(header)
  BY <1>1, LenProperties
<1>3. ASSUME FieldExists(header, name)
      PROVE  Named(lines, name) # {}
  <2>1. PICK i \in 1 .. Len(header) : header[i].name = <<name>>
    BY <1>2, <1>3 DEF FieldExists
  <2>2. lines[i] \in Named(lines, name)
    BY <1>1, <2>1 DEF Named
  <2> QED BY <2>2
<1>4. ASSUME Named(lines, name) # {}
      PROVE  FieldExists(header, name)
  <2>1. PICK l \in ToSet(lines) : Split(l, ":").name = <<name>>
    BY <1>4 DEF Named
  <2>2. PICK i \in 1 .. Len(header) : lines[i] = l
    BY <1>1
  <2>3. header[i].name = <<name>>
    BY <1>1, <2>1, <2>2
  <2> QED BY <1>2, <2>3 DEF FieldExists
<1> QED BY <1>3, <1>4 DEF header

(* If the lines of a name agree, it does not matter which of them counts.  *)
LEMMA FieldIsValue ==
  ASSUME NEW lines \in Seq(Text), NEW name, Named(lines, name) # {},
         NEW v, \A l \in Named(lines, name) : Split(l, ":").value = v
  PROVE  Field(Parsed(lines), name) = v /\ LastField(Parsed(lines), name) = v
<1> DEFINE header == Parsed(lines)
           I == {i \in 1 .. Len(header) : header[i].name = <<name>>}
           k == SelectLastInSeq(header, LAMBDA f : f.name = <<name>>)
<1>1. /\ header \in Seq(Fields) /\ Len(header) \in Nat
      /\ \A i \in 1 .. Len(header) : lines[i] \in ToSet(lines) /\ header[i] = Split(lines[i], ":")
  BY LinesAndFields
<1>2. FieldExists(header, name)
  BY FieldIsThere
<1> HIDE DEF header
<1>3. ASSUME NEW i \in 1 .. Len(header), header[i].name = <<name>>
      PROVE  header[i].value = v
  <2>1. lines[i] \in Named(lines, name)
    BY <1>1, <1>3 DEF Named
  <2> QED BY <1>1, <2>1
<1>4. Field(header, name) = v
  BY <1>1, <1>2, <1>3, FieldThere
<1>5. DOMAIN header = 1 .. Len(header)
  BY <1>1, LenProperties
<1>6. I # {} /\ I \in SUBSET (1 .. Len(header))
  BY <1>2, <1>5 DEF FieldExists
<1>7. k = Max(I)
  BY <1>6 DEF SelectLastInSeq
<1>8. LastField(header, name) = IF k = 0 THEN <<>> ELSE header[k].value
  BY DEF LastField
<1> HIDE DEF k
<1>9. Max(I) \in I
  <2> HIDE DEF I
  <2> QED BY <1>1, <1>6, GreatestOf
<1>10. k \in 1 .. Len(header) /\ header[k].name = <<name>>
  BY <1>7, <1>9
<1> QED BY <1>3, <1>4, <1>8, <1>10 DEF header

LEMMA NoField ==
  ASSUME NEW lines \in Seq(Text), NEW name, Named(lines, name) = {}
  PROVE  LastField(Parsed(lines), name) = <<>>
<1> DEFINE header == Parsed(lines)
<1>1. ~ FieldExists(header, name)
  BY FieldIsThere
<1>2. header \in Seq(Fields)
  BY LinesAndFields
<1> HIDE DEF header
<1>3. ~ \E i \in 1 .. Len(header) : header[i].name = <<name>>
  BY <1>1, <1>2, LenProperties DEF FieldExists
<1> QED BY <1>2, <1>3, LastFieldThere DEF header

(* The session is the server's unless a line names another.                *)
LEMMA SessionIsRight ==
  ASSUME NEW lines \in Seq(Text), NEW session
  PROVE  WrongSession(Parsed(lines), session) = 0
           <=> \A l \in Named(lines, "session") : Atoi(Split(l, ":").value) = session
<1> DEFINE header == Parsed(lines)
           I == {i \in 1 .. Len(header) : header[i].name = <<"session">>
                                            /\ Atoi(header[i].value) # session}
<1>1. /\ header \in Seq(Fields) /\ Len(header) \in Nat
      /\ \A i \in 1 .. Len(header) : lines[i] \in ToSet(lines) /\ header[i] = Split(lines[i], ":")
      /\ \A l \in ToSet(lines) : \E i \in 1 .. Len(header) : lines[i] = l
  BY LinesAndFields
<1> HIDE DEF header
<1>2. WrongSession(header, session) = IF I # {} THEN Min(I) ELSE 0
  BY DEF WrongSession, SelectInSeq
<1>3. I # {} => Min(I) # 0
  <2>1. I \in SUBSET Nat /\ 0 \notin I
    BY <1>1
  <2> HIDE DEF I
  <2> QED BY <2>1, LeastOf
<1>4. ASSUME NEW i \in I
      PROVE  ~ \A l \in Named(lines, "session") : Atoi(Split(l, ":").value) = session
  <2>1. lines[i] \in Named(lines, "session") /\ Atoi(Split(lines[i], ":").value) # session
    BY <1>1 DEF Named
  <2> QED BY <2>1
<1>5. ASSUME NEW l \in Named(lines, "session"), Atoi(Split(l, ":").value) # session
      PROVE  I # {}
  <2>1. PICK i \in 1 .. Len(header) : lines[i] = l
    BY <1>1 DEF Named
  <2>2. i \in I
    BY <1>1, <1>5, <2>1 DEF Named
  <2> QED BY <2>2
<1> QED BY <1>2, <1>3, <1>4, <1>5 DEF header

------------------------------------------------------------------------------
(* The lines of a request as a set.                                        *)

LEMMA SetOfLines ==
  /\ \A a : ToSet(<<a>>) = {a}
  /\ \A a, b : ToSet(<<a, b>>) = {a, b}
  /\ \A a, b, c : ToSet(<<a, b, c>>) = {a, b, c}
<1>1. ASSUME NEW a PROVE ToSet(<<a>>) = {a}
  BY DEF ToSet
<1>2. ASSUME NEW a, NEW b PROVE ToSet(<<a, b>>) = {a, b}
  BY DEF ToSet
<1>3. ASSUME NEW a, NEW b, NEW c PROVE ToSet(<<a, b, c>>) = {a, b, c}
  BY DEF ToSet
<1> QED BY <1>1, <1>2, <1>3

LEMMA OneLineMore ==
  ASSUME NEW S, NEW s \in Seq(S), NEW x \in S
  PROVE  ToSet(Append(s, x)) = ToSet(s) \cup {x} /\ ToSet(s \o <<x>>) = ToSet(s) \cup {x}
<1> DEFINE t == Append(s, x)
<1>1. Len(s) \in Nat /\ DOMAIN s = 1 .. Len(s)
  BY LenProperties
<1>2. t \in Seq(S) /\ Len(t) = Len(s) + 1 /\ t[Len(s) + 1] = x /\ \A i \in 1 .. Len(s) : t[i] = s[i]
  BY AppendProperties
<1>3. DOMAIN t = 1 .. Len(s) + 1
  BY <1>2, LenProperties
<1>4. t = s \o <<x>>
  BY AppendIsConcat
<1> HIDE DEF t
<1>5. ASSUME NEW y \in ToSet(t)
      PROVE  y \in ToSet(s) \cup {x}
  <2>1. PICK i \in 1 .. Len(s) + 1 : y = t[i]
    BY <1>3 DEF ToSet
  <2>2. CASE i = Len(s) + 1
    BY <1>2, <2>1, <2>2
  <2>3. CASE i \in 1 .. Len(s)
    BY <1>1, <1>2, <2>1, <2>3 DEF ToSet
  <2> QED BY <1>1, <2>1, <2>2, <2>3
<1>6. ToSet(s) \subseteq ToSet(t)
  <2>1. \A i \in 1 .. Len(s) : i \in 1 .. Len(s) + 1
    BY <1>1
  <2> QED BY <1>1, <1>2, <1>3, <2>1 DEF ToSet
<1>7. x \in ToSet(t)
  <2>1. Len(s) + 1 \in 1 .. Len(s) + 1
    BY <1>1
  <2> QED BY <1>2, <1>3, <2>1 DEF ToSet
<1>8. ToSet(t) = ToSet(s) \cup {x}
  BY <1>5, <1>6, <1>7
<1> QED BY <1>4, <1>8 DEF t

LEMMA SameLinesReversed ==
  ASSUME NEW S, NEW s \in Seq(S)
  PROVE  ToSet(Reverse(s)) = ToSet(s)
<1>1. Len(s) \in Nat /\ DOMAIN s = 1 .. Len(s)
  BY LenProperties
<1>2. DOMAIN Reverse(s) = 1 .. Len(s) /\ \A i \in 1 .. Len(s) : Reverse(s)[i] = s[(Len(s) - i) + 1]
  BY DEF Reverse
<1>3. \A i \in 1 .. Len(s) : (Len(s) - i) + 1 \in 1 .. Len(s) /\ (Len(s) - ((Len(s) - i) + 1)) + 1 = i
  BY <1>1
<1>4. ASSUME NEW i \in 1 .. Len(s)
      PROVE  Reverse(s)[i] \in ToSet(s) /\ s[i] \in ToSet(Reverse(s))
  <2> DEFINE j == (Len(s) - i) + 1
  <2>1. j \in 1 .. Len(s) /\ (Len(s) - j) + 1 = i
    BY <1>3
  <2> HIDE DEF j
  <2>2. Reverse(s)[j] = s[i]
    BY <1>2, <2>1
  <2>3. s[i] \in ToSet(Reverse(s))
    BY <1>2, <2>1, <2>2 DEF ToSet
  <2>4. Reverse(s)[i] = s[j]
    BY <1>2 DEF j
  <2> QED BY <1>1, <2>1, <2>3, <2>4 DEF ToSet
<1> QED BY <1>1, <1>2, <1>4 DEF ToSet

LEMMA SameLinesPermuted ==
  ASSUME NEW S, NEW s \in Seq(S), NEW p \in Bijection(DOMAIN s, DOMAIN s)
  PROVE  LET t == [i \in DOMAIN s |-> s[p[i]]] IN t \in Seq(S) /\ ToSet(t) = ToSet(s)
<1> DEFINE t == [i \in DOMAIN s |-> s[p[i]]]
<1>1. Len(s) \in Nat /\ DOMAIN s = 1 .. Len(s) /\ \A i \in DOMAIN s : s[i] \in S
  BY LenProperties, ElementOfSeq
<1>2. p \in [DOMAIN s -> DOMAIN s] /\ \A i \in DOMAIN s : \E j \in DOMAIN s : p[j] = i
  BY DEF Bijection, Injection, Surjection
<1>3. t \in Seq(S)
  BY <1>1, <1>2
<1>4. ToSet(t) = ToSet(s)
  <2>1. ASSUME NEW i \in DOMAIN s
        PROVE  t[i] \in ToSet(s) /\ s[i] \in ToSet(t)
    <3>1. PICK j \in DOMAIN s : p[j] = i
      BY <1>2
    <3>2. t[j] = s[i] /\ j \in DOMAIN t
      BY <3>1
    <3> QED BY <1>2, <3>2 DEF ToSet
  <2> QED BY <2>1 DEF ToSet
<1> QED BY <1>3, <1>4

------------------------------------------------------------------------------
(* The lines.                                                              *)

(* A value that the expression for header lines takes after a blank.       *)
Written(v) == v \in Text /\ Plain(v) /\ Last(v) # Blank1

LEMMA LineIsGood ==
  ASSUME NEW n \in Opening, n # ":", NEW v, Written(v)
  PROVE  HeaderLine(Line(n, v))
<1> DEFINE colon == ":"
           w == v \o <<CRLF>>
           line == Line(n, v)
<1>1. v \in Seq(Token) /\ v # <<>> /\ Len(v) \in Nat \ {0} /\ v[Len(v)] # Blank1
  BY EmptySeq DEF Written, Plain, Text, Last
<1>2. /\ n \in Token /\ colon \in Token /\ Blank1 \in Token /\ CRLF \in Token
      /\ n # colon /\ n \notin Blank
  BY WordsInner DEF Opening, Inner
<1>3. line = <<n, colon, Blank1>> \o v \o <<CRLF>>
  BY Zenon DEF Line, Blank1
<1>4. w \in Seq(Token) /\ Len(w) = Len(v) + 1 /\ w[Len(v) + 1] = CRLF /\ w[Len(v)] = v[Len(v)]
  <2> DEFINE end == <<CRLF>>
  <2>1. end \in Seq(Token) /\ Len(end) = 1 /\ end[1] = CRLF
    BY <1>2
  <2> HIDE DEF end
  <2>2. /\ v \o end \in Seq(Token) /\ Len(v \o end) = Len(v) + 1
        /\ \A i \in 1 .. Len(v) + 1 : (v \o end)[i] = IF i <= Len(v) THEN v[i] ELSE end[i - Len(v)]
    BY <1>1, <2>1, ConcatProperties
  <2>3. /\ Len(v) + 1 \in 1 .. Len(v) + 1 /\ Len(v) \in 1 .. Len(v) + 1
        /\ ~ (Len(v) + 1 <= Len(v)) /\ (Len(v) + 1) - Len(v) = 1
    BY <1>1
  <2>4. (v \o end)[Len(v) + 1] = end[1] /\ (v \o end)[Len(v)] = v[Len(v)]
    BY <2>2, <2>3
  <2> QED BY <2>1, <2>2, <2>4 DEF end
<1> DEFINE first == <<n, colon, Blank1>>
<1>5. first \in Seq(Token) /\ Len(first) = 3 /\ first[1] = n /\ first[2] = colon
  BY <1>2
<1>6. line = first \o w
  <2> DEFINE end == <<CRLF>>
  <2>1. end \in Seq(Token) /\ line = (first \o v) \o end
    BY <1>2, <1>3
  <2> HIDE DEF first, line, end
  <2> QED BY <1>1, <1>5, <2>1, ConcatAssociative DEF end
<1> HIDE DEF first, w, line, colon
<1>7. /\ line \in Seq(Token) /\ Len(line) = Len(v) + 4
      /\ line[1] = n /\ line[2] = colon
      /\ line[Len(v) + 4] = CRLF /\ line[Len(v) + 3] = v[Len(v)]
  <2>1. /\ line \in Seq(Token) /\ Len(line) = 3 + (Len(v) + 1)
        /\ \A i \in 1 .. 3 + (Len(v) + 1) : line[i] = IF i <= 3 THEN first[i] ELSE w[i - 3]
    <3>1. /\ first \o w \in Seq(Token) /\ Len(first \o w) = Len(first) + Len(w)
          /\ \A i \in 1 .. Len(first) + Len(w) :
               (first \o w)[i] = IF i <= Len(first) THEN first[i] ELSE w[i - Len(first)]
      BY <1>4, <1>5, ConcatProperties
    <3> QED BY <1>4, <1>5, <1>6, <3>1
  <2>2. /\ 3 + (Len(v) + 1) = Len(v) + 4 /\ (Len(v) + 4) - 3 = Len(v) + 1 /\ (Len(v) + 3) - 3 = Len(v)
        /\ ~ (Len(v) + 4 <= 3) /\ ~ (Len(v) + 3 <= 3)
        /\ \A i \in {1, 2, Len(v) + 3, Len(v) + 4} : i \in 1 .. 3 + (Len(v) + 1)
    BY <1>1
  <2> QED BY <1>4, <1>5, <2>1, <2>2
<1>8. SkipBlanks(line) = line
  <2>1. line # <<>>
    BY <1>1, <1>7, EmptySeq
  <2> QED BY <1>2, <1>7, <2>1, NothingSkipped
<1> DEFINE value == SubSeq(line, 3, Len(line) - 1)
<1>9. Len(value) = Len(v) + 1 /\ Last(value) = v[Len(v)]
  <2>1. Len(value) = Len(v) + 1 /\ value[Len(v) + 1] = line[Len(v) + 3]
    BY <1>1, <1>7
  <2> QED BY <1>7, <2>1 DEF Last
<1>10. Last(line) = CRLF
  BY <1>7 DEF Last
<1> HIDE DEF value
<1>11. Len(value) > 1 /\ Len(line) > 2
  BY <1>1, <1>7, <1>9
<1>12. HeaderLine(line) <=>
         /\ Len(line) > 2 /\ line[1] # ":" /\ line[2] = ":" /\ Last(line) = CRLF
         /\ value # <<>> => ToSet(value) = {Blank1} \/ (Len(value) > 1 /\ Last(value) # Blank1)
  BY <1>8, Zenon DEF HeaderLine, value, Blank1
<1>13. Last(value) # Blank1
  BY <1>1, <1>9
<1>14. line[1] # ":" /\ line[2] = ":"
  BY <1>2, <1>7 DEF colon
<1> QED BY <1>10, <1>11, <1>12, <1>13, <1>14, Zenon DEF line

KeyName == {"CSeq", "Session", "Transport", "Range", "If-Modified-Since"}

(* What the server makes of a line.                                        *)
LEMMA KeyLines ==
  ASSUME NEW v, Written(v)
  PROVE  /\ \A n \in KeyName \cup {"User-Agent"} :
              /\ Line(n, v) \in Text /\ HeaderLine(Line(n, v))
              /\ Split(Line(n, v), ":").value = v
         /\ Split(Line("CSeq", v), ":").name = <<"cseq">>
         /\ Split(Line("Session", v), ":").name = <<"session">>
         /\ Split(Line("Transport", v), ":").name = <<"transport">>
         /\ Split(Line("Range", v), ":").name = <<"range">>
         /\ Split(Line("If-Modified-Since", v), ":").name = <<"if-modified-since">>
         /\ Split(Line("User-Agent", v), ":").name = <<"User-Agent">>
<1>1. \A n \in KeyName \cup {"User-Agent"} : n \in OpeningWord
  BY Zenon DEF KeyName, OpeningWord
<1>2. v \in Text /\ Plain(v)
  BY DEF Written
<1>3. ASSUME NEW n \in KeyName \cup {"User-Agent"}
      PROVE  /\ Line(n, v) \in Text /\ HeaderLine(Line(n, v))
             /\ Split(Line(n, v), ":").value = v
             /\ Split(Line(n, v), ":").name = <<LowerWord(n)>>
  <2>1. n \in Opening /\ n # ":"
    BY <1>1, WordsOpen
  <2>2. Split(Line(n, v), ":").value = v
    BY <1>2, <2>1, LineIsSplit
  <2> QED BY <1>2, <2>1, <2>2, NameOfLine, LineIsGood
<1>4. LowerWord("CSeq") = "cseq"
  BY Zenon DEF LowerWord
<1>5. LowerWord("Session") = "session"
  BY Zenon DEF LowerWord
<1>6. LowerWord("Transport") = "transport"
  BY Zenon DEF LowerWord
<1>7. LowerWord("Range") = "range"
  BY Zenon DEF LowerWord
<1>8. LowerWord("If-Modified-Since") = "if-modified-since"
  BY Zenon DEF LowerWord
<1>9. LowerWord("User-Agent") = "User-Agent"
  <2>1. "User-Agent" \notin Capital
    BY Zenon DEF Capital
  <2> QED BY <2>1, SmallStays
<1>10. \A n \in {"CSeq", "Session", "Transport", "Range", "If-Modified-Since"} : n \in KeyName
  BY Zenon DEF KeyName
<1> QED BY <1>3, <1>4, <1>5, <1>6, <1>7, <1>8, <1>9, <1>10

LEMMA WrittenTokens ==
  ASSUME NEW v \in Seq(Inner), NEW n \in Nat \ {0}, Len(v) = n, v[1] \in Opening, v[n] # Blank1
  PROVE  Written(v)
<1>1. Inner \subseteq Token
  BY DEF Inner
<1>2. v \in Text
  BY <1>1, SeqMonotonic DEF Text
<1>3. v # <<>>
  BY EmptySeq
<1>4. \A i \in 1 .. Len(v) : v[i] # CRLF
  BY ElementOfSeq DEF Inner
<1> QED BY <1>2, <1>3, <1>4 DEF Written, Plain, Opening, Last

LEMMA NumbersWritten ==
  ASSUME NEW n \in Nat
  PROVE  Written(Decimal[n]) /\ Atoi(Decimal[n]) = n
<1> DEFINE d == Decimal[n]
<1>1. d \in Text /\ Plain(d) /\ Atoi(d) = n
  BY DecimalIsPlain
<1>2. d \in Seq(DigitToken) /\ d # <<>>
  BY DecimalDef, DecimalNotEmpty
<1> HIDE DEF d
<1>3. Len(d) \in Nat \ {0}
  BY <1>2, EmptySeq
<1>4. d[Len(d)] \in DigitToken
  BY <1>2, <1>3, ElementOfSeq
<1>5. d[Len(d)] # Blank1
  BY <1>4, DigitsOpen, WordsInner DEF Opening
<1> QED BY <1>1, <1>5 DEF Written, Last, d

LEMMA DaysInner == \A d \in DOMAIN DayLength : d \in Inner /\ d # Blank1
<1>1. DOMAIN DayLength = {"Sunday", "Monday", "Tuesday", "Wednesday", "Thursday", "Friday", "Saturday"}
  BY DEF DayLength
<1>2. \A d \in {"Sunday", "Monday", "Tuesday", "Wednesday", "Thursday", "Friday", "Saturday"} :
        d # "CRLF" /\ d # " "
  BY Zenon
<1> QED BY <1>1, <1>2, Zenon DEF Inner, Token, Blank1, CRLF

LEMMA TokensInner ==
  /\ \A w \in {"npt", "Networks", "client", "yesterday", "rfc1123", "rfc850", "asctime", "-", "PLAY"} :
       w \in Opening /\ w \in Inner /\ w # Blank1
  /\ \A w \in {"1", "3", "0", "7", "9"} : w \in DigitToken /\ w \in Opening /\ w \in Inner /\ w # Blank1
  /\ ":" \in Inner /\ "=" \in Inner /\ Blank1 \in Inner
<1>1. \A w \in {"npt", "Networks", "client", "yesterday", "rfc1123", "rfc850", "asctime", "-", "PLAY"} :
        w \in OpeningWord
  BY ZenonT(60) DEF OpeningWord
<1>2. \A w \in {"1", "3", "0", "7", "9"} : w \in DigitToken
  <2>1. Digit[2] = "1" /\ Digit[4] = "3" /\ Digit[1] = "0" /\ Digit[8] = "7" /\ Digit[10] = "9"
    BY DEF Digit
  <2>2. /\ Digit[2] \in DigitToken /\ Digit[4] \in DigitToken /\ Digit[1] \in DigitToken
        /\ Digit[8] \in DigitToken /\ Digit[10] \in DigitToken
    BY DEF Digit, DigitToken, ToSet
  <2> QED BY <2>1, <2>2
<1>3. \A w \in Opening : w \in Inner /\ w # Blank1
  BY WordsInner DEF Opening
<1> HIDE DEF Blank1
<1>4. \A w \in {"npt", "Networks", "client", "yesterday", "rfc1123", "rfc850", "asctime", "-", "PLAY"} :
        w \in Opening
  BY <1>1, WordsOpen
<1>5. \A w \in {"1", "3", "0", "7", "9"} : w \in Opening
  BY <1>2, DigitsOpen
<1> QED BY <1>2, <1>3, <1>4, <1>5, WordsInner

LEMMA WordsWritten ==
  /\ Written(<<"1">>) /\ Written(<<"9", "9">>) /\ Written(<<"npt", "=", "-">>)
  /\ Written(<<"yesterday">>) /\ \A r \in Ranges : Written(r)
<1>1. <<"1">> \in Seq(Inner) /\ <<"9", "9">> \in Seq(Inner) /\ <<"yesterday">> \in Seq(Inner)
  BY TokensInner
<1>2. /\ <<"npt", "=", "-">> \in Seq(Inner) /\ <<"npt", "=", "3">> \in Seq(Inner)
      /\ <<"npt", "=", "3", "-">> \in Seq(Inner) /\ <<"npt", "=", "0", "-", "7">> \in Seq(Inner)
  BY TokensInner
<1>3. Written(<<"1">>) /\ Written(<<"9", "9">>) /\ Written(<<"yesterday">>)
  <2>1. \A x, y : Len(<<x>>) = 1 /\ <<x>>[1] = x /\ Len(<<x, y>>) = 2 /\ <<x, y>>[1] = x /\ <<x, y>>[2] = y
    OBVIOUS
  <2>2. ASSUME NEW x \in Opening, x # Blank1, <<x>> \in Seq(Inner)
        PROVE  Written(<<x>>)
    BY <2>1, <2>2, WrittenTokens
  <2>3. ASSUME NEW x \in Opening, x # Blank1, <<x, x>> \in Seq(Inner)
        PROVE  Written(<<x, x>>)
    BY <2>1, <2>3, WrittenTokens
  <2>4. /\ "1" \in Opening /\ "1" # Blank1 /\ "9" \in Opening /\ "9" # Blank1
        /\ "yesterday" \in Opening /\ "yesterday" # Blank1
    BY TokensInner
  <2> QED BY <1>1, <2>2, <2>3, <2>4
<1>4. Written(<<"npt", "=", "-">>)
  <2> DEFINE v == <<"npt", "=", "-">>
  <2>1. v \in Seq(Inner) /\ Len(v) = 3 /\ v[1] = "npt" /\ v[3] = "-"
    BY <1>2
  <2>2. "npt" \in Opening /\ "-" # Blank1
    BY TokensInner
  <2> HIDE DEF v
  <2>3. Written(v)
    BY <2>1, <2>2, WrittenTokens
  <2> QED BY <2>3 DEF v
<1>5. Written(<<"npt", "=", "3">>)
  <2> DEFINE v == <<"npt", "=", "3">>
  <2>1. v \in Seq(Inner) /\ Len(v) = 3 /\ v[1] = "npt" /\ v[3] = "3"
    BY <1>2
  <2>2. "npt" \in Opening /\ "3" # Blank1
    BY TokensInner
  <2> HIDE DEF v
  <2>3. Written(v)
    BY <2>1, <2>2, WrittenTokens
  <2> QED BY <2>3 DEF v
<1>6. Written(<<"npt", "=", "3", "-">>)
  <2> DEFINE v == <<"npt", "=", "3", "-">>
  <2>1. v \in Seq(Inner) /\ Len(v) = 4 /\ v[1] = "npt" /\ v[4] = "-"
    BY <1>2
  <2>2. v[1] \in Opening /\ v[4] # Blank1 /\ 4 \in Nat \ {0}
    BY <2>1, TokensInner
  <2> HIDE DEF v
  <2>3. Written(v)
    BY <2>1, <2>2, WrittenTokens
  <2> QED BY <2>3 DEF v
<1>7. Written(<<"npt", "=", "0", "-", "7">>)
  <2> DEFINE v == <<"npt", "=", "0", "-", "7">>
  <2>1. v \in Seq(Inner) /\ Len(v) = 5 /\ v[1] = "npt" /\ v[5] = "7"
    BY <1>2
  <2>2. v[1] \in Opening /\ v[5] # Blank1 /\ 5 \in Nat \ {0}
    BY <2>1, TokensInner
  <2> HIDE DEF v
  <2>3. Written(v)
    BY <2>1, <2>2, WrittenTokens
  <2> QED BY <2>3 DEF v
<1> QED BY <1>3, <1>4, <1>5, <1>6, <1>7, Zenon DEF Ranges

LEMMA TimesWritten ==
  ASSUME NEW i \in 1 .. 3, NEW d \in DOMAIN DayLength
  PROVE  Written(<<Formats[i], d>>)
<1> DEFINE v == <<Formats[i], d>>
<1>1. Formats[i] \in {"rfc1123", "rfc850", "asctime"}
  BY DEF Formats
<1>2. v \in Seq(Inner) /\ Len(v) = 2 /\ v[1] \in Opening /\ v[2] # Blank1
  BY <1>1, TokensInner, DaysInner
<1> HIDE DEF v
<1>3. Written(v)
  BY <1>2, WrittenTokens
<1> QED BY <1>3 DEF v

LEMMA TransportsWritten ==
  ASSUME port \in Nat
  PROVE  Written(Udp) /\ Written(Tcp)
<1>1. ASSUME NEW p \in {"RTP/UDP", "RTP/TCP"}
      PROVE  Written(Transport(p))
  <2> DEFINE compression == "Compression"
             clientPort == "client_port"
             equal == "="
             a == <<p, Semicolon, Blank1, compression, Semicolon, Blank1, clientPort, equal>>
             b == Decimal[port]
             c == <<Semicolon, Blank1, "mode", "=", "PLAY">>
  <2>1. Transport(p) = (a \o b) \o c
    BY Zenon DEF Transport, Semicolon, Blank1
  <2>2. p \in OpeningWord /\ compression \in OpeningWord /\ clientPort \in OpeningWord
    BY Zenon DEF OpeningWord
  <2>3. Transport(p) \in Text /\ Plain(Transport(p))
    BY <2>2, TransportIsRead
  <2>4. c \in Seq(Inner)
    BY ModeFollows
  <2>5. Len(c) = 5 /\ c[5] = "PLAY"
    OBVIOUS
  <2>6. /\ p \in Inner /\ compression \in Inner /\ clientPort \in Inner /\ equal \in Inner
        /\ Semicolon \in Inner /\ Blank1 \in Inner
    BY <2>2, WordsOpen, WordsInner DEF Opening
  <2>7. b \in Seq(Inner)
    BY DecimalInner
  <2> HIDE DEF compression, clientPort, equal, b, c
  <2>8. a \in Seq(Inner)
    BY <2>6
  <2> HIDE DEF a
  <2> DEFINE e == a \o b
  <2>9. e \in Seq(Inner) /\ Len(e) \in Nat
    BY <2>7, <2>8, ConcatProperties, LenProperties
  <2> HIDE DEF e
  <2>10. /\ Len(e \o c) = Len(e) + Len(c)
         /\ \A i \in 1 .. Len(e) + Len(c) : (e \o c)[i] = IF i <= Len(e) THEN e[i] ELSE c[i - Len(e)]
    BY <2>4, <2>9, ConcatProperties
  <2>11. Len(e) + Len(c) \in 1 .. Len(e) + Len(c) /\ ~ (Len(e) + Len(c) <= Len(e))
         /\ (Len(e) + Len(c)) - Len(e) = 5
    BY <2>5, <2>9
  <2>12. Last(e \o c) = "PLAY"
    BY <2>5, <2>10, <2>11 DEF Last
  <2>13. "PLAY" # Blank1
    BY TokensInner
  <2>14. Last(Transport(p)) # Blank1
    BY <2>1, <2>12, <2>13 DEF e
  <2> QED BY <2>3, <2>14 DEF Written
<1> QED BY <1>1 DEF Udp, Tcp

LEMMA AgentWritten ==
  \E v : Written(v) /\ UserAgent = Line("User-Agent", v)
<1> DEFINE x1 == "Networks"
           x2 == ":"
           x4 == "client"
           v == <<x1, x2, Blank1, x4>>
<1>1. x1 \in Opening /\ x1 \in Inner /\ x2 \in Inner /\ x4 \in Inner /\ Blank1 \in Inner /\ x4 # Blank1
  BY TokensInner
<1>2. UserAgent = Line("User-Agent", v)
  BY Zenon DEF UserAgent, Blank1
<1> HIDE DEF x1, x2, x4
<1>3. v \in Seq(Inner) /\ Len(v) = 4 /\ v[1] \in Opening /\ v[4] # Blank1
  BY <1>1
<1> HIDE DEF v
<1>4. Written(v)
  <2>1. 4 \in Nat \ {0}
    OBVIOUS
  <2> QED BY <1>3, <2>1, WrittenTokens
<1> QED BY <1>2, <1>4

------------------------------------------------------------------------------
(* What the server finds in the values.                                    *)

LEMMA NoDigit == "-" \notin DigitToken
<1>1. \A i \in 1 .. 10 : Digit[i] \in {"0", "1", "2", "3", "4", "5", "6", "7", "8", "9"}
  BY DEF Digit
<1>2. DigitToken = {Digit[i] : i \in 1 .. 10}
  BY DEF DigitToken, ToSet, Digit
<1>3. \A c \in {"0", "1", "2", "3", "4", "5", "6", "7", "8", "9"} : c # "-"
  BY Zenon
<1> QED BY <1>1, <1>2, <1>3, Zenon

(* A range is "npt=" and a number, after which a dash and another may be.  *)
LEMMA RangeTaken ==
  ASSUME NEW S, NEW v \in Seq(S), Len(v) >= 3, v[1] = "npt", v[2] = "="
  PROVE  /\ RangeFormat(v) => v[3] \in DigitToken
         /\ v[3] \in DigitToken /\ Len(v) = 3 => RangeFormat(v)
         /\ /\ v[3] \in DigitToken /\ Len(v) >= 4 /\ v[4] = "-"
            /\ \A j \in 5 .. Len(v) : v[j] \in DigitToken
            => RangeFormat(v)
<1> DEFINE number == SubSeq(v, 3, Len(v))
           I == {i \in 1 .. Len(number) : number[i] \notin DigitToken}
           k == SelectInSeq(number, LAMBDA c : c \notin ToSet(Digit))
           rest == SubSeq(number, k + 1, Len(number))
<1>1. Len(v) \in Nat
  BY LenProperties
<1>2. /\ number \in Seq(S) /\ Len(number) = Len(v) - 2
      /\ \A i \in 1 .. Len(v) - 2 : number[i] = v[i + 2]
  BY <1>1
<1>3. IsPrefix(<<"npt", "=">>, v)
  <2> DEFINE first == <<"npt", "=">>
             x == SubSeq(v, 1, 2)
             y == SubSeq(first, 1, 2)
  <2>1. Len(first) = 2 /\ first[1] = "npt" /\ first[2] = "="
    OBVIOUS
  <2>2. x \in Seq(S) /\ Len(x) = 2 /\ x[1] = v[1] /\ x[2] = v[2]
    <3>1. \A i \in 1 .. 2 : v[i] \in S
      BY <1>1, ElementOfSeq
    <3>2. /\ x \in Seq(S) /\ Len(x) = IF 1 <= 2 THEN 2 - 1 + 1 ELSE 0
          /\ \A i \in 1 .. 2 - 1 + 1 : x[i] = v[1 + i - 1]
      BY <3>1, SubSeqProperties
    <3> QED BY <3>2
  <2>3. y \in Seq({"npt", "="}) /\ Len(y) = 2 /\ y[1] = "npt" /\ y[2] = "="
    OBVIOUS
  <2> HIDE DEF x, y, first
  <2>4. x = y
    <3>1. y \in Seq(S)
      <4>1. "npt" \in S /\ "=" \in S
        <5>1. v[1] \in S /\ v[2] \in S
          BY <1>1, ElementOfSeq
        <5> QED BY <5>1
      <4> QED BY <2>3, <4>1, SeqMonotonic
    <3>2. \A i \in 1 .. Len(x) : x[i] = y[i]
      BY <2>2, <2>3
    <3> QED BY <2>2, <2>3, <3>1, <3>2, SeqEqual
  <2>5. Len(first) <= Len(v) /\ SubSeq(first, 1, Len(first)) = SubSeq(v, 1, Len(first))
    BY <1>1, <2>1, <2>4 DEF x, y
  <2> QED BY <2>5 DEF IsPrefix, first
<1> HIDE DEF number
<1>4. k = IF I # {} THEN Min(I) ELSE 0
  BY DEF SelectInSeq, DigitToken
<1>5. RangeFormat(v) <=>
        /\ number # <<>> /\ k # 1
        /\ k # 0 => number[k] = "-" /\ ToSet(rest) \subseteq DigitToken
  BY <1>3, Zenon DEF RangeFormat, DigitToken, number
<1>6. number # <<>> /\ number[1] = v[3]
  BY <1>1, <1>2, EmptySeq
<1> HIDE DEF k
<1>7. I \in SUBSET Int /\ \A i \in I : 1 <= i
  BY <1>1, <1>2
<1>8. ASSUME v[3] \notin DigitToken
      PROVE  k = 1
  <2>1. 1 \in I
    BY <1>1, <1>2, <1>6, <1>8
  <2>2. Min(I) = 1
    <3> HIDE DEF I
    <3> QED BY <1>7, <2>1, LeastIs
  <2> QED BY <1>4, <2>1, <2>2
<1>9. ASSUME v[3] \in DigitToken, Len(v) = 3
      PROVE  k = 0
  <2>1. Len(number) = 1
    BY <1>2, <1>9
  <2>2. I = {}
    BY <1>6, <1>9, <2>1
  <2> QED BY <1>4, <2>2
<1>10. ASSUME v[3] \in DigitToken, Len(v) >= 4, v[4] = "-", \A j \in 5 .. Len(v) : v[j] \in DigitToken
       PROVE  k = 2 /\ number[k] = "-" /\ ToSet(rest) \subseteq DigitToken
  <2>1. 2 \in 1 .. Len(number) /\ number[2] = "-"
    BY <1>1, <1>2, <1>10
  <2>2. 2 \in I
    BY <2>1, NoDigit
  <2>3. \A i \in I : i \in Int /\ 2 <= i
    BY <1>2, <1>6, <1>10
  <2>4. Min(I) = 2
    <3>1. I \in SUBSET Int
      BY <2>3
    <3> HIDE DEF I
    <3> QED BY <2>2, <2>3, <3>1, LeastIs
  <2>5. k = 2
    BY <1>4, <2>2, <2>4
  <2>6. rest = SubSeq(number, 3, Len(number))
    BY <2>5
  <2>7. \A i \in 3 .. Len(number) : number[i] \in DigitToken
    <3> TAKE i \in 3 .. Len(number)
    <3>1. i + 2 \in 5 .. Len(v) /\ i \in 1 .. Len(v) - 2
      BY <1>1, <1>2
    <3> QED BY <1>2, <1>10, <3>1
  <2>8. rest \in Seq(DigitToken)
    <3>1. Len(number) \in Nat
      BY <1>1, <1>2
    <3> DEFINE n == Len(number)
    <3>2. n \in Int /\ 3 \in Int /\ \A i \in 3 .. n : number[i] \in DigitToken
      BY <2>7, <3>1
    <3> HIDE DEF n
    <3>3. SubSeq(number, 3, n) \in Seq(DigitToken)
      BY <3>2, SubSeqProperties
    <3> QED BY <2>6, <3>3 DEF n
  <2>9. \A i \in DOMAIN rest : rest[i] \in DigitToken
    BY <2>8, LenProperties, ElementOfSeq
  <2> QED BY <2>1, <2>5, <2>9 DEF ToSet
<1>11. RangeFormat(v) => v[3] \in DigitToken
  BY <1>5, <1>8
<1>12. v[3] \in DigitToken /\ Len(v) = 3 => RangeFormat(v)
  BY <1>5, <1>6, <1>9
<1>13. /\ v[3] \in DigitToken /\ Len(v) >= 4 /\ v[4] = "-"
       /\ \A j \in 5 .. Len(v) : v[j] \in DigitToken
       => RangeFormat(v)
  BY <1>5, <1>6, <1>10
<1> QED BY <1>11, <1>12, <1>13

LEMMA RangesAreTaken ==
  /\ \A r \in Ranges : RangeFormat(r)
  /\ ~ RangeFormat(<<"npt", "=", "-">>)
<1>1. "3" \in DigitToken /\ "0" \in DigitToken /\ "7" \in DigitToken
  BY TokensInner
<1>2. RangeFormat(<<"npt", "=", "3">>)
  <2> DEFINE v == <<"npt", "=", "3">>
  <2>1. v \in Seq(Inner) /\ Len(v) = 3 /\ v[1] = "npt" /\ v[2] = "=" /\ v[3] = "3"
    BY TokensInner
  <2> HIDE DEF v
  <2>2. RangeFormat(v)
    BY <1>1, <2>1, RangeTaken
  <2> QED BY <2>2 DEF v
<1>3. RangeFormat(<<"npt", "=", "3", "-">>)
  <2> DEFINE v == <<"npt", "=", "3", "-">>
  <2>1. /\ v \in Seq(Inner) /\ Len(v) = 4
        /\ v[1] = "npt" /\ v[2] = "=" /\ v[3] = "3" /\ v[4] = "-"
    BY TokensInner
  <2> HIDE DEF v
  <2>2. RangeFormat(v)
    BY <1>1, <2>1, RangeTaken
  <2> QED BY <2>2 DEF v
<1>4. RangeFormat(<<"npt", "=", "0", "-", "7">>)
  <2> DEFINE v == <<"npt", "=", "0", "-", "7">>
  <2>1. /\ v \in Seq(Inner) /\ Len(v) = 5
        /\ v[1] = "npt" /\ v[2] = "=" /\ v[3] = "0" /\ v[4] = "-" /\ v[5] = "7"
    BY TokensInner
  <2> HIDE DEF v
  <2>2. \A j \in 5 .. Len(v) : v[j] \in DigitToken
    BY <1>1, <2>1
  <2>3. RangeFormat(v)
    BY <1>1, <2>1, <2>2, RangeTaken
  <2> QED BY <2>3 DEF v
<1>5. ~ RangeFormat(<<"npt", "=", "-">>)
  <2> DEFINE v == <<"npt", "=", "-">>
  <2>1. v \in Seq(Inner) /\ Len(v) = 3 /\ v[1] = "npt" /\ v[2] = "=" /\ v[3] = "-"
    BY TokensInner
  <2> HIDE DEF v
  <2>2. ~ RangeFormat(v)
    BY <2>1, RangeTaken, NoDigit
  <2> QED BY <2>2 DEF v
<1> QED BY <1>2, <1>3, <1>4, <1>5, Zenon DEF Ranges

(* A time is compared with the file's in each format whose text fits.      *)
LEMMA TimesAreTaken ==
  ASSUME NEW i \in 1 .. 3, NEW d, day \in DOMAIN DayLength
  PROVE  /\ TimeFormat(<<Formats[i], d>>)
         /\ <<Formats[i], d>>[1] = Formats[i] /\ (Formats[i] = "rfc850" <=> i = 2)
         /\ CompareModifiedTime(day, <<Formats[i], d>>)
              <=> d = day /\ (Formats[i] # "rfc850" \/ DayLength[day] + 24 < TIME_SIZE)
<1>1. Formats[i] \in ToSet(Formats) /\ (Formats[i] = "rfc850" <=> i = 2)
  BY DEF Formats, ToSet
<1>2. \A j \in 1 .. 3 : Formats[i] = Formats[j] <=> i = j
  BY DEF Formats
<1>3. DayLength[day] \in Nat
  BY DEF DayLength
<1>4. TextLength(day, 1) = 29 /\ TextLength(day, 2) = DayLength[day] + 24 /\ TextLength(day, 3) = 24
  BY DEF TextLength
<1> DEFINE fits(j) == j = 3 \/ TextLength(day, j) < TIME_SIZE
<1>5. \A j \in 1 .. 3 : ConvertTimeFormat(day, j) = IF fits(j) THEN <<Formats[j], day>> ELSE <<"uninitialised">>
  <2> TAKE j \in 1 .. 3
  <2>1. j \in {1, 2, 3}
    OBVIOUS
  <2> QED BY <2>1 DEF ConvertTimeFormat
<1>6. ConvertTimeFormat(day, 4) = <<"uninitialised">>
  BY DEF ConvertTimeFormat
<1>7. fits(1) /\ fits(3) /\ (fits(2) <=> DayLength[day] + 24 < TIME_SIZE)
  BY <1>4 DEF TIME_SIZE
<1> HIDE DEF fits
<1>8. \A x, y, z : <<x, y>> # <<z>>
  <2> TAKE x, y, z
  <2>1. Len(<<x, y>>) = 2 /\ Len(<<z>>) = 1
    OBVIOUS
  <2> QED BY <2>1
<1>9. \A w, x, y, z : <<w, x>> = <<y, z>> <=> w = y /\ x = z
  OBVIOUS
<1>10. CompareModifiedTime(day, <<Formats[i], d>>) <=> d = day /\ fits(i)
  <2>1. ASSUME NEW j \in 1 .. 4, <<Formats[i], d>> = ConvertTimeFormat(day, j)
        PROVE  d = day /\ fits(i)
    <3>1. j \in 1 .. 3 /\ fits(j)
      BY <1>5, <1>6, <1>8, <2>1
    <3>2. <<Formats[i], d>> = <<Formats[j], day>>
      BY <1>5, <2>1, <3>1
    <3>3. Formats[i] = Formats[j] /\ d = day
      BY <1>9, <3>2
    <3> QED BY <1>2, <3>1, <3>3
  <2>2. d = day /\ fits(i) => <<Formats[i], d>> = ConvertTimeFormat(day, i) /\ i \in 1 .. 4
    BY <1>5
  <2> QED BY <2>1, <2>2 DEF CompareModifiedTime
<1>11. fits(i) <=> Formats[i] # "rfc850" \/ DayLength[day] + 24 < TIME_SIZE
  BY <1>1, <1>7
<1>12. TimeFormat(<<Formats[i], d>>) /\ <<Formats[i], d>>[1] = Formats[i]
  BY <1>1 DEF TimeFormat
<1> QED BY <1>1, <1>10, <1>11, <1>12

LEMMA YesterdayIsRefused == ~ TimeFormat(<<"yesterday">>)
BY DEF TimeFormat

(* The session that a defective request names is none that is given.       *)
LEMMA SessionOfDefects == Atoi(<<"9", "9">>) \notin SessionId
<1>1. Decimal[99] = <<"9", "9">>
  <2>1. Decimal[9] = <<"9">> /\ Digit[10] = "9"
    BY DecimalDef DEF Digit
  <2>2. 99 \div 10 = 9 /\ 99 % 10 = 9 /\ 99 \in Nat /\ ~ (99 < 10) /\ 9 + 1 = 10
    OBVIOUS
  <2>3. Decimal[99] = Append(Decimal[99 \div 10], Digit[(99 % 10) + 1])
    BY <2>2, DecimalDef
  <2>4. Decimal[99] = Append(<<"9">>, "9")
    BY <2>1, <2>2, <2>3
  <2>5. ASSUME NEW S, NEW x \in S, NEW y \in S
        PROVE  Append(<<x>>, y) = <<x, y>>
    <3>1. <<x>> \in Seq(S)
      OBVIOUS
    <3>2. Append(<<x>>, y) = <<x>> \o <<y>>
      BY <3>1, AppendIsConcat
    <3> QED BY <3>2, OneAndOne DEF Cons
  <2>6. Append(<<"9">>, "9") = <<"9", "9">>
    <3> DEFINE nine == "9"
    <3>1. nine \in {nine}
      OBVIOUS
    <3> HIDE DEF nine
    <3>2. Append(<<nine>>, nine) = <<nine, nine>>
      BY <2>5, <3>1
    <3> QED BY <3>2 DEF nine
  <2> QED BY <2>4, <2>6
<1>2. Atoi(<<"9", "9">>) = 99
  BY <1>1, NumbersWritten
<1>3. 99 \notin RandomNumbers
  BY SMTT(30) DEF RandomNumbers, BASIC_NUMBER
<1> QED BY <1>2, <1>3, DialogueAssumption

------------------------------------------------------------------------------
(* The order of the lines.                                                 *)

(* No two lines give a name different values.                              *)
Consistent(lines) ==
  \A k, l \in lines : Split(k, ":").name = Split(l, ":").name => Split(k, ":").value = Split(l, ":").value

LEMMA SameFields ==
  ASSUME NEW a \in Seq(Text), NEW b \in Seq(Text), ToSet(a) = ToSet(b), Consistent(ToSet(a)), NEW name
  PROVE  /\ FieldExists(Parsed(a), name) <=> FieldExists(Parsed(b), name)
         /\ FieldExists(Parsed(a), name) => Field(Parsed(a), name) = Field(Parsed(b), name)
         /\ LastField(Parsed(a), name) = LastField(Parsed(b), name)
<1>1. Named(a, name) = Named(b, name)
  BY DEF Named
<1>2. /\ FieldExists(Parsed(a), name) <=> Named(a, name) # {}
      /\ FieldExists(Parsed(b), name) <=> Named(a, name) # {}
  BY <1>1, FieldIsThere
<1>3. CASE Named(a, name) = {}
  BY <1>1, <1>2, <1>3, NoField
<1>4. CASE Named(a, name) # {}
  <2>1. PICK l \in Named(a, name) : TRUE
    BY <1>4
  <2> DEFINE v == Split(l, ":").value
  <2>2. \A k \in Named(a, name) : Split(k, ":").value = v
    BY <2>1 DEF Named, Consistent
  <2> HIDE DEF v
  <2>3. Field(Parsed(a), name) = v /\ LastField(Parsed(a), name) = v
    BY <1>4, <2>2, FieldIsValue
  <2>4. Field(Parsed(b), name) = v /\ LastField(Parsed(b), name) = v
    BY <1>1, <1>4, <2>2, FieldIsValue
  <2> QED BY <1>1, <1>2, <2>3, <2>4
<1> QED BY <1>3, <1>4

LEMMA SameInfo ==
  ASSUME NEW a \in Seq(Text), NEW b \in Seq(Text), ToSet(a) = ToSet(b), Consistent(ToSet(a)), NEW session
  PROVE  \/ GetRTSPInfo(Parsed(a), session) = GetRTSPInfo(Parsed(b), session)
         \/ GetRTSPInfo(Parsed(a), session).cseq = 0 /\ GetRTSPInfo(Parsed(b), session).cseq = 0
<1>1. WrongSession(Parsed(a), session) = 0 <=> WrongSession(Parsed(b), session) = 0
  <2>1. Named(a, "session") = Named(b, "session")
    BY DEF Named
  <2> QED BY <2>1, SessionIsRight
<1>2. CASE WrongSession(Parsed(a), session) = 0
  <2>1. FieldsRead(Parsed(a), session) = Parsed(a) /\ FieldsRead(Parsed(b), session) = Parsed(b)
    BY <1>1, <1>2 DEF FieldsRead
  <2>2. \A name : LastField(Parsed(a), name) = LastField(Parsed(b), name)
    BY SameFields
  <2>3. CseqNumber(Parsed(a), session) = CseqNumber(Parsed(b), session)
    BY <1>1, <2>2 DEF CseqNumber
  <2>4. \A name : FieldExists(Parsed(a), name) <=> FieldExists(Parsed(b), name)
    BY SameFields
  <2>5. \A s : ReadFields(s, Parsed(a)) = ReadFields(s, Parsed(b))
    <3> DEFINE ha == Parsed(a)
               hb == Parsed(b)
               transport == "transport"
               range == "range"
    <3>1. /\ FieldExists(ha, transport) <=> FieldExists(hb, transport)
          /\ FieldExists(ha, range) <=> FieldExists(hb, range)
          /\ LastField(ha, transport) = LastField(hb, transport)
          /\ LastField(ha, range) = LastField(hb, range)
      BY <2>2, <2>4
    <3> HIDE DEF ha, hb
    <3>2. \A s : ReadFields(s, ha) = ReadFields(s, hb)
      BY <3>1 DEF ReadFields
    <3> QED BY <3>2 DEF ha, hb
  <2> QED BY <2>1, <2>3, <2>5 DEF GetRTSPInfo
<1>3. CASE WrongSession(Parsed(a), session) # 0
  BY <1>1, <1>3 DEF GetRTSPInfo, CseqNumber
<1> QED BY <1>2, <1>3

LEMMA SameEffect ==
  ASSUME NEW a \in Seq(Text), NEW b \in Seq(Text), ToSet(a) = ToSet(b), Consistent(ToSet(a)),
         NEW q, NEW session
  PROVE  Effect(Respond(q, Parsed(a), session)) = Effect(Respond(q, Parsed(b), session))
<1> DEFINE ha == Parsed(a)
           hb == Parsed(b)
           ia == GetRTSPInfo(ha, session)
           ib == GetRTSPInfo(hb, session)
<1>1. \A name : /\ FieldExists(ha, name) <=> FieldExists(hb, name)
                /\ FieldExists(ha, name) => Field(ha, name) = Field(hb, name)
  BY SameFields
<1>2. ia = ib \/ (ia.cseq = 0 /\ ib.cseq = 0)
  BY SameInfo
<1>3. Respond(q, ha, session) = Outcome(q, ha, ia) /\ Respond(q, hb, session) = Outcome(q, hb, ib)
  BY DEF Respond
<1> HIDE DEF ha, hb, ia, ib
<1>4. Refused(q, ha) <=> Refused(q, hb)
  BY <1>1, Zenon DEF Refused
<1>5. CASE Refused(q, ha)
  <2>1. Outcome(q, ha, ia) = Outcome(q, hb, ib)
    BY <1>4, <1>5 DEF Outcome
  <2> QED BY <1>3, <2>1 DEF ha, hb
<1>6. CASE ~ Refused(q, ha) /\ ia.cseq = 0 /\ ib.cseq = 0
  <2>1. AlsoRefused(ha, ia) /\ AlsoRefused(hb, ib)
    BY <1>6, Zenon DEF AlsoRefused
  <2>2. Outcome(q, ha, ia).answer = <<>> /\ Outcome(q, hb, ib).answer = <<>>
    BY <1>4, <1>6, <2>1 DEF Outcome
  <2>3. Effect(Outcome(q, ha, ia)) = Effect(Outcome(q, hb, ib))
    BY <2>2 DEF Effect
  <2> QED BY <1>3, <2>3 DEF ha, hb
<1>7. CASE ~ Refused(q, ha) /\ ia = ib
  <2>1. AlsoRefused(ha, ia) <=> AlsoRefused(hb, ib)
    BY <1>1, <1>7, Zenon DEF AlsoRefused
  <2>2. Outcome(q, ha, ia) = Outcome(q, hb, ib)
    BY <1>4, <1>7, <2>1 DEF Outcome
  <2> QED BY <1>3, <2>2 DEF ha, hb
<1> QED BY <1>2, <1>5, <1>6, <1>7 DEF ha, hb

LEMMA DifferentNames ==
  ASSUME NEW lines, \A k, l \in lines : Split(k, ":").name = Split(l, ":").name => k = l
  PROVE  Consistent(lines)
BY Zenon DEF Consistent

------------------------------------------------------------------------------
(* What the server reads in a complete request.                            *)

LEMMA OneName == \A x, y : <<x>> = <<y>> <=> x = y
OBVIOUS

LEMMA OptionIs ==
  ASSUME day \in DOMAIN DayLength, NEW kind \in {"good", "unmodified"}, NEW option \in Options(kind)
  PROVE  \/ kind = "good" /\ option = {}
         \/ kind = "good" /\ \E r \in Ranges : option = {Line("Range", r)}
         \/ \E i \in 1 .. 3, d \in DOMAIN DayLength :
              option = {TimeLine(i, d)} /\ (kind = "unmodified" <=> d = day)
<1>1. CASE kind = "unmodified"
  <2>1. option \in {{TimeLine(i, day)} : i \in 1 .. 3}
    BY <1>1, Zenon DEF Options
  <2> QED BY <1>1, <2>1, Zenon
<1>2. CASE kind = "good"
  <2>1. kind # "unmodified"
    BY <1>2
  <2>2. \/ option = {}
        \/ \E r \in Ranges : option = {Line("Range", r)}
        \/ day # "Sunday" /\ \E i \in 1 .. 3 : option = {TimeLine(i, "Sunday")}
    BY <2>1, Zenon DEF Options
  <2>3. "Sunday" \in DOMAIN DayLength
    BY DEF DayLength
  <2> QED BY <1>2, <2>1, <2>2, <2>3, Zenon
<1> QED BY <1>1, <1>2

LEMMA LinesRead ==
  ASSUME Types
  PROVE  /\ \A n \in Nat : /\ CseqLine(n) \in Text /\ HeaderLine(CseqLine(n))
                           /\ Split(CseqLine(n), ":").name = <<"cseq">>
                           /\ Atoi(Split(CseqLine(n), ":").value) = n
         /\ SessionLine \in Text /\ HeaderLine(SessionLine)
         /\ Split(SessionLine, ":").name = <<"session">>
         /\ Atoi(Split(SessionLine, ":").value) = client.session_id
         /\ Line("Transport", Udp) \in Text /\ HeaderLine(Line("Transport", Udp))
         /\ Split(Line("Transport", Udp), ":").name = <<"transport">>
         /\ Split(Line("Transport", Udp), ":").value = Udp
         /\ UserAgent \in Text /\ HeaderLine(UserAgent)
         /\ Split(UserAgent, ":").name = <<"User-Agent">>
         /\ \A r \in Ranges : /\ Line("Range", r) \in Text /\ HeaderLine(Line("Range", r))
                              /\ Split(Line("Range", r), ":").name = <<"range">>
                              /\ Split(Line("Range", r), ":").value = r
         /\ \A i \in 1 .. 3, d \in DOMAIN DayLength :
              /\ TimeLine(i, d) \in Text /\ HeaderLine(TimeLine(i, d))
              /\ Split(TimeLine(i, d), ":").name = <<"if-modified-since">>
              /\ Split(TimeLine(i, d), ":").value = <<Formats[i], d>>
<1>1. port \in Nat /\ client.session_id \in Nat
  BY CasesGood, TypesOfClient
<1>2. \A n \in {"CSeq", "Session", "Transport", "Range", "If-Modified-Since", "User-Agent"} :
        n \in KeyName \cup {"User-Agent"}
  BY Zenon DEF KeyName
<1>3. ASSUME NEW n \in Nat
      PROVE  /\ CseqLine(n) \in Text /\ HeaderLine(CseqLine(n))
             /\ Split(CseqLine(n), ":").name = <<"cseq">>
             /\ Atoi(Split(CseqLine(n), ":").value) = n
  BY <1>2, NumbersWritten, KeyLines DEF CseqLine
<1>4. /\ SessionLine \in Text /\ HeaderLine(SessionLine)
      /\ Split(SessionLine, ":").name = <<"session">>
      /\ Atoi(Split(SessionLine, ":").value) = client.session_id
  BY <1>1, <1>2, NumbersWritten, KeyLines DEF SessionLine
<1>5. /\ Line("Transport", Udp) \in Text /\ HeaderLine(Line("Transport", Udp))
      /\ Split(Line("Transport", Udp), ":").name = <<"transport">>
      /\ Split(Line("Transport", Udp), ":").value = Udp
  BY <1>1, <1>2, TransportsWritten, KeyLines
<1>6. /\ UserAgent \in Text /\ HeaderLine(UserAgent)
      /\ Split(UserAgent, ":").name = <<"User-Agent">>
  <2>1. PICK v : Written(v) /\ UserAgent = Line("User-Agent", v)
    BY AgentWritten
  <2> QED BY <1>2, <2>1, KeyLines
<1>7. ASSUME NEW r \in Ranges
      PROVE  /\ Line("Range", r) \in Text /\ HeaderLine(Line("Range", r))
             /\ Split(Line("Range", r), ":").name = <<"range">>
             /\ Split(Line("Range", r), ":").value = r
  BY <1>2, WordsWritten, KeyLines
<1>8. ASSUME NEW i \in 1 .. 3, NEW d \in DOMAIN DayLength
      PROVE  /\ TimeLine(i, d) \in Text /\ HeaderLine(TimeLine(i, d))
             /\ Split(TimeLine(i, d), ":").name = <<"if-modified-since">>
             /\ Split(TimeLine(i, d), ":").value = <<Formats[i], d>>
  BY <1>2, TimesWritten, KeyLines DEF TimeLine
<1> QED BY <1>3, <1>4, <1>5, <1>6, <1>7, <1>8

(* The lines of each name, where one names the key and others more.        *)
LinesOfNames(lines, c, k, key, more, option) ==
  /\ Consistent(ToSet(lines))
  /\ Named(lines, "cseq") = {c} /\ Named(lines, key) = {k}
  /\ key # "session" => Named(lines, "session") = {}
  /\ key # "transport" => Named(lines, "transport") = {}
  /\ Named(lines, more) = option
  /\ \A other \in {"range", "if-modified-since"} : other # more => Named(lines, other) = {}

LEMMA NamesOfLines ==
  ASSUME NEW lines, NEW c, NEW u, NEW k, NEW key, NEW more, NEW option,
         ToSet(lines) = {c, u, k} \cup option,
         Split(c, ":").name = <<"cseq">>, Split(u, ":").name = <<"User-Agent">>,
         Split(k, ":").name = <<key>>, key \in {"session", "transport"},
         more \in {"range", "if-modified-since"}, \A x \in option : Split(x, ":").name = <<more>>,
         \A x, y \in option : x = y
  PROVE  LinesOfNames(lines, c, k, key, more, option)
<1> DEFINE name(l) == Split(l, ":").name
<1>1. /\ name(c) = <<"cseq">> /\ name(u) = <<"User-Agent">> /\ name(k) = <<key>>
      /\ \A x \in option : name(x) = <<more>>
  OBVIOUS
<1>2. \A n : Named(lines, n) = {l \in {c, u, k} \cup option : name(l) = <<n>>}
  BY DEF Named
<1> HIDE DEF name
<1>3. \A l, m \in {c, u, k} \cup option : name(l) = name(m) => l = m
  BY <1>1, OneName
<1>4. Consistent(ToSet(lines))
  BY <1>3, DifferentNames DEF name
<1>5. Named(lines, "cseq") = {c} /\ Named(lines, key) = {k}
  BY <1>1, <1>2, OneName
<1>6. /\ key # "session" => Named(lines, "session") = {}
      /\ key # "transport" => Named(lines, "transport") = {}
  BY <1>1, <1>2, OneName
<1>7. Named(lines, more) = option
  BY <1>1, <1>2, OneName
<1>8. \A other \in {"range", "if-modified-since"} : other # more => Named(lines, other) = {}
  BY <1>1, <1>2, OneName
<1> QED BY <1>4, <1>5, <1>6, <1>7, <1>8 DEF LinesOfNames

(* A complete request has what the checks and getRTSPInfo look for.        *)
CseqRead(h) == FieldExists(h, "cseq") /\ Atoi(LastField(h, "cseq")) \in Nat \ {0}

KeyRead(m, h) ==
  IF m = "SETUP"
    THEN /\ FieldExists(h, "transport") /\ LastField(h, "transport") = Udp
         /\ \A session : WrongSession(h, session) = 0
    ELSE /\ FieldExists(h, "session") /\ WrongSession(h, client.session_id) = 0
         /\ ~ FieldExists(h, "transport")

TimeRead(kind, h) ==
  \/ kind = "good" /\ ~ FieldExists(h, "if-modified-since")
  \/ /\ FieldExists(h, "if-modified-since")
     /\ \E i \in 1 .. 3, d \in DOMAIN DayLength :
          Field(h, "if-modified-since") = <<Formats[i], d>> /\ (kind = "unmodified" <=> d = day)

LEMMA CompleteIsRead ==
  ASSUME Types, NEW q, Complete(q)
  PROVE  LET h == Parsed(q.lines)
         IN /\ Consistent(ToSet(q.lines))
            /\ \A i \in DOMAIN q.lines : HeaderLine(q.lines[i])
            /\ CseqRead(h) /\ KeyRead(q.method, h) /\ TimeRead(q.kind, h)
            /\ FieldExists(h, "range") => RangeFormat(Field(h, "range"))
<1> DEFINE lines == q.lines
           h == Parsed(lines)
           setup == q.method = "SETUP"
           key == IF setup THEN "transport" ELSE "session"
           k == IF setup THEN Line("Transport", Udp) ELSE SessionLine
<1>1. PICK n \in 1 .. MaxCseq, option \in Options(q.kind) :
        ToSet(lines) = {CseqLine(n), UserAgent, k} \cup option
  BY DEF Complete
<1>2. lines \in Seq(Text) /\ q.kind \in {"good", "unmodified"}
  BY DEF Complete
<1>3. n \in Nat \ {0}
  BY DialogueAssumption
<1> DEFINE c == CseqLine(n)
<1>4. /\ HeaderLine(c) /\ Split(c, ":").name = <<"cseq">> /\ Atoi(Split(c, ":").value) = n
  BY <1>3, LinesRead
<1>5. HeaderLine(UserAgent) /\ Split(UserAgent, ":").name = <<"User-Agent">>
  BY LinesRead
<1>6. HeaderLine(k) /\ Split(k, ":").name = <<key>>
  BY LinesRead
<1>7. /\ setup => key = "transport" /\ Split(k, ":").value = Udp
      /\ ~ setup => key = "session" /\ Atoi(Split(k, ":").value) = client.session_id
  BY LinesRead
<1>8. key \in {"session", "transport"}
  OBVIOUS
<1>9. \E more \in {"range", "if-modified-since"} :
        /\ \A x \in option : HeaderLine(x) /\ Split(x, ":").name = <<more>>
        /\ \A x, y \in option : x = y
        /\ more = "range" => q.kind = "good" /\ \A x \in option : RangeFormat(Split(x, ":").value)
        /\ more = "if-modified-since" =>
             /\ option # {}
             /\ \E i \in 1 .. 3, d \in DOMAIN DayLength :
                  /\ \A x \in option : Split(x, ":").value = <<Formats[i], d>>
                  /\ q.kind = "unmodified" <=> d = day
  <2>1. day \in DOMAIN DayLength
    BY CasesGood
  <2>2. \/ q.kind = "good" /\ option = {}
        \/ q.kind = "good" /\ \E r \in Ranges : option = {Line("Range", r)}
        \/ \E i \in 1 .. 3, d \in DOMAIN DayLength :
             option = {TimeLine(i, d)} /\ (q.kind = "unmodified" <=> d = day)
    BY <1>2, <2>1, OptionIs
  <2>3. CASE q.kind = "good" /\ option = {}
    BY <2>3
  <2>4. CASE q.kind = "good" /\ \E r \in Ranges : option = {Line("Range", r)}
    <3>1. PICK r \in Ranges : option = {Line("Range", r)}
      BY <2>4
    <3> DEFINE x == Line("Range", r)
    <3>2. HeaderLine(x) /\ Split(x, ":").name = <<"range">> /\ RangeFormat(Split(x, ":").value)
      BY LinesRead, RangesAreTaken
    <3> HIDE DEF x
    <3>3. option = {x}
      BY <3>1 DEF x
    <3> QED BY <2>4, <3>2, <3>3
  <2>5. CASE \E i \in 1 .. 3, d \in DOMAIN DayLength :
               option = {TimeLine(i, d)} /\ (q.kind = "unmodified" <=> d = day)
    <3>1. PICK i \in 1 .. 3, d \in DOMAIN DayLength :
            option = {TimeLine(i, d)} /\ (q.kind = "unmodified" <=> d = day)
      BY <2>5
    <3> DEFINE x == TimeLine(i, d)
    <3>2. /\ HeaderLine(x) /\ Split(x, ":").name = <<"if-modified-since">>
          /\ Split(x, ":").value = <<Formats[i], d>>
      BY LinesRead
    <3> HIDE DEF x
    <3>3. option = {x} /\ (q.kind = "unmodified" <=> d = day)
      BY <3>1 DEF x
    <3> QED BY <3>2, <3>3
  <2> QED BY <2>2, <2>3, <2>4, <2>5
<1>10. PICK more \in {"range", "if-modified-since"} :
        /\ \A x \in option : HeaderLine(x) /\ Split(x, ":").name = <<more>>
        /\ \A x, y \in option : x = y
        /\ more = "range" => q.kind = "good" /\ \A x \in option : RangeFormat(Split(x, ":").value)
        /\ more = "if-modified-since" =>
             /\ option # {}
             /\ \E i \in 1 .. 3, d \in DOMAIN DayLength :
                  /\ \A x \in option : Split(x, ":").value = <<Formats[i], d>>
                  /\ q.kind = "unmodified" <=> d = day
  BY <1>9
<1> HIDE DEF c, k, key
<1>11. /\ Consistent(ToSet(lines))
       /\ Named(lines, "cseq") = {c} /\ Named(lines, key) = {k}
       /\ key # "session" => Named(lines, "session") = {}
       /\ key # "transport" => Named(lines, "transport") = {}
       /\ Named(lines, more) = option
       /\ \A other \in {"range", "if-modified-since"} : other # more => Named(lines, other) = {}
  <2>1. ToSet(lines) = {c, UserAgent, k} \cup option
    BY <1>1 DEF c, k
  <2>2. \A x \in option : Split(x, ":").name = <<more>>
    BY <1>10
  <2>3. \A x, y \in option : x = y
    BY <1>10
  <2>4. /\ Split(c, ":").name = <<"cseq">> /\ Split(UserAgent, ":").name = <<"User-Agent">>
        /\ Split(k, ":").name = <<key>>
    BY <1>4, <1>5, <1>6
  <2>5. more \in {"range", "if-modified-since"}
    OBVIOUS
  <2> DEFINE u == UserAgent
  <2> HIDE DEF lines, u
  <2>6. LinesOfNames(lines, c, k, key, more, option)
    BY <1>8, <2>1, <2>2, <2>3, <2>4, <2>5, NamesOfLines DEF u
  <2> QED BY <2>6 DEF LinesOfNames
<1>12. \A i \in DOMAIN lines : HeaderLine(lines[i])
  <2>1. \A x \in ToSet(lines) : HeaderLine(x)
    BY <1>1, <1>4, <1>5, <1>6, <1>10 DEF c, k
  <2> QED BY <2>1 DEF ToSet
<1> HIDE DEF lines
<1>13. CseqRead(h)
  <2> DEFINE v == Split(c, ":").value
  <2>1. Named(lines, "cseq") # {} /\ \A l \in Named(lines, "cseq") : Split(l, ":").value = v
    BY <1>11
  <2> HIDE DEF v
  <2>2. LastField(h, "cseq") = v /\ FieldExists(h, "cseq")
    BY <1>2, <2>1, FieldIsValue, FieldIsThere DEF lines
  <2> QED BY <1>3, <1>4, <2>2 DEF CseqRead, v
<1>14. KeyRead(q.method, h)
  <2>1. CASE setup
    <3>1. Named(lines, "transport") # {} /\ \A l \in Named(lines, "transport") : Split(l, ":").value = Udp
      BY <1>7, <1>11, <2>1
    <3>2. LastField(h, "transport") = Udp /\ FieldExists(h, "transport")
      BY <1>2, <3>1, FieldIsValue, FieldIsThere DEF lines
    <3>3. Named(lines, "session") = {}
      BY <1>7, <1>11, <2>1
    <3>4. \A session : WrongSession(h, session) = 0
      BY <1>2, <3>3, SessionIsRight DEF lines
    <3> QED BY <2>1, <3>2, <3>4 DEF KeyRead
  <2>2. CASE ~ setup
    <3>1. Named(lines, "session") # {}
          /\ \A l \in Named(lines, "session") : Atoi(Split(l, ":").value) = client.session_id
      BY <1>7, <1>11, <2>2
    <3>2. FieldExists(h, "session")
      BY <1>2, <3>1, FieldIsThere DEF lines
    <3>3. WrongSession(h, client.session_id) = 0
      BY <1>2, <3>1, SessionIsRight DEF lines
    <3>4. Named(lines, "transport") = {}
      BY <1>7, <1>11, <2>2
    <3>5. ~ FieldExists(h, "transport")
      BY <1>2, <3>4, FieldIsThere DEF lines
    <3> QED BY <2>2, <3>2, <3>3, <3>5 DEF KeyRead
  <2> QED BY <2>1, <2>2
<1>15. TimeRead(q.kind, h)
  <2>1. CASE more = "range"
    <3>1. ~ FieldExists(h, "if-modified-since")
      BY <1>2, <1>11, <2>1, FieldIsThere DEF lines
    <3> QED BY <1>10, <2>1, <3>1 DEF TimeRead
  <2>2. CASE more = "if-modified-since"
    <3>1. PICK i \in 1 .. 3, d \in DOMAIN DayLength :
            /\ \A x \in option : Split(x, ":").value = <<Formats[i], d>>
            /\ q.kind = "unmodified" <=> d = day
      BY <1>10, <2>2
    <3> DEFINE v == <<Formats[i], d>>
    <3>2. /\ Named(lines, "if-modified-since") # {}
          /\ \A l \in Named(lines, "if-modified-since") : Split(l, ":").value = v
      BY <1>10, <1>11, <2>2, <3>1
    <3> HIDE DEF v
    <3>3. Field(h, "if-modified-since") = v /\ FieldExists(h, "if-modified-since")
      BY <1>2, <3>2, FieldIsValue, FieldIsThere DEF lines
    <3> QED BY <3>1, <3>3 DEF TimeRead, v
  <2> QED BY <2>1, <2>2
<1>16. FieldExists(h, "range") => RangeFormat(Field(h, "range"))
  <2>1. ASSUME FieldExists(h, "range")
        PROVE  RangeFormat(Field(h, "range"))
    <3>1. Named(lines, "range") # {}
      BY <1>2, <2>1, FieldIsThere DEF lines
    <3>2. more = "range" /\ option # {}
      BY <1>11, <3>1
    <3>3. PICK x \in option : TRUE
      BY <3>2
    <3> DEFINE v == Split(x, ":").value
    <3>4. RangeFormat(v) /\ \A l \in Named(lines, "range") : Split(l, ":").value = v
      BY <1>10, <1>11, <3>2, <3>3
    <3> HIDE DEF v
    <3>5. Field(h, "range") = v
      BY <1>2, <3>1, <3>4, FieldIsValue DEF lines
    <3> QED BY <3>4, <3>5
  <2> QED BY <2>1
<1> QED BY <1>11, <1>12, <1>13, <1>14, <1>15, <1>16 DEF lines

------------------------------------------------------------------------------
(* Complete requests are answered, unless the file was not modified.       *)

(* The protocol is that of the last Transport line that is read.           *)
LEMMA ProtocolIsRead ==
  ASSUME Types, NEW lines \in Seq(OKLines), NEW session \in Sessions, NEW v \in Asks,
         FieldExists(FieldsRead(Parsed(lines), session), "transport"),
         LastField(FieldsRead(Parsed(lines), session), "transport") = v
  PROVE  GetRTSPInfo(Parsed(lines), session).server.protocol_type = PROTOCOL_TYPE <=> v = Udp
<1> DEFINE read == FieldsRead(Parsed(lines), session)
           s == [server EXCEPT !.session_id = session]
           t == ReadTransport(s, v)
           range == LastField(read, "range")
           u == IF FieldExists(read, "range") THEN ReadRange(t, range) ELSE t
<1>1. port \in Nat /\ server \in ServerType
  BY CasesGood DEF Types
<1>2. range \in Text
  BY TransportAsked
<1>3. s \in ServerType
  <2>1. server.session_id \in SessionId \cup {0}
    BY <1>1 DEF ServerType
  <2>2. session \in SessionId
    BY <2>1 DEF Sessions
  <2> QED BY <1>1, <2>2 DEF ServerType
<1>4. GetRTSPInfo(Parsed(lines), session).server = u
  BY Zenon DEF GetRTSPInfo, ReadFields
<1> HIDE DEF s
<1>5. /\ t \in ServerType
      /\ t.protocol_type = IF v = Udp THEN PROTOCOL_TYPE
                           ELSE IF v = Tcp THEN <<"rtp/tcp">> ELSE <<>>
  BY <1>1, <1>3, TransportIsSet
<1> HIDE DEF t, range, read
<1>6. u.protocol_type = t.protocol_type
  BY <1>2, <1>5, RangeIsRead DEF SameTransport
<1>7. PROTOCOL_TYPE # <<"rtp/tcp">> /\ PROTOCOL_TYPE # <<>>
  BY DEF PROTOCOL_TYPE
<1> HIDE DEF u
<1> QED BY <1>4, <1>5, <1>6, <1>7

(* No other protocol is the server's.                                      *)
LEMMA OtherTransports ==
  ASSUME port \in Nat
  PROVE  Tcp # Udp /\ <<>> # Udp
<1>1. \A p \in {"RTP/UDP", "RTP/TCP"} : p \in OpeningWord
  BY Zenon DEF OpeningWord
<1>2. Part(Udp, ";", 1) = PROTOCOL_TYPE /\ Udp # <<>>
  BY <1>1, TransportIsRead, WordsLowered DEF Udp, PROTOCOL_TYPE, Plain
<1>3. Part(Tcp, ";", 1) = <<"rtp/tcp">>
  BY <1>1, TransportIsRead, WordsLowered DEF Tcp
<1>4. PROTOCOL_TYPE # <<"rtp/tcp">>
  BY DEF PROTOCOL_TYPE
<1> QED BY <1>2, <1>3, <1>4

(* A complete request is refused if the file was not modified, or if an    *)
(* earlier one has named another protocol, which stays.                    *)
LEMMA CompleteIsServed ==
  ASSUME Inv, turn = "serve", Complete(request), Sensitive(request.method), NEW session \in Sessions
  PROVE  LET h == Parsed(request.lines)
             response == Respond(request, h, session)
             otherProtocol == request.method # "SETUP" /\ server.protocol_type # PROTOCOL_TYPE
         IN /\ response.answer = <<>>
                 <=> \/ /\ FieldExists(h, "if-modified-since")
                        /\ CompareModifiedTime(day, Field(h, "if-modified-since"))
                     \/ otherProtocol
            /\ response.answer = <<>> /\ otherProtocol =>
                 /\ response.server.status # "INIT"
                 /\ response.server.protocol_type # PROTOCOL_TYPE
<1> DEFINE m == request.method
           h == Parsed(request.lines)
           info == GetRTSPInfo(h, session)
           s == info.server
           o == Outcome(request, h, info)
           otherProtocol == m # "SETUP" /\ server.protocol_type # PROTOCOL_TYPE
           unmodified == /\ FieldExists(h, "if-modified-since")
                         /\ CompareModifiedTime(day, Field(h, "if-modified-since"))
<1>1. /\ Types /\ Open(server) /\ Agree(server) /\ request.lines \in Seq(OKLines)
  BY DEF Inv, RequestRead, AnswerRead
<1>2. /\ \A i \in DOMAIN request.lines : HeaderLine(request.lines[i])
      /\ CseqRead(h) /\ KeyRead(m, h) /\ TimeRead(request.kind, h)
      /\ FieldExists(h, "range") => RangeFormat(Field(h, "range"))
  BY <1>1, CompleteIsRead
<1>3. m \in Methods /\ Path(request.url) \in Existing
  BY DEF Complete
<1>4. ~ MethodIsNotValidInState(m)
  BY <1>1, <1>3 DEF MethodIsNotValidInState, Sensitive, Agree, Methods
<1>5. m # "SETUP" => server.status # "INIT"
  BY <1>1, <1>3 DEF Sensitive, Agree, Methods
<1>6. m # "SETUP" => session = client.session_id
  BY <1>1, <1>5 DEF Open, Agree, Sessions
<1>7. WrongSession(h, session) = 0
  BY <1>2, <1>6 DEF KeyRead
<1>8. info.cseq \in Nat \ {0}
  <2>1. info.cseq = Atoi(LastField(h, "cseq"))
    BY <1>7 DEF GetRTSPInfo, CseqNumber
  <2> QED BY <1>2, <2>1 DEF CseqRead
<1>9. FieldsRead(h, session) = h
  BY <1>7 DEF FieldsRead
<1>10. /\ s \in ServerType /\ TransportKnown(s) /\ s.status = server.status
       /\ ~ FieldExists(h, "transport") => SameTransport(server, s)
  BY <1>1, ServerIsRead
<1>11. s.protocol_type # PROTOCOL_TYPE <=> otherProtocol
  <2>1. CASE m = "SETUP"
    <3>1. LastField(FieldsRead(h, session), "transport") = Udp
          /\ FieldExists(FieldsRead(h, session), "transport") /\ Udp \in Asks
      BY <1>2, <1>9, <2>1 DEF KeyRead, Asks
    <3>2. s.protocol_type = PROTOCOL_TYPE
      BY <1>1, <3>1, ProtocolIsRead
    <3> QED BY <2>1, <3>2
  <2>2. CASE m # "SETUP"
    <3>1. ~ FieldExists(h, "transport")
      BY <1>2, <2>2 DEF KeyRead
    <3>2. s.protocol_type = server.protocol_type
      BY <1>10, <3>1 DEF SameTransport
    <3> QED BY <2>2, <3>2
  <2> QED BY <2>1, <2>2
<1>12. FieldExists(h, "if-modified-since") => TimeFormat(Field(h, "if-modified-since"))
  <2>1. day \in DOMAIN DayLength
    BY <1>1, CasesGood
  <2> QED BY <1>2, <2>1, TimesAreTaken DEF TimeRead
<1> HIDE DEF h, info, o
<1>13. FieldExists(h, "cseq") /\ (m # "SETUP" => FieldExists(h, "session"))
       /\ (m = "SETUP" => FieldExists(h, "transport"))
  BY <1>2 DEF CseqRead, KeyRead
<1>14. ~ Refused(request, h)
  BY <1>2, <1>3, <1>4, <1>12, <1>13, Zenon DEF Refused
<1> HIDE DEF otherProtocol
<1>15. AlsoRefused(h, info) <=> unmodified \/ otherProtocol
  BY <1>8, <1>11, Zenon DEF AlsoRefused
<1>16. AlsoRefused(h, info) => o.answer = <<>> /\ o.server = s
  BY <1>14 DEF Outcome, o
<1>17. ASSUME ~ AlsoRefused(h, info)
       PROVE  o.answer # <<>>
  <2>1. o = SendOK(m, s, info.cseq)
    BY <1>14, <1>17 DEF Outcome, o
  <2>2. o.answer = Answer(m, s, info.cseq)
    BY <1>3, <2>1 DEF SendOK, Methods
  <2>3. s.protocol_type = PROTOCOL_TYPE
    BY <1>11, <1>15, <1>17
  <2>4. s.protocol_method = Compressed
    BY <1>10, <2>3, EmptySeq DEF TransportKnown, Asked, PROTOCOL_TYPE
  <2>5. day \in DOMAIN DayLength
    BY <1>1, CasesGood
  <2>6. info.cseq \in Nat
    BY <1>8
  <2> QED BY <1>10, <2>2, <2>3, <2>4, <2>5, <2>6, AnswerIsRead
<1>18. Respond(request, h, session) = o
  BY DEF Respond, o, info
<1>19. o.answer = <<>> <=> unmodified \/ otherProtocol
  BY <1>15, <1>16, <1>17
<1>20. o.answer = <<>> /\ otherProtocol => o.server.status # "INIT" /\ o.server.protocol_type # PROTOCOL_TYPE
  BY <1>5, <1>10, <1>11, <1>15, <1>16 DEF otherProtocol
<1> QED BY <1>18, <1>19, <1>20 DEF h, otherProtocol

------------------------------------------------------------------------------
(* Defective requests are not answered.                                    *)

(* What is wrong with a request.                                           *)
Wrong(q) ==
  \/ q.method \notin Methods
  \/ q.url = Append(Url, "x")
  \/ MethodIsNotValidInState(q.method)
  \/ Named(q.lines, "cseq") = {}
  \/ Named(q.lines, IF q.method = "SETUP" THEN "transport" ELSE "session") = {}
  \/ \E l \in Named(q.lines, "session") : Atoi(Split(l, ":").value) \notin SessionId
  \/ \E l : Named(q.lines, "range") = {l} /\ ~ RangeFormat(Split(l, ":").value)
  \/ \E l : Named(q.lines, "if-modified-since") = {l} /\ ~ TimeFormat(Split(l, ":").value)
  \/ \E l : Named(q.lines, "transport") = {l} /\ Split(l, ":").value \in {Tcp, <<>>}
  \/ \E l : Named(q.lines, "cseq") = {l} /\ Atoi(Split(l, ":").value) = 0

OtherSession == Line("Session", <<"9", "9">>)
BadRange == Line("Range", <<"npt", "=", "-">>)
BadTime == Line("If-Modified-Since", <<"yesterday">>)
OneCseq == Line("CSeq", <<"1">>)
NoColon == <<"CSeq", " ", "1", CRLF>>
NoNumber == Line("CSeq", <<"yesterday">>)
NoTransport == Line("Transport", <<>>)

(* A word is no number, and counts as 0.                                   *)
LEMMA WordIsZero == Atoi(<<"yesterday">>) = 0
<1> DEFINE w == "yesterday"
           s == <<w>>
           I == {i \in DOMAIN s : s[i] \notin ToSet(Digit)} \cup {Len(s) + 1}
<1>1. w \in Opening /\ w \notin Blank /\ w \in Token
  BY TokensInner, WordsInner DEF Opening, Inner
<1>2. w \notin DigitToken
  <2>1. \A i \in 1 .. 10 : Digit[i] \in {"0", "1", "2", "3", "4", "5", "6", "7", "8", "9"}
    BY DEF Digit
  <2>2. DigitToken = {Digit[i] : i \in 1 .. 10}
    BY DEF DigitToken, ToSet, Digit
  <2>3. \A c \in {"0", "1", "2", "3", "4", "5", "6", "7", "8", "9"} : c # "yesterday"
    BY Zenon
  <2> QED BY <2>1, <2>2, <2>3, Zenon
<1> HIDE DEF w
<1>3. s \in Seq(Token) /\ Len(s) = 1 /\ DOMAIN s = {1} /\ s[1] = w /\ s # <<>>
  BY <1>1
<1>4. SkipBlanks(s) = s
  BY <1>1, <1>3, NothingSkipped
<1>5. Min(I) = 1
  <2>1. I = {1, 2}
    BY <1>2, <1>3 DEF DigitToken
  <2> QED BY <2>1, LeastIs
<1>6. LeadingDigits(s) = <<>>
  <2>1. LeadingDigits(s) = SubSeq(s, 1, Min(I) - 1)
    BY Zenon DEF LeadingDigits
  <2> HIDE DEF I
  <2>2. LeadingDigits(s) = SubSeq(s, 1, 0)
    BY <1>5, <2>1
  <2> HIDE DEF s
  <2> QED BY <1>3, <2>2, EmptySeq
<1>7. Number[<<>>] = 0
  BY NumberDef, EmptySeq
<1> QED BY <1>4, <1>6, <1>7 DEF Atoi, w

LEMMA DefectLinesRead ==
  ASSUME Types
  PROVE  /\ Split(OneCseq, ":").name = <<"cseq">>
         /\ Split(SessionLine, ":").name = <<"session">>
         /\ Split(OtherSession, ":").name = <<"session">>
         /\ Atoi(Split(OtherSession, ":").value) \notin SessionId
         /\ Split(Line("Transport", Udp), ":").name = <<"transport">>
         /\ Split(Line("Transport", Tcp), ":").name = <<"transport">>
         /\ Split(Line("Transport", Tcp), ":").value = Tcp
         /\ Split(NoTransport, ":").name = <<"transport">>
         /\ Split(NoTransport, ":").value = <<>>
         /\ Split(NoNumber, ":").name = <<"cseq">>
         /\ Atoi(Split(NoNumber, ":").value) = 0
         /\ \A x : Split(NoColon, ":").name # <<x>>
         /\ Split(BadRange, ":").name = <<"range">> /\ ~ RangeFormat(Split(BadRange, ":").value)
         /\ Split(BadTime, ":").name = <<"if-modified-since">> /\ ~ TimeFormat(Split(BadTime, ":").value)
<1>1. \A n \in {"CSeq", "Session", "Transport", "Range", "If-Modified-Since"} :
        n \in KeyName \cup {"User-Agent"}
  BY Zenon DEF KeyName
<1>2. Split(OneCseq, ":").name = <<"cseq">>
  BY WordsWritten, KeyLines DEF OneCseq
<1>3. /\ Split(OtherSession, ":").name = <<"session">>
      /\ Split(OtherSession, ":").value = <<"9", "9">>
  BY <1>1, WordsWritten, KeyLines DEF OtherSession
<1>4. Atoi(Split(OtherSession, ":").value) \notin SessionId
  BY <1>3, SessionOfDefects
<1>5. port \in Nat
  BY CasesGood
<1>6. /\ Split(Line("Transport", Tcp), ":").name = <<"transport">>
      /\ Split(Line("Transport", Tcp), ":").value = Tcp
  BY <1>1, <1>5, TransportsWritten, KeyLines
<1>7. \A x : Split(NoColon, ":").name # <<x>>
  BY MalformedLine, Zenon DEF NoColon
<1>8. Split(BadRange, ":").name = <<"range">> /\ Split(BadRange, ":").value = <<"npt", "=", "-">>
  BY <1>1, WordsWritten, KeyLines DEF BadRange
<1>9. Split(BadTime, ":").name = <<"if-modified-since">> /\ Split(BadTime, ":").value = <<"yesterday">>
  BY <1>1, WordsWritten, KeyLines DEF BadTime
<1>10. ~ RangeFormat(Split(BadRange, ":").value)
  BY <1>8, RangesAreTaken
<1>11. ~ TimeFormat(Split(BadTime, ":").value)
  BY <1>9, YesterdayIsRefused
<1>12. Split(NoTransport, ":").name = <<"transport">> /\ Split(NoTransport, ":").value = <<>>
  <2>1. Split(NoTransport, ":") = [name |-> <<"transport">>, value |-> <<>>]
    BY <1>5, TransportLine DEF Asks, NoTransport
  <2> QED BY <2>1
<1>13. Split(NoNumber, ":").name = <<"cseq">> /\ Split(NoNumber, ":").value = <<"yesterday">>
  BY <1>1, WordsWritten, KeyLines DEF NoNumber
<1>14. Atoi(Split(NoNumber, ":").value) = 0
  BY <1>13, WordIsZero
<1> QED BY <1>2, <1>3, <1>4, <1>6, <1>7, <1>8, <1>9, <1>10, <1>11, <1>12, <1>13, <1>14, LinesRead

LEMMA DefectIsWrong ==
  ASSUME Types, NEW d \in Defects
  PROVE  /\ d.lines \in Seq(Text)
         /\ Consistent(ToSet(d.lines)) /\ Wrong(d)
<1> DEFINE cseq == OneCseq
           session == SessionLine
           other == OtherSession
           transport == Line("Transport", Udp)
           tcp == Line("Transport", Tcp)
           none == NoTransport
           malformed == NoColon
           yesterday == NoNumber
           range == BadRange
           modified == BadTime
           name(l) == Split(l, ":").name
           value(l) == Split(l, ":").value
           lines == d.lines
           key == IF d.method = "SETUP" THEN "transport" ELSE "session"
           long == Append(Url, "x")
<1>1. /\ name(cseq) = <<"cseq">> /\ name(session) = <<"session">> /\ name(other) = <<"session">>
      /\ Atoi(value(other)) \notin SessionId
      /\ name(transport) = <<"transport">> /\ name(tcp) = <<"transport">>
      /\ value(tcp) = Tcp /\ name(none) = <<"transport">> /\ value(none) = <<>>
      /\ \A x : name(malformed) # <<x>>
      /\ name(yesterday) = <<"cseq">> /\ Atoi(value(yesterday)) = 0
      /\ name(range) = <<"range">> /\ ~ RangeFormat(value(range))
      /\ name(modified) = <<"if-modified-since">> /\ ~ TimeFormat(value(modified))
  BY DefectLinesRead
<1>2. lines \in Seq(Text)
  <2>1. lines \in Seq(OKLines)
    BY CasesGood, TypesOfClient, DefectLines
  <2> QED BY <2>1, SeqMonotonic DEF OKLines
<1>3. \/ /\ d.method = "SETUP" /\ d.url = Url
         /\ lines \in {<<transport>>, <<cseq>>, <<cseq, tcp>>, <<none, cseq>>,
                       <<transport, cseq, other>>, <<transport, malformed>>,
                       <<yesterday, transport>>}
      \/ /\ d.method \in {"PLAY", "TEARDOWN"} /\ d.url = Url
         /\ lines \in {<<session>>, <<cseq>>, <<cseq, other>>, <<other, cseq, cseq>>,
                       <<cseq, session, tcp>>, <<none, cseq, session>>, <<tcp, cseq, other>>,
                       <<cseq, session, range>>, <<cseq, session, modified>>}
      \/ /\ d.method \in {"SETUP", "PLAY", "TEARDOWN"} /\ d.url = long
         /\ lines = <<cseq, session, transport>>
      \/ d.method = "OPTIONS" /\ d.url = Url /\ lines = <<cseq, session>>
      \/ /\ server.status = "INIT" /\ d.method = "PLAY" /\ d.url = Url
         /\ lines = <<cseq, session>>
      \/ /\ server.status # "INIT" /\ d.method = "SETUP" /\ d.url = Url
         /\ lines \in {<<cseq, transport>>, <<cseq, tcp>>}
  BY DefectIs, Zenon DEF OneCseq, SessionLine, OtherSession, NoTransport, NoColon, NoNumber,
                         BadRange, BadTime
<1>4. \A n : Named(lines, n) = {l \in ToSet(lines) : name(l) = <<n>>}
  BY DEF Named
<1>5. Wrong(d) <=>
        \/ d.method \notin Methods \/ d.url = long \/ MethodIsNotValidInState(d.method)
        \/ Named(lines, "cseq") = {} \/ Named(lines, key) = {}
        \/ \E l \in Named(lines, "session") : Atoi(value(l)) \notin SessionId
        \/ \E l : Named(lines, "range") = {l} /\ ~ RangeFormat(value(l))
        \/ \E l : Named(lines, "if-modified-since") = {l} /\ ~ TimeFormat(value(l))
        \/ \E l : Named(lines, "transport") = {l} /\ value(l) \in {Tcp, <<>>}
        \/ \E l : Named(lines, "cseq") = {l} /\ Atoi(value(l)) = 0
  BY Zenon DEF Wrong
<1>6. (\A k, l \in ToSet(lines) : name(k) = name(l) => k = l) => Consistent(ToSet(lines))
  BY DifferentNames
<1>7. /\ \A a : ToSet(<<a>>) = {a}
      /\ \A a, b : ToSet(<<a, b>>) = {a, b}
      /\ \A a, b, c : ToSet(<<a, b, c>>) = {a, b, c}
  BY SetOfLines
<1> HIDE DEF cseq, session, other, transport, tcp, none, malformed, yesterday, range, modified,
             name, value, long
<1> DEFINE Good == Consistent(ToSet(lines))
<1>8. ASSUME NEW l \in {transport, tcp, none, range, modified}, ToSet(lines) \subseteq {cseq, session, l}
      PROVE  Good
  <2>1. \A j, k \in {cseq, session, l} : name(j) = name(k) => j = k
    BY <1>1, OneName
  <2> QED BY <1>6, <1>8, <2>1
<1>9. ASSUME NEW l \in {transport, tcp}, ToSet(lines) \subseteq {cseq, other, l}
      PROVE  Good
  <2>1. \A j, k \in {cseq, other, l} : name(j) = name(k) => j = k
    BY <1>1, OneName
  <2> QED BY <1>6, <1>9, <2>1
<1>10. ASSUME NEW l \in {malformed, yesterday}, ToSet(lines) \subseteq {transport, l}
       PROVE  Good
  <2>1. \A j, k \in {transport, l} : name(j) = name(k) => j = k
    BY <1>1, OneName
  <2> QED BY <1>6, <1>10, <2>1
<1>11. Good
  <2>1. CASE lines \in {<<transport>>, <<cseq>>, <<session>>, <<cseq, session>>, <<cseq, transport>>,
                        <<cseq, session, transport>>}
    <3>1. ToSet(lines) \subseteq {cseq, session, transport}
      BY <1>7, <2>1
    <3> QED BY <1>8, <3>1
  <2>2. CASE lines \in {<<cseq, tcp>>, <<cseq, session, tcp>>}
    <3>1. ToSet(lines) \subseteq {cseq, session, tcp}
      BY <1>7, <2>2
    <3> QED BY <1>8, <3>1
  <2>3. CASE lines \in {<<none, cseq>>, <<none, cseq, session>>}
    <3>1. ToSet(lines) \subseteq {cseq, session, none}
      BY <1>7, <2>3
    <3> QED BY <1>8, <3>1
  <2>4. CASE lines = <<cseq, session, range>>
    <3>1. ToSet(lines) \subseteq {cseq, session, range}
      BY <1>7, <2>4
    <3> QED BY <1>8, <3>1
  <2>5. CASE lines = <<cseq, session, modified>>
    <3>1. ToSet(lines) \subseteq {cseq, session, modified}
      BY <1>7, <2>5
    <3> QED BY <1>8, <3>1
  <2>6. CASE lines \in {<<transport, cseq, other>>, <<cseq, other>>, <<other, cseq, cseq>>}
    <3>1. ToSet(lines) \subseteq {cseq, other, transport}
      BY <1>7, <2>6
    <3> QED BY <1>9, <3>1
  <2>7. CASE lines = <<tcp, cseq, other>>
    <3>1. ToSet(lines) \subseteq {cseq, other, tcp}
      BY <1>7, <2>7
    <3> QED BY <1>9, <3>1
  <2>8. CASE lines = <<transport, malformed>>
    <3>1. ToSet(lines) \subseteq {transport, malformed}
      BY <1>7, <2>8
    <3> QED BY <1>10, <3>1
  <2>9. CASE lines = <<yesterday, transport>>
    <3>1. ToSet(lines) \subseteq {transport, yesterday}
      BY <1>7, <2>9
    <3> QED BY <1>10, <3>1
  <2> HIDE DEF Good
  <2> QED BY <1>3, <2>1, <2>2, <2>3, <2>4, <2>5, <2>6, <2>7, <2>8, <2>9
(* What is wrong, in a request of each of the lists.                       *)
<1>12. ASSUME d.method = "SETUP",
              lines \in {<<transport>>, <<cseq>>, <<cseq, tcp>>, <<none, cseq>>,
                         <<transport, cseq, other>>, <<transport, malformed>>,
                         <<yesterday, transport>>}
       PROVE  Wrong(d)
  <2>1. CASE lines \in {<<transport>>, <<transport, malformed>>}
    <3>1. ToSet(lines) \subseteq {transport, malformed}
      BY <1>7, <2>1
    <3>2. Named(lines, "cseq") = {}
      BY <1>1, <1>4, <3>1, OneName
    <3> QED BY <1>5, <3>2
  <2>2. CASE lines = <<cseq>>
    <3>1. ToSet(lines) = {cseq}
      BY <1>7, <2>2
    <3>2. Named(lines, key) = {}
      BY <1>1, <1>4, <1>12, <3>1, OneName
    <3> QED BY <1>5, <3>2
  <2>3. CASE lines = <<cseq, tcp>>
    <3>1. ToSet(lines) = {cseq, tcp}
      BY <1>7, <2>3
    <3>2. Named(lines, "transport") = {tcp}
      BY <1>1, <1>4, <3>1, OneName
    <3> QED BY <1>1, <1>5, <3>2
  <2>4. CASE lines = <<none, cseq>>
    <3>1. ToSet(lines) = {none, cseq}
      BY <1>7, <2>4
    <3>2. Named(lines, "transport") = {none}
      BY <1>1, <1>4, <3>1, OneName
    <3> QED BY <1>1, <1>5, <3>2
  <2>5. CASE lines = <<transport, cseq, other>>
    <3>1. ToSet(lines) = {transport, cseq, other}
      BY <1>7, <2>5
    <3>2. other \in Named(lines, "session")
      BY <1>1, <1>4, <3>1
    <3> QED BY <1>1, <1>5, <3>2
  <2>6. CASE lines = <<yesterday, transport>>
    <3>1. ToSet(lines) = {yesterday, transport}
      BY <1>7, <2>6
    <3>2. Named(lines, "cseq") = {yesterday}
      BY <1>1, <1>4, <3>1, OneName
    <3> QED BY <1>1, <1>5, <3>2
  <2> QED BY <1>12, <2>1, <2>2, <2>3, <2>4, <2>5, <2>6
<1>13. ASSUME d.method # "SETUP",
              lines \in {<<session>>, <<cseq>>, <<cseq, other>>, <<other, cseq, cseq>>,
                         <<cseq, session, tcp>>, <<none, cseq, session>>, <<tcp, cseq, other>>,
                         <<cseq, session, range>>, <<cseq, session, modified>>}
       PROVE  Wrong(d)
  <2>1. CASE lines = <<session>>
    <3>1. ToSet(lines) = {session}
      BY <1>7, <2>1
    <3>2. Named(lines, "cseq") = {}
      BY <1>1, <1>4, <3>1, OneName
    <3> QED BY <1>5, <3>2
  <2>2. CASE lines = <<cseq>>
    <3>1. ToSet(lines) = {cseq}
      BY <1>7, <2>2
    <3>2. Named(lines, key) = {}
      BY <1>1, <1>4, <1>13, <3>1, OneName
    <3> QED BY <1>5, <3>2
  <2>3. CASE lines \in {<<cseq, other>>, <<other, cseq, cseq>>, <<tcp, cseq, other>>}
    <3>1. other \in ToSet(lines)
      BY <1>7, <2>3
    <3>2. other \in Named(lines, "session")
      BY <1>1, <1>4, <3>1
    <3> QED BY <1>1, <1>5, <3>2
  <2>4. CASE lines = <<cseq, session, tcp>>
    <3>1. ToSet(lines) = {cseq, session, tcp}
      BY <1>7, <2>4
    <3>2. Named(lines, "transport") = {tcp}
      BY <1>1, <1>4, <3>1, OneName
    <3> QED BY <1>1, <1>5, <3>2
  <2>5. CASE lines = <<none, cseq, session>>
    <3>1. ToSet(lines) = {none, cseq, session}
      BY <1>7, <2>5
    <3>2. Named(lines, "transport") = {none}
      BY <1>1, <1>4, <3>1, OneName
    <3> QED BY <1>1, <1>5, <3>2
  <2>6. CASE lines = <<cseq, session, range>>
    <3>1. ToSet(lines) = {cseq, session, range}
      BY <1>7, <2>6
    <3>2. Named(lines, "range") = {range}
      BY <1>1, <1>4, <3>1, OneName
    <3> QED BY <1>1, <1>5, <3>2
  <2>7. CASE lines = <<cseq, session, modified>>
    <3>1. ToSet(lines) = {cseq, session, modified}
      BY <1>7, <2>7
    <3>2. Named(lines, "if-modified-since") = {modified}
      BY <1>1, <1>4, <3>1, OneName
    <3> QED BY <1>1, <1>5, <3>2
  <2> QED BY <1>13, <2>1, <2>2, <2>3, <2>4, <2>5, <2>6, <2>7
<1>14. ASSUME \/ d.url = long \/ d.method = "OPTIONS"
              \/ server.status = "INIT" /\ d.method = "PLAY"
              \/ server.status # "INIT" /\ d.method = "SETUP"
       PROVE  Wrong(d)
  BY <1>5, <1>14 DEF Methods, MethodIsNotValidInState
<1>15. Wrong(d)
  BY <1>3, <1>12, <1>13, <1>14
<1> QED BY <1>2, <1>11, <1>15

(* The checks find it.                                                     *)
LEMMA WrongIsRefused ==
  ASSUME Inv, turn = "serve", Wrong(request), NEW session \in Sessions
  PROVE  Respond(request, Parsed(request.lines), session).answer = <<>>
<1> DEFINE m == request.method
           lines == request.lines
           h == Parsed(lines)
           info == GetRTSPInfo(h, session)
           o == Outcome(request, h, info)
           value(l) == Split(l, ":").value
<1>1. Types /\ Open(server) /\ lines \in Seq(OKLines)
  BY DEF Inv, RequestRead
<1>2. lines \in Seq(Text)
  BY <1>1, SeqMonotonic DEF OKLines
<1>3. session \in SessionId
  <2>1. server.session_id \in SessionId \cup {0}
    BY <1>1 DEF Types, ServerType
  <2> QED BY <2>1 DEF Sessions
<1>4. \/ m \notin Methods \/ request.url = Append(Url, "x") \/ MethodIsNotValidInState(m)
      \/ Named(lines, "cseq") = {}
      \/ Named(lines, IF m = "SETUP" THEN "transport" ELSE "session") = {}
      \/ \E l \in Named(lines, "session") : Atoi(value(l)) \notin SessionId
      \/ \E l : Named(lines, "range") = {l} /\ ~ RangeFormat(value(l))
      \/ \E l : Named(lines, "if-modified-since") = {l} /\ ~ TimeFormat(value(l))
      \/ \E l : Named(lines, "transport") = {l} /\ value(l) \in {Tcp, <<>>}
      \/ \E l : Named(lines, "cseq") = {l} /\ Atoi(value(l)) = 0
  BY Zenon DEF Wrong
<1>5. Respond(request, h, session) = o
  BY DEF Respond
<1>6. Refused(request, h) => o.answer = <<>>
  BY DEF Outcome
<1>7. AlsoRefused(h, info) => o.answer = <<>>
  BY DEF Outcome
<1>8. \A name : FieldExists(h, name) <=> Named(lines, name) # {}
  BY <1>2, FieldIsThere
<1>9. ASSUME NEW name, NEW l, Named(lines, name) = {l}
      PROVE  FieldExists(h, name) /\ Field(h, name) = value(l) /\ LastField(h, name) = value(l)
  <2> DEFINE v == value(l)
  <2>1. Named(lines, name) # {} /\ \A k \in Named(lines, name) : Split(k, ":").value = v
    BY <1>9
  <2> HIDE DEF v
  <2>2. Field(h, name) = v /\ LastField(h, name) = v
    BY <1>2, <2>1, FieldIsValue
  <2> QED BY <1>8, <2>1, <2>2 DEF v
<1> HIDE DEF o
<1>10. ASSUME m \notin Methods
       PROVE  o.answer = <<>>
  <2>1. SendOK(m, info.server, info.cseq).answer = <<>>
    BY <1>10 DEF SendOK, Methods
  <2> HIDE DEF h, info
  <2> QED BY <1>6, <1>7, <2>1 DEF Outcome, o
<1>11. ASSUME request.url = Append(Url, "x")
       PROVE  Refused(request, h)
  <2>1. <<port, video, day>> \in Cases /\ <<port, video, day>>[2] = video
    BY <1>1 DEF Types
  <2>2. Path(request.url) \notin Existing
    BY <1>11, <2>1, NamesAssumption DEF Url
  <2> QED BY <2>2, Zenon DEF Refused
<1>12. ASSUME MethodIsNotValidInState(m)
       PROVE  Refused(request, h)
  BY <1>12, Zenon DEF Refused
<1>13. ASSUME Named(lines, "cseq") = {}
       PROVE  Refused(request, h)
  <2>1. ~ FieldExists(h, "cseq")
    BY <1>8, <1>13
  <2> QED BY <2>1, Zenon DEF Refused
<1>14. ASSUME Named(lines, IF m = "SETUP" THEN "transport" ELSE "session") = {}
       PROVE  Refused(request, h)
  <2>1. CASE m = "SETUP"
    <3>1. ~ FieldExists(h, "transport")
      BY <1>8, <1>14, <2>1
    <3> QED BY <2>1, <3>1, Zenon DEF Refused
  <2>2. CASE m # "SETUP"
    <3>1. ~ FieldExists(h, "session")
      BY <1>8, <1>14, <2>2
    <3> QED BY <2>2, <3>1, Zenon DEF Refused
  <2> QED BY <2>1, <2>2
<1>15. ASSUME NEW l \in Named(lines, "session"), Atoi(value(l)) \notin SessionId
       PROVE  AlsoRefused(h, info)
  <2>1. WrongSession(h, session) # 0
    BY <1>2, <1>3, <1>15, SessionIsRight
  <2>2. info.cseq = 0
    BY <2>1 DEF GetRTSPInfo, CseqNumber
  <2> QED BY <2>2, Zenon DEF AlsoRefused
<1>16. ASSUME NEW l, Named(lines, "range") = {l}, ~ RangeFormat(value(l))
       PROVE  Refused(request, h)
  <2>1. FieldExists(h, "range") /\ ~ RangeFormat(Field(h, "range"))
    BY <1>9, <1>16
  <2> QED BY <2>1, Zenon DEF Refused
<1>17. ASSUME NEW l, Named(lines, "if-modified-since") = {l}, ~ TimeFormat(value(l))
       PROVE  Refused(request, h)
  <2>1. FieldExists(h, "if-modified-since") /\ ~ TimeFormat(Field(h, "if-modified-since"))
    BY <1>9, <1>17
  <2> QED BY <2>1, Zenon DEF Refused
<1>18. WrongSession(h, session) # 0 => AlsoRefused(h, info)
  <2>1. WrongSession(h, session) # 0 => info.cseq = 0
    BY DEF GetRTSPInfo, CseqNumber
  <2> QED BY <2>1, Zenon DEF AlsoRefused
<1>19. ASSUME NEW l, Named(lines, "transport") = {l}, value(l) \in {Tcp, <<>>},
              WrongSession(h, session) = 0
       PROVE  AlsoRefused(h, info)
  <2> DEFINE v == value(l)
  <2>1. FieldsRead(h, session) = h
    BY <1>19 DEF FieldsRead
  <2>2. /\ FieldExists(FieldsRead(h, session), "transport")
        /\ LastField(FieldsRead(h, session), "transport") = v
    BY <1>9, <1>19, <2>1
  <2>3. v \in Asks /\ v # Udp
    <3>1. port \in Nat
      BY <1>1, CasesGood
    <3> QED BY <1>19, <3>1, OtherTransports DEF Asks
  <2> HIDE DEF v
  <2>4. info.server.protocol_type # PROTOCOL_TYPE
    BY <1>1, <2>2, <2>3, ProtocolIsRead
  <2> QED BY <2>4, Zenon DEF AlsoRefused
<1>20. ASSUME NEW l, Named(lines, "cseq") = {l}, Atoi(value(l)) = 0, WrongSession(h, session) = 0
       PROVE  AlsoRefused(h, info)
  <2>1. Atoi(LastField(h, "cseq")) = 0
    BY <1>9, <1>20
  <2>2. info.cseq = 0
    BY <1>20, <2>1 DEF GetRTSPInfo, CseqNumber
  <2> QED BY <2>2, Zenon DEF AlsoRefused
<1> HIDE DEF h, info, value, lines, m
<1>21. o.answer = <<>>
  BY <1>4, <1>6, <1>7, <1>10, <1>11, <1>12, <1>13, <1>14, <1>15, <1>16, <1>17, <1>18, <1>19, <1>20,
     Zenon
<1> QED BY <1>5, <1>21 DEF h, lines

------------------------------------------------------------------------------
(* Every request on its way is complete or defective.                      *)

LEMMA UrlNamesFile ==
  ASSUME Types
  PROVE  LET escaped == [i \in DOMAIN Url |-> IF i > 5 /\ Url[i] = "/" THEN "%2F" ELSE Url[i]]
         IN Path(Url) \in Existing /\ Path(escaped) \in Existing
<1> DEFINE escaped == [i \in DOMAIN Url |-> IF i > 5 /\ Url[i] = "/" THEN "%2F" ELSE Url[i]]
<1>1. Path(Url) \in Existing
  <2>1. <<port, video, day>> \in Cases /\ <<port, video, day>>[2] = video
    BY DEF Types
  <2> QED BY <2>1, NamesAssumption DEF Url
<1>2. DecodeURL(escaped) = DecodeURL(Url)
  <2>1. DOMAIN escaped = DOMAIN Url
    BY Zenon
  <2>2. ASSUME NEW i \in DOMAIN Url
        PROVE  (IF escaped[i] = "%2F" THEN "/" ELSE escaped[i]) = IF Url[i] = "%2F" THEN "/" ELSE Url[i]
    <3>1. escaped[i] = IF i > 5 /\ Url[i] = "/" THEN "%2F" ELSE Url[i]
      BY Zenon
    <3> HIDE DEF escaped
    <3> QED BY <3>1
  <2> HIDE DEF escaped
  <2> QED BY <2>1, <2>2 DEF DecodeURL
<1>3. Path(escaped) = Path(Url)
  BY <1>2 DEF Path
<1> QED BY <1>1, <1>3 DEF escaped

(* What a request is made of does not change on its way.                   *)
LEMMA CompleteStays ==
  ASSUME UNCHANGED <<port, day>>, client'.session_id = client.session_id,
         NEW q, Complete(q), request' = q
  PROVE  Complete(request)'
<1>1. Line("Transport", Udp)' = Line("Transport", Udp)
  BY Zenon DEF Udp, Transport, Line
<1>2. SessionLine' = SessionLine
  BY Zenon DEF SessionLine, Line
<1>3. Options(q.kind)' = Options(q.kind)
  BY Zenon DEF Options, TimeLine, Line
<1>4. \A n : CseqLine(n)' = CseqLine(n)
  BY Zenon DEF CseqLine, Line
<1>5. UserAgent' = UserAgent
  BY Zenon DEF UserAgent, Line
<1> QED BY <1>1, <1>2, <1>3, <1>4, <1>5, Zenon DEF Complete

LEMMA RequestMade ==
  ASSUME Inv, NEW m \in Methods, NEW kind \in {"good", "unmodified"}, NEW option \in Options(kind),
         NEW url, Path(url) \in Existing,
         NEW lines \in Seq(Text), ToSet(lines) = ToSet(NextLines(m)) \cup option,
         NextRequest(kind, m, url, lines)
  PROVE  RequestFormed'
<1> DEFINE n == client.cseq_number + 1
           key == IF m = "SETUP" THEN Line("Transport", Udp) ELSE SessionLine
           q == [kind |-> kind, method |-> m, url |-> url, lines |-> lines]
<1>1. /\ UNCHANGED <<port, video, day>> /\ request' = q /\ Sensitive(m)
      /\ client.cseq_number < MaxCseq /\ client' = [client EXCEPT !.cseq_number = @ + 1]
  BY DEF NextRequest, Ask, fixed
<1>2. client \in ClientType /\ MaxCseq \in Nat
  BY DialogueAssumption DEF Inv, Types
<1>3. client'.session_id = client.session_id /\ client'.status = client.status
  BY <1>1, <1>2 DEF ClientType
<1>4. n \in 1 .. MaxCseq
  BY <1>1, <1>2 DEF ClientType
<1>5. ToSet(NextLines(m)) = {CseqLine(n), UserAgent, key}
  <2>1. NextLines(m) = <<CseqLine(n), key, UserAgent>>
    BY Zenon DEF NextLines, Lines, CseqLine, SessionLine, Udp
  <2> HIDE DEF n, key
  <2>2. ToSet(NextLines(m)) = {CseqLine(n), key, UserAgent}
    BY <2>1, SetOfLines
  <2> QED BY <2>2
<1> HIDE DEF n
<1>6. Complete(q)
  <2>1. ToSet(lines) = {CseqLine(n), UserAgent, key} \cup option
    BY <1>5
  <2>2. /\ q.kind = kind /\ q.method = m /\ q.url = url /\ q.lines = lines
    OBVIOUS
  <2> HIDE DEF q
  <2> QED BY <1>4, <2>1, <2>2, Zenon DEF Complete
<1>7. Complete(request)'
  <2> HIDE DEF q
  <2> QED BY <1>1, <1>3, <1>6, CompleteStays
<1>8. Sensitive(request.method)'
  BY <1>1, <1>3 DEF Sensitive
<1> QED BY <1>7, <1>8 DEF RequestFormed

LEMMA SendFormed ==
  ASSUME Inv, NEW m \in Methods, SendRequest(m) \/ SendVariant(m) \/ SendIfModified(m)
  PROVE  RequestFormed'
<1> DEFINE escaped == [i \in DOMAIN Url |-> IF i > 5 /\ Url[i] = "/" THEN "%2F" ELSE Url[i]]
<1>1. /\ port \in Nat /\ day \in DOMAIN DayLength
      /\ client.session_id \in Nat /\ client.cseq_number + 1 \in Nat
  BY CasesGood, TypesOfClient DEF Inv, Types
<1>2. NextLines(m) \in Seq(Text)
  <2>1. NextLines(m) \in Seq(OKLines)
    BY <1>1, ClientLines DEF NextLines
  <2> QED BY <2>1, SeqMonotonic DEF OKLines
<1>3. Path(Url) \in Existing /\ Path(escaped) \in Existing
  BY UrlNamesFile DEF Inv
<1> HIDE DEF escaped
<1>4. CASE SendRequest(m)
  <2> DEFINE none == {}
  <2>1. none \in Options("good")
    BY Zenon DEF Options
  <2>2. ToSet(NextLines(m)) = ToSet(NextLines(m)) \cup none
    OBVIOUS
  <2>3. NextRequest("good", m, Url, NextLines(m))
    BY <1>4 DEF SendRequest
  <2> HIDE DEF none
  <2> QED BY <1>2, <1>3, <2>1, <2>2, <2>3, RequestMade
<1>5. CASE SendVariant(m)
  <2>1. PICK r \in Ranges :
          NextRequest("good", m, escaped, Reverse(NextLines(m) \o <<Line("Range", r)>>))
    BY <1>5, Zenon DEF SendVariant, escaped
  <2> DEFINE x == Line("Range", r)
             s == NextLines(m) \o <<x>>
             option == {x}
  <2>2. x \in Text
    BY LinesRead DEF Inv
  <2>3. option \in Options("good")
    BY Zenon DEF Options
  <2> HIDE DEF x
  <2>4. s \in Seq(Text) /\ ToSet(s) = ToSet(NextLines(m)) \cup option
    BY <1>2, <2>2, OneLineMore
  <2> HIDE DEF s, option
  <2>5. Reverse(s) \in Seq(Text) /\ ToSet(Reverse(s)) = ToSet(NextLines(m)) \cup option
    BY <2>4, ReversedLines, SameLinesReversed
  <2>6. NextRequest("good", m, escaped, Reverse(s))
    BY <2>1 DEF s, x
  <2> QED BY <1>3, <2>3, <2>5, <2>6, RequestMade
<1>6. CASE SendIfModified(m)
  <2>1. PICK i \in 1 .. 3, d \in {day, "Sunday"} :
          NextRequest(IF d = day THEN "unmodified" ELSE "good", m, Url,
                      Append(NextLines(m), Line("If-Modified-Since", <<Formats[i], d>>)))
    BY <1>6, Zenon DEF SendIfModified
  <2> DEFINE kind == IF d = day THEN "unmodified" ELSE "good"
             x == TimeLine(i, d)
             s == Append(NextLines(m), x)
             option == {x}
  <2>2. d \in DOMAIN DayLength
    BY <1>1 DEF DayLength
  <2>3. x \in Text
    BY <2>2, LinesRead DEF Inv
  <2>4. option \in Options(kind)
    <3>1. CASE d = day
      BY <3>1, Zenon DEF Options
    <3>2. CASE d # day
      <4>1. d = "Sunday" /\ day # "Sunday" /\ kind = "good" /\ kind # "unmodified"
        BY <3>2
      <4>2. option \in {{TimeLine(j, "Sunday")} : j \in 1 .. 3}
        BY <4>1, Zenon
      <4>3. Options("good") = {{}} \cup {{Line("Range", r)} : r \in Ranges}
                                   \cup {{TimeLine(j, "Sunday")} : j \in 1 .. 3}
        BY <4>1 DEF Options
      <4> QED BY <4>1, <4>2, <4>3
    <3> QED BY <3>1, <3>2
  <2>5. NextRequest(kind, m, Url, s)
    BY <2>1, Zenon DEF TimeLine
  <2> HIDE DEF x
  <2>6. s \in Seq(Text) /\ ToSet(s) = ToSet(NextLines(m)) \cup option
    <3>1. s \in Seq(Text)
      BY <1>2, <2>3, AppendProperties
    <3>2. \A t \in Seq(Text), y \in Text : ToSet(Append(t, y)) = ToSet(t) \cup {y}
      <4> SUFFICES ASSUME NEW t \in Seq(Text), NEW y \in Text
                   PROVE  ToSet(Append(t, y)) = ToSet(t) \cup {y}
        OBVIOUS
      <4> HIDE DEF option, s, kind
      <4> DEFINE T == Text
      <4>1. t \in Seq(T) /\ y \in T
        OBVIOUS
      <4> HIDE DEF T
      <4>2. ToSet(Append(t, y)) = ToSet(t) \cup {y} /\ ToSet(t \o <<y>>) = ToSet(t) \cup {y}
        BY <4>1, OneLineMore
      <4> QED BY <4>2
    <3>3. ToSet(s) = ToSet(NextLines(m)) \cup {x}
      BY <1>2, <2>3, <3>2, Zenon
    <3> QED BY <3>1, <3>3
  <2>7. kind \in {"good", "unmodified"}
    OBVIOUS
  <2> HIDE DEF s, option, kind
  <2> QED BY <1>3, <2>4, <2>5, <2>6, <2>7, RequestMade
<1> QED BY <1>4, <1>5, <1>6

LEMMA DefectiveFormed ==
  ASSUME SendDefective
  PROVE  RequestFormed'
<1>1. PICK d \in Defects : Ask("defective", d.method, d.url, d.lines) /\ UNCHANGED client
  BY DEF SendDefective
<1>2. /\ UNCHANGED <<port, video, server, client>>
      /\ request' = [kind |-> "defective", method |-> d.method, url |-> d.url, lines |-> d.lines]
  BY <1>1 DEF Ask, fixed
<1>3. Defects' = Defects
  BY <1>2, Zenon DEF Defects, Transport, Line, Url, UrlOf
<1>4. Defective(request)'
  BY <1>2, <1>3 DEF Defective
<1> QED BY <1>4 DEF RequestFormed

------------------------------------------------------------------------------
(* The inductive invariant.                                                *)

AnsweredRight == GoodRequestsAnswered /\ DefectsRefused /\ UnmodifiedIsRefused

Served == Inv /\ RequestFormed /\ AnsweredRight

LEMMA ServeAnswers ==
  ASSUME Inv, RequestFormed, Serve
  PROVE  AnsweredRight'
<1> DEFINE h == Parsed(request.lines)
           f == "if-modified-since"
<1>1. turn = "serve" /\ turn' = "receive" /\ UNCHANGED <<port, video, day, client, request>>
  BY DEF Serve, fixed
<1>2. PICK session \in Sessions :
        /\ answer' = Respond(request, h, session).answer
        /\ server' = Respond(request, h, session).server
  BY DEF Serve
<1>3. Defective(request) \/ (Complete(request) /\ Sensitive(request.method))
  BY <1>1 DEF RequestFormed
<1>4. CASE Defective(request)
  <2>1. PICK d \in Defects : request.method = d.method /\ request.url = d.url /\ request.lines = d.lines
    BY <1>4 DEF Defective
  <2>2. Wrong(d)
    BY DefectIsWrong DEF Inv
  <2>3. Wrong(request)
    BY <2>1, <2>2 DEF Wrong
  <2>4. answer' = <<>>
    BY <1>1, <1>2, <2>3, WrongIsRefused
  <2>5. request.kind = "defective"
    BY <1>4 DEF Defective
  <2> QED BY <1>1, <2>4, <2>5
          DEF AnsweredRight, GoodRequestsAnswered, DefectsRefused, UnmodifiedIsRefused, Accepted
<1>5. CASE Complete(request) /\ Sensitive(request.method)
  <2> DEFINE otherProtocol == request.method # "SETUP" /\ server.protocol_type # PROTOCOL_TYPE
  <2>1. /\ answer' = <<>>
             <=> (FieldExists(h, f) /\ CompareModifiedTime(day, Field(h, f))) \/ otherProtocol
        /\ answer' = <<>> /\ otherProtocol => Locked'
    BY <1>1, <1>2, <1>5, CompleteIsServed DEF Locked
  <2> HIDE DEF otherProtocol
  <2>2. TimeRead(request.kind, h) /\ request.kind \in {"good", "unmodified"}
    <3>1. Types
      BY DEF Inv
    <3>2. request.kind \in {"good", "unmodified"}
      BY <1>5 DEF Complete
    <3> QED BY <1>5, <3>1, <3>2, CompleteIsRead
  <2>3. day \in DOMAIN DayLength
    BY CasesGood DEF Inv
  <2>4. ASSUME FieldExists(h, f)
        PROVE  \E i \in 1 .. 3 :
                 /\ Field(h, f)[1] = Formats[i]
                 /\ CompareModifiedTime(day, Field(h, f))
                      <=> request.kind = "unmodified"
                            /\ (Formats[i] # "rfc850" \/ DayLength[day] + 24 < TIME_SIZE)
    <3>1. PICK i \in 1 .. 3, d \in DOMAIN DayLength :
            Field(h, f) = <<Formats[i], d>> /\ (request.kind = "unmodified" <=> d = day)
      BY <2>2, <2>4 DEF TimeRead
    <3>2. /\ <<Formats[i], d>>[1] = Formats[i]
          /\ CompareModifiedTime(day, <<Formats[i], d>>)
               <=> d = day /\ (Formats[i] # "rfc850" \/ DayLength[day] + 24 < TIME_SIZE)
      BY <2>3, TimesAreTaken
    <3> HIDE DEF h
    <3> QED BY <3>1, <3>2
  <2>5. request.kind = "unmodified" => FieldExists(h, f)
    BY <2>2 DEF TimeRead
  <2> HIDE DEF f
  <2>6. request.kind = "good" /\ ~ Locked' => answer' # <<>>
    BY <2>1, <2>4
  <2>7. request.kind = "unmodified" /\ Field(h, f)[1] # "rfc850" => answer' = <<>>
    BY <2>1, <2>4, <2>5
  <2>8. GoodRequestsAnswered'
    BY <1>1, <2>6 DEF GoodRequestsAnswered, Accepted
  <2>9. DefectsRefused'
    BY <1>1, <2>2 DEF DefectsRefused
  <2>10. UnmodifiedIsRefused'
    <3>1. h' = h /\ day' = day
      BY <1>1
    <3> HIDE DEF h
    <3> QED BY <1>1, <2>7, <3>1 DEF UnmodifiedIsRefused, Accepted, h, f
  <2> QED BY <2>8, <2>9, <2>10 DEF AnsweredRight
<1> QED BY <1>3, <1>4, <1>5

LEMMA InitServed == Init => Served
<1> SUFFICES ASSUME Init PROVE Served
  OBVIOUS
<1>1. Inv /\ turn = "send"
  BY InitInv DEF Init
<1>2. RequestFormed
  BY <1>1 DEF RequestFormed
<1>3. AnsweredRight
  BY <1>1 DEF AnsweredRight, GoodRequestsAnswered, DefectsRefused, UnmodifiedIsRefused
<1> QED BY <1>1, <1>2, <1>3 DEF Served

LEMMA ServedIsInductive == Served /\ [Next]_vars => Served'
<1> SUFFICES ASSUME Served, [Next]_vars PROVE Served'
  OBVIOUS
<1>1. Inv /\ RequestFormed /\ AnsweredRight
  BY DEF Served
<1>2. Inv'
  BY <1>1, InvIsInductive
<1>3. turn' # "receive" => AnsweredRight'
  BY DEF AnsweredRight, GoodRequestsAnswered, DefectsRefused, UnmodifiedIsRefused
<1>4. turn' # "serve" => RequestFormed'
  BY DEF RequestFormed
<1>5. ASSUME NEW m \in Methods, SendRequest(m) \/ SendVariant(m) \/ SendIfModified(m)
      PROVE  Served'
  <2>1. turn' # "receive"
    BY <1>5, Zenon DEF SendRequest, SendVariant, SendIfModified, NextRequest, Ask
  <2>2. RequestFormed'
    BY <1>1, <1>5, SendFormed
  <2> QED BY <1>2, <1>3, <2>1, <2>2 DEF Served
<1>6. CASE SendDefective
  <2>1. turn' # "receive"
    BY <1>6, Zenon DEF SendDefective, Ask
  <2> QED BY <1>2, <1>3, <1>6, <2>1, DefectiveFormed DEF Served
<1>7. CASE Serve
  <2>1. turn' # "serve"
    BY <1>7 DEF Serve
  <2> QED BY <1>1, <1>2, <1>4, <1>7, <2>1, ServeAnswers DEF Served
<1>8. CASE Receive
  <2>1. turn' # "serve" /\ turn' # "receive"
    BY <1>8 DEF Receive
  <2> QED BY <1>2, <1>3, <1>4, <2>1 DEF Served
<1>9. CASE UNCHANGED vars
  <2>1. UNCHANGED <<port, day, client, server, request, answer, turn, video>>
    BY <1>9 DEF vars, fixed
  <2>2. RequestFormed'
    <3>1. CASE turn # "serve"
      BY <1>4, <2>1, <3>1
    <3>2. CASE turn = "serve" /\ Defective(request)
      <4>1. Defects' = Defects
        BY <2>1, Zenon DEF Defects, Transport, Line, Url, UrlOf
      <4>2. Defective(request)'
        BY <2>1, <3>2, <4>1 DEF Defective
      <4> QED BY <4>2 DEF RequestFormed
    <3>3. CASE turn = "serve" /\ Complete(request) /\ Sensitive(request.method)
      <4>1. Complete(request)'
        BY <2>1, <3>3, CompleteStays
      <4>2. Sensitive(request.method)'
        BY <2>1, <3>3 DEF Sensitive
      <4> QED BY <4>1, <4>2 DEF RequestFormed
    <3> QED BY <1>1, <3>1, <3>2, <3>3 DEF RequestFormed
  <2>3. AnsweredRight'
    <3>1. Locked' = Locked /\ Accepted' = Accepted
      BY <2>1 DEF Locked, Accepted
    <3> QED BY <1>1, <2>1, <3>1 DEF AnsweredRight, GoodRequestsAnswered, DefectsRefused, UnmodifiedIsRefused
  <2> QED BY <1>2, <2>2, <2>3 DEF Served
<1> QED BY <1>5, <1>6, <1>7, <1>8, <1>9 DEF Next, Methods

LEMMA ServedHolds == Spec => []Served
BY InitServed, ServedIsInductive, PTL DEF Spec

------------------------------------------------------------------------------
(* Each request of the client's three callbacks, and of a program that     *)
(* writes the same in another order, with escapes, a range or a time of    *)
(* change, passes the checks of respondClientRequest in every state it is  *)
(* made in and is answered, unless a request refused before has left the   *)
(* session a transport the server does not support.                        *)
THEOREM GoodAnswered == Spec => []GoodRequestsAnswered
<1>1. Served => GoodRequestsAnswered
  BY DEF Served, AnsweredRight
<1> QED BY <1>1, ServedHolds, PTL

(* respondClientRequest answers no request of the set Defects, whatever    *)
(* was asked before: each of them lacks a line its method needs, or has    *)
(* one malformed line, a CSeq that is no number, a session or a transport  *)
(* that is not the server's, the name of a file that does not exist, or a  *)
(* method of another state.  Nothing is said of other requests.            *)
THEOREM DefectiveRefused == Spec => []DefectsRefused
<1>1. Served => DefectsRefused
  BY DEF Served, AnsweredRight
<1> QED BY <1>1, ServedHolds, PTL

(* A file that has not changed since the time the request names is not     *)
(* sent, on whichever day it was changed, if the time is in the first or   *)
(* the last of the formats, whose texts fit in compareModifiedTime's       *)
(* buffer.                                                                 *)
THEOREM UnmodifiedRefused == Spec => []UnmodifiedIsRefused
<1>1. Served => UnmodifiedIsRefused
  BY DEF Served, AnsweredRight
<1> QED BY <1>1, ServedHolds, PTL

(* Whatever the order of the lines, fieldExist and getRTSPInfo's loop find *)
(* the same in them, although the loop stops at a wrong session: the same  *)
(* requests are refused, and the others leave the same state and answer.   *)
THEOREM OrderOfLines == Spec => []OrderIsIrrelevant
<1>1. ASSUME Served PROVE OrderIsIrrelevant
  <2> SUFFICES ASSUME turn = "serve", NEW session \in Sessions,
                      NEW p \in Bijection(DOMAIN request.lines, DOMAIN request.lines)
               PROVE  Effect(Respond(request, Parsed([i \in DOMAIN request.lines |-> request.lines[p[i]]]), session))
                        = Effect(Respond(request, Parsed(request.lines), session))
    BY Zenon DEF OrderIsIrrelevant
  <2>1. Types /\ (Defective(request) \/ Complete(request))
    BY <1>1 DEF Served, Inv, RequestFormed
  <2> DEFINE s == request.lines
             t == [i \in DOMAIN s |-> s[p[i]]]
  <2>2. s \in Seq(Text) /\ Consistent(ToSet(s))
    <3>1. CASE Complete(request)
      BY <2>1, <3>1, CompleteIsRead DEF Complete
    <3>2. CASE Defective(request)
      BY <2>1, <3>2, DefectIsWrong DEF Defective
    <3> QED BY <2>1, <3>1, <3>2
  <2>3. t \in Seq(Text) /\ ToSet(t) = ToSet(s)
    BY <2>2, SameLinesPermuted
  <2> HIDE DEF s, t
  <2>4. Effect(Respond(request, Parsed(s), session)) = Effect(Respond(request, Parsed(t), session))
    BY <2>2, <2>3, SameEffect
  <2> QED BY <2>4 DEF s, t
<1> QED BY <1>1, ServedHolds, PTL
==============================================================================
