-------------------------- MODULE RtspDialogueProofs -------------------------
(***************************************************************************)
(* Theorems about RtspDialogue, for all ports, session numbers, names,     *)
(* days and numbers of requests.                                           *)
(***************************************************************************)
EXTENDS RtspDialogue, RtspTextProofs

(* The tokens of the messages.                                             *)
Word ==
  {" ", CRLF, ":", ";", "=", "-", "CSeq", "Cseq", "Session", "Transport", "Range",
   "If-Modified-Since", "User-Agent", "Server", "Last-Modified", "Content-Type",
   "RTP/UDP", "RTP/TCP", "rtp/udp", "rtp/tcp", "Compression", "compression", "client_port",
   "server_port", "mode", "PLAY", "npt", "Networks", "client", "server", "text/plain",
   "yesterday", "uninitialised", "rfc1123", "rfc850", "asctime", "RTSP/1.0", "200", "OK",
   "frame_number"}

Token == Word \cup DigitToken \cup DOMAIN DayLength
Text == Seq(Token)

------------------------------------------------------------------------------
(* How a text is cut.                                                      *)

(* The first place where a text stops is one of its places, or its end.    *)
LEMMA LeastOf ==
  ASSUME NEW T \in SUBSET Nat, T # {}
  PROVE  Min(T) \in T /\ \A i \in T : Min(T) <= i
<1>1. PICK n \in T : \A m \in T : ~ (<<m, n>> \in Smaller)
  <2>1. IsWellFoundedOn(Smaller, Nat)
    BY NatLessThanWellFounded DEF OpToRel, Smaller
  <2> QED BY <2>1, WFMin
<1>2. \A m \in T : m \in Nat /\ n \in Nat /\ ~ (m < n)
  BY <1>1 DEF Smaller
<1>3. \A m \in T : n <= m
  BY <1>2
<1> QED BY <1>3 DEF Min

LEMMA PlaceToStop ==
  ASSUME NEW S, NEW s \in Seq(S), NEW Stops
  PROVE  Min({i \in DOMAIN s : s[i] \in Stops} \cup {Len(s) + 1}) \in 1 .. Len(s) + 1
<1> DEFINE T == {i \in DOMAIN s : s[i] \in Stops} \cup {Len(s) + 1}
<1>1. Len(s) \in Nat /\ DOMAIN s = 1 .. Len(s)
  BY LenProperties
<1>2. T \in SUBSET Nat /\ T # {} /\ T \subseteq 1 .. Len(s) + 1
  BY <1>1
<1>3. Min(T) \in T
  <2> HIDE DEF T
  <2> QED BY <1>2, LeastOf
<1> QED BY <1>2, <1>3

(* What is before, from and after it is a text.                            *)
LEMMA PiecesAreTexts ==
  ASSUME NEW S, NEW s \in Seq(S), NEW Stop
  PROVE  /\ Before(s, Stop) \in Seq(S)
         /\ After(s, Stop) \in Seq(S)
         /\ SkipBlanks(s) \in Seq(S)
         /\ LeadingDigits(s) \in Seq(S)
<1>1. Len(s) \in Nat
  BY LenProperties
<1>2. ASSUME NEW m \in Nat, NEW n \in Nat, m >= 1, n <= Len(s)
      PROVE  SubSeq(s, m, n) \in Seq(S)
  <2>1. \A i \in m .. n : s[i] \in S
    BY <1>1, <1>2
  <2> QED BY <2>1, SubSeqProperties
<1>3. FirstIn(s, Stop) \in 1 .. Len(s) + 1
  BY PlaceToStop DEF FirstIn
<1>4. /\ 1 \in Nat /\ Len(s) <= Len(s)
      /\ FirstIn(s, Stop) - 1 \in Nat /\ FirstIn(s, Stop) - 1 <= Len(s)
      /\ FirstIn(s, Stop) + 1 \in Nat /\ FirstIn(s, Stop) + 1 >= 1
  BY <1>1, <1>3
<1>5. Before(s, Stop) \in Seq(S)
  BY <1>2, <1>4 DEF Before
<1>6. After(s, Stop) \in Seq(S)
  BY <1>1, <1>2, <1>4 DEF After
<1>7. SkipBlanks(s) \in Seq(S)
  <2> DEFINE Other == {x : x \in S \ Blank}
             k == Min({i \in DOMAIN s : s[i] \notin Blank} \cup {Len(s) + 1})
  <2>1. {i \in DOMAIN s : s[i] \notin Blank} = {i \in DOMAIN s : s[i] \in Other}
    BY LenProperties
  <2>2. k \in 1 .. Len(s) + 1
    <3> HIDE DEF Other
    <3> QED BY <2>1, PlaceToStop
  <2> HIDE DEF k
  <2>3. k \in Nat /\ k >= 1
    BY <1>1, <2>2
  <2>4. SubSeq(s, k, Len(s)) \in Seq(S)
    BY <1>1, <1>2, <2>3
  <2> QED BY <2>4 DEF SkipBlanks, k
<1>8. LeadingDigits(s) \in Seq(S)
  <2> DEFINE Other == {x : x \in S \ ToSet(Digit)}
             k == Min({i \in DOMAIN s : s[i] \notin ToSet(Digit)} \cup {Len(s) + 1})
  <2>1. {i \in DOMAIN s : s[i] \notin ToSet(Digit)} = {i \in DOMAIN s : s[i] \in Other}
    BY LenProperties
  <2>2. k \in 1 .. Len(s) + 1
    <3> HIDE DEF Other
    <3> QED BY <2>1, PlaceToStop
  <2> HIDE DEF k
  <2>3. k - 1 \in Nat /\ k - 1 <= Len(s)
    BY <1>1, <2>2
  <2>4. SubSeq(s, 1, k - 1) \in Seq(S)
    BY <1>1, <1>2, <1>4, <2>3
  <2> QED BY <2>4 DEF LeadingDigits, k
<1> QED BY <1>5, <1>6, <1>7, <1>8

(* atoi of any text is a number.                                           *)
LEMMA AtoiIsNat ==
  ASSUME NEW s \in Text
  PROVE  Atoi(s) \in Nat
<1> DEFINE t == SkipBlanks(s)
           T == {i \in DOMAIN t : t[i] \notin ToSet(Digit)} \cup {Len(t) + 1}
           k == Min(T)
<1>1. t \in Text
  BY PiecesAreTexts DEF Text
<1> HIDE DEF t
<1>2. Len(t) \in Nat /\ DOMAIN t = 1 .. Len(t)
  BY <1>1, LenProperties DEF Text
<1>3. k \in T /\ \A i \in T : k <= i
  <2>1. T \in SUBSET Nat /\ T # {}
    BY <1>2
  <2> HIDE DEF T
  <2> QED BY <2>1, LeastOf
<1>4. T \subseteq 1 .. Len(t) + 1
  BY <1>2
<1>5. k \in Nat /\ k >= 1 /\ k <= Len(t) + 1
  <2> HIDE DEF T, k
  <2> QED BY <1>2, <1>3, <1>4
<1>6. \A i \in 1 .. k - 1 : t[i] \in DigitToken
  <2> HIDE DEF k
  <2>1. \A i \in 1 .. k - 1 : i \in DOMAIN t /\ ~ (k <= i)
    BY <1>2, <1>5
  <2>2. \A i \in DOMAIN t : t[i] \notin ToSet(Digit) => i \in T
    OBVIOUS
  <2> QED BY <1>3, <2>1, <2>2 DEF DigitToken
<1>7. LeadingDigits(t) = SubSeq(t, 1, k - 1)
  BY DEF LeadingDigits
<1>8. SubSeq(t, 1, k - 1) \in Seq(DigitToken)
  <2> HIDE DEF k
  <2> QED BY <1>5, <1>6, SubSeqProperties
<1>9. Atoi(s) = Number[LeadingDigits(t)]
  BY DEF Atoi, t
<1> QED BY <1>7, <1>8, <1>9, NumberDef

(* A text ends where it is stopped for the first time ...                  *)
LEMMA CutAt ==
  ASSUME NEW S, NEW a \in Seq(S), NEW b \in Seq(S), NEW c \in S,
         NEW Stop, c \in Stop, \A i \in 1 .. Len(a) : a[i] \notin Stop
  PROVE  Before(a \o Cons(c, b), Stop) = a /\ After(a \o Cons(c, b), Stop) = b
<1> DEFINE s == a \o Cons(c, b)
           T == {i \in DOMAIN s : s[i] \in Stop} \cup {Len(s) + 1}
           k == Len(a) + 1
<1>1. Cons(c, b) \in Seq(S) /\ Len(Cons(c, b)) = Len(b) + 1 /\ Cons(c, b)[1] = c
  BY DEF Cons
<1>2. Len(a) \in Nat /\ Len(b) \in Nat
  BY LenProperties
<1>3. s \in Seq(S) /\ Len(s) = Len(a) + (Len(b) + 1) /\ DOMAIN s = 1 .. Len(s)
  <2> DEFINE r == Cons(c, b)
  <2>1. r \in Seq(S) /\ Len(r) = Len(b) + 1
    BY <1>1
  <2> HIDE DEF r
  <2>2. a \o r \in Seq(S) /\ Len(a \o r) = Len(a) + (Len(b) + 1)
    BY <2>1, ConcatProperties
  <2>3. DOMAIN (a \o r) = 1 .. Len(a \o r)
    BY <2>2, LenProperties
  <2> QED BY <2>2, <2>3 DEF r
<1>4. \A i \in 1 .. Len(a) : s[i] = a[i]
  BY <1>1, <1>2, ConcatProperties
<1>5. s[k] = c
  BY <1>1, <1>2, ConcatProperties
<1> HIDE DEF s
<1>6. k \in T
  BY <1>2, <1>3, <1>5
<1>7. \A i \in T : i \in Int /\ k <= i
  BY <1>2, <1>3, <1>4
<1>8. FirstIn(s, Stop) = k
  <2>1. Min(T) = k
    <3> HIDE DEF T, k
    <3> QED BY <1>6, <1>7, LeastIs
  <2> QED BY <2>1 DEF FirstIn
<1>9. Before(s, Stop) = a
  <2>1. SubSeq(s, 1, Len(a)) = a
    BY <1>2, <1>3, <1>4
  <2>2. k - 1 = Len(a)
    BY <1>2
  <2> QED BY <1>8, <2>1, <2>2 DEF Before
<1>10. After(s, Stop) = b
  <2>1. k + 1 = Len(a) + 2
    BY <1>2
  <2>2. SubSeq(s, Len(a) + 2, Len(s)) = b
    BY <1>2, <1>3 DEF s, Cons
  <2> QED BY <1>8, <2>1, <2>2 DEF After
<1> QED BY <1>9, <1>10 DEF s

(* ... and is left whole if it never is.                                   *)
LEMMA NeverCut ==
  ASSUME NEW S, NEW a \in Seq(S), NEW Stop, \A i \in 1 .. Len(a) : a[i] \notin Stop
  PROVE  Before(a, Stop) = a
<1> DEFINE T == {i \in DOMAIN a : a[i] \in Stop} \cup {Len(a) + 1}
           k == Len(a) + 1
<1>1. Len(a) \in Nat /\ DOMAIN a = 1 .. Len(a)
  BY LenProperties
<1>2. T = {k} /\ k \in Int
  BY <1>1
<1>3. Min(T) = k
  <2> HIDE DEF T, k
  <2> QED BY <1>2, LeastIs
<1>4. SubSeq(a, 1, Len(a)) = a /\ k - 1 = Len(a)
  BY <1>1
<1> QED BY <1>3, <1>4 DEF Before, FirstIn

LEMMA OneBefore ==
  ASSUME NEW S, NEW s \in Seq(S), NEW c \in S
  PROVE  /\ Cons(c, s) \in Seq(S)
         /\ Len(Cons(c, s)) = Len(s) + 1
         /\ Cons(c, s)[1] = c
         /\ \A i \in 1 .. Len(s) : Cons(c, s)[i + 1] = s[i]
<1>1. Len(s) \in Nat
  BY LenProperties
<1> QED BY <1>1 DEF Cons

(* The blank after a separator is skipped.                                 *)
LEMMA BlankSkipped ==
  ASSUME NEW S, NEW s \in Seq(S), s # <<>>, s[1] \notin Blank, NEW b \in S, b \in Blank
  PROVE  SkipBlanks(Cons(b, s)) = s
<1> DEFINE t == Cons(b, s)
           T == {i \in DOMAIN t : t[i] \notin Blank} \cup {Len(t) + 1}
<1>1. Len(s) \in Nat /\ Len(s) >= 1
  BY EmptySeq
<1>2. /\ t \in Seq(S) /\ Len(t) = Len(s) + 1
      /\ t[1] = b /\ \A i \in 1 .. Len(s) : t[i + 1] = s[i]
  BY OneBefore
<1>3. DOMAIN t = 1 .. Len(t)
  BY <1>2, LenProperties
<1> HIDE DEF t
<1>4. SubSeq(t, 2, Len(t)) = s
  <2>1. ASSUME NEW x \in Seq(S), NEW y \in Seq(S), Len(y) = Len(x) + 1, \A i \in 1 .. Len(x) : y[i + 1] = x[i]
        PROVE  SubSeq(y, 2, Len(y)) = x
    BY <2>1
  <2> QED BY <1>2, <2>1
<1>5. 2 \in T
  <2>1. 2 \in DOMAIN t
    BY <1>1, <1>2, <1>3
  <2>2. t[2] = s[1]
    <3>1. 1 \in 1 .. Len(s) /\ 1 + 1 = 2
      BY <1>1
    <3> QED BY <1>2, <3>1
  <2> QED BY <2>1, <2>2
<1>6. ASSUME NEW i \in T
      PROVE  i \in Int /\ 2 <= i
  <2>1. t[1] \in Blank
    BY <1>2
  <2>2. i \in 1 .. Len(t) + 1 /\ i # 1
    BY <1>1, <1>2, <1>3, <2>1
  <2> QED BY <1>1, <1>2, <2>2
<1>7. Min(T) = 2
  <2>1. T \in SUBSET Int
    BY <1>6
  <2> HIDE DEF T
  <2> QED BY <1>5, <1>6, <2>1, LeastIs
<1> QED BY <1>4, <1>7 DEF SkipBlanks, t

(* What has a name: neither empty nor with a blank before it, nor an end   *)
(* of line in it.                                                          *)
Plain(s) == s # <<>> /\ s[1] \notin Blank /\ \A i \in 1 .. Len(s) : s[i] # CRLF

LEMMA EndCut ==
  ASSUME NEW S, CRLF \in S, NEW v \in Seq(S), Plain(v)
  PROVE  /\ Before(v, {CRLF}) = v
         /\ v \o <<CRLF>> \in Seq(S) /\ v \o <<CRLF>> # <<>> /\ (v \o <<CRLF>>)[1] = v[1]
         /\ Before(v \o <<CRLF>>, {CRLF}) = v
<1> DEFINE c == CRLF
<1>1. c \in S /\ \A i \in 1 .. Len(v) : v[i] \notin {c}
  BY DEF Plain
<1>2. v # <<>>
  BY DEF Plain
<1> HIDE DEF c
<1>3. Before(v, {c}) = v
  BY <1>1, NeverCut
<1>4. Before(v \o Cons(c, <<>>), {c}) = v
  <2> DEFINE none == <<>>
             Stop == {c}
  <2>1. none \in Seq(S)
    BY EmptySeq
  <2>2. c \in Stop /\ c \in S /\ \A i \in 1 .. Len(v) : v[i] \notin Stop
    BY <1>1
  <2> HIDE DEF none, Stop
  <2>3. Before(v \o Cons(c, none), Stop) = v
    BY <2>1, <2>2, CutAt
  <2> QED BY <2>3 DEF none, Stop
<1>5. Cons(c, <<>>) = <<c>> /\ <<c>> \in Seq(S) /\ Len(<<c>>) = 1
  BY <1>1, ConcatEmptySeq DEF Cons
<1>6. Len(v) \in Nat \ {0}
  BY <1>2, EmptySeq
<1>7. v \o <<c>> \in Seq(S) /\ Len(v \o <<c>>) = Len(v) + 1 /\ (v \o <<c>>)[1] = v[1]
  BY <1>1, <1>6
<1>8. v \o <<c>> # <<>>
  BY <1>6, <1>7, EmptySeq
<1> QED BY <1>3, <1>4, <1>5, <1>7, <1>8 DEF c

(* splitNameAndValue at the first separator.                               *)
LEMMA SplitAt ==
  ASSUME NEW S, NEW a \in Seq(S), a # <<>>, a[1] \notin Blank,
         NEW stop \in S, \A i \in 1 .. Len(a) : a[i] # stop, NEW b \in Seq(S)
  PROVE  /\ Name(a \o Cons(stop, b), stop) = Lower(a)
         /\ Value(a \o Cons(stop, b), stop) = Before(SkipBlanks(b), {CRLF})
<1> DEFINE s == a \o Cons(stop, b)
<1>1. s \in Seq(S) /\ s # <<>> /\ s[1] = a[1]
  <2>1. Len(a) \in Nat \ {0}
    BY EmptySeq
  <2>2. Cons(stop, b) \in Seq(S)
    BY OneBefore
  <2> DEFINE r == Cons(stop, b)
  <2> HIDE DEF r
  <2>3. r \in Seq(S)
    BY <2>2 DEF r
  <2>4. Len(r) \in Nat
    BY <2>3, LenProperties
  <2>5. a \o r \in Seq(S) /\ Len(a \o r) = Len(a) + Len(r) /\ (a \o r)[1] = a[1]
    BY <2>1, <2>3, <2>4
  <2>6. a \o r # <<>>
    BY <2>1, <2>4, <2>5, EmptySeq
  <2> QED BY <2>5, <2>6 DEF r
<1>2. SkipBlanks(s) = s
  <2> HIDE DEF s
  <2> QED BY <1>1, NothingSkipped
<1>3. Before(s, {stop}) = a /\ After(s, {stop}) = b
  <2>1. stop \in {stop} /\ \A i \in 1 .. Len(a) : a[i] \notin {stop}
    OBVIOUS
  <2> QED BY <2>1, CutAt
<1> HIDE DEF s
<1> QED BY <1>2, <1>3 DEF Name, Value, s

(* ... where the value begins after a blank, or at once.                   *)
LEMMA SplitAtBlank ==
  ASSUME NEW S, CRLF \in S, NEW a \in Seq(S), a # <<>>, a[1] \notin Blank,
         NEW stop \in S, \A i \in 1 .. Len(a) : a[i] # stop,
         NEW b \in S, b \in Blank, NEW v \in Seq(S), Plain(v)
  PROVE  LET s == a \o Cons(stop, Cons(b, v))
             line == a \o Cons(stop, Cons(b, v \o <<CRLF>>))
         IN /\ Name(s, stop) = Lower(a) /\ Value(s, stop) = v
            /\ Name(line, stop) = Lower(a) /\ Value(line, stop) = v
<1>1. /\ v \o <<CRLF>> \in Seq(S) /\ v \o <<CRLF>> # <<>> /\ (v \o <<CRLF>>)[1] = v[1]
      /\ Before(v, {CRLF}) = v /\ Before(v \o <<CRLF>>, {CRLF}) = v
  BY EndCut
<1>2. v # <<>> /\ v[1] \notin Blank
  BY DEF Plain
<1>3. ASSUME NEW w \in Seq(S), w # <<>>, w[1] \notin Blank, Before(w, {CRLF}) = v
      PROVE  LET s == a \o Cons(stop, Cons(b, w))
             IN Name(s, stop) = Lower(a) /\ Value(s, stop) = v
  <2>1. SkipBlanks(Cons(b, w)) = w
    BY <1>3, BlankSkipped
  <2>2. Cons(b, w) \in Seq(S)
    BY OneBefore
  <2> DEFINE r == Cons(b, w)
  <2>3. r \in Seq(S) /\ SkipBlanks(r) = w
    BY <2>1, <2>2
  <2> HIDE DEF r
  <2>4. /\ Name(a \o Cons(stop, r), stop) = Lower(a)
        /\ Value(a \o Cons(stop, r), stop) = Before(SkipBlanks(r), {CRLF})
    BY <2>3, SplitAt
  <2> QED BY <1>3, <2>3, <2>4 DEF r
<1> DEFINE w == v \o <<CRLF>>
<1>4. w \in Seq(S) /\ w # <<>> /\ w[1] \notin Blank /\ Before(w, {CRLF}) = v
  BY <1>1, <1>2
<1> HIDE DEF w
<1>5. LET line == a \o Cons(stop, Cons(b, w))
      IN Name(line, stop) = Lower(a) /\ Value(line, stop) = v
  BY <1>3, <1>4
<1>6. LET s == a \o Cons(stop, Cons(b, v))
      IN Name(s, stop) = Lower(a) /\ Value(s, stop) = v
  BY <1>1, <1>2, <1>3
<1> QED BY <1>5, <1>6 DEF w

LEMMA SplitAtOnce ==
  ASSUME NEW S, CRLF \in S, NEW a \in Seq(S), a # <<>>, a[1] \notin Blank,
         NEW stop \in S, \A i \in 1 .. Len(a) : a[i] # stop,
         NEW v \in Seq(S), Plain(v)
  PROVE  LET s == a \o Cons(stop, v) IN Name(s, stop) = Lower(a) /\ Value(s, stop) = v
<1>1. SkipBlanks(v) = v
  BY NothingSkipped DEF Plain
<1>2. Before(v, {CRLF}) = v
  BY EndCut
<1>3. /\ Name(a \o Cons(stop, v), stop) = Lower(a)
      /\ Value(a \o Cons(stop, v), stop) = Before(SkipBlanks(v), {CRLF})
  BY SplitAt
<1> QED BY <1>1, <1>2, <1>3

------------------------------------------------------------------------------
(* Texts of known tokens.                                                  *)

Blank1 == " "
Semicolon == ";"

(* What may be within a line, and what may stand at the beginning of one.  *)
Inner == Token \ {CRLF}
Opening == Inner \ Blank

LEMMA DigitsOpen ==
  /\ DigitToken \subseteq Opening
  /\ Semicolon \notin DigitToken /\ "=" \notin DigitToken /\ ":" \notin DigitToken
<1>1. \A i \in 1 .. 10 : Digit[i] \in {"0", "1", "2", "3", "4", "5", "6", "7", "8", "9"}
  BY DEF Digit
<1>2. DigitToken = {Digit[i] : i \in 1 .. 10}
  BY DEF DigitToken, ToSet, Digit
<1>3. \A c \in {"0", "1", "2", "3", "4", "5", "6", "7", "8", "9"} :
        c # " " /\ c # "CRLF" /\ c # ";" /\ c # "=" /\ c # ":"
  BY Zenon
<1>4. \A c \in DigitToken : c # " " /\ c # "CRLF" /\ c # ";" /\ c # "=" /\ c # ":"
  BY <1>1, <1>2, <1>3, Zenon
<1>5. DigitToken \subseteq Opening
  BY <1>4, Zenon DEF Opening, Inner, Token, Blank, CRLF
<1> QED BY <1>4, <1>5, Zenon DEF Semicolon

LEMMA WordsInner ==
  /\ Blank1 \in Inner /\ Blank1 \in Blank /\ Blank1 # ":" /\ Blank1 # "=" /\ Blank1 # Semicolon
  /\ Semicolon \in Opening /\ ":" \in Opening /\ "=" \in Opening
  /\ Semicolon # "=" /\ Semicolon # ":"
  /\ CRLF \in Token /\ CRLF \in Blank /\ CRLF # ":"
BY Zenon DEF Blank1, Semicolon, Inner, Opening, Token, Word, Blank, CRLF

OpeningWord ==
  {"CSeq", "Cseq", "Session", "Transport", "Range", "If-Modified-Since", "User-Agent",
   "Server", "Last-Modified", "Content-Type", "RTP/UDP", "RTP/TCP", "rtp/udp", "rtp/tcp",
   "Compression", "compression", "client_port", "server_port", "mode", "PLAY", "npt",
   "Networks", "client", "server", "text/plain", "yesterday", "uninitialised",
   "rfc1123", "rfc850", "asctime", "-"}

LEMMA WordsOpen ==
  \A w \in OpeningWord : w \in Opening /\ w # ":" /\ w # "=" /\ w # Semicolon
<1>1. \A w \in OpeningWord : w # " "
  BY Zenon DEF OpeningWord
<1>2. \A w \in OpeningWord : w # "CRLF"
  BY Zenon DEF OpeningWord
<1>3. \A w \in OpeningWord : w # ":"
  BY Zenon DEF OpeningWord
<1>4. \A w \in OpeningWord : w # "="
  BY Zenon DEF OpeningWord
<1>5. \A w \in OpeningWord : w # ";"
  BY Zenon DEF OpeningWord
<1>6. \A w \in OpeningWord : w \in Word
  BY ZenonT(60) DEF OpeningWord, Word
<1> QED BY <1>1, <1>2, <1>3, <1>4, <1>5, <1>6, Zenon DEF Semicolon, Inner, Opening, Token, Blank, CRLF

(* Such texts are plain.                                                   *)
LEMMA PlainText ==
  ASSUME NEW x \in Opening, NEW s \in Seq(Inner)
  PROVE  /\ Cons(x, s) \in Seq(Inner) /\ Cons(x, s) \in Text
         /\ Cons(x, s) # <<>> /\ Cons(x, s)[1] = x
         /\ Plain(Cons(x, s))
<1>1. x \in Inner /\ x \notin Blank /\ Inner \subseteq Token
  BY DEF Opening, Inner
<1> DEFINE t == Cons(x, s)
<1>2. t \in Seq(Inner) /\ Len(t) = Len(s) + 1 /\ t[1] = x
  BY <1>1, OneBefore
<1> HIDE DEF t
<1>3. Len(s) \in Nat
  BY LenProperties
<1>4. t # <<>>
  BY <1>2, <1>3, EmptySeq
<1>5. \A i \in 1 .. Len(t) : t[i] # CRLF
  <2>1. \A i \in 1 .. Len(t) : t[i] \in Inner
    BY <1>2, ElementOfSeq
  <2> QED BY <2>1 DEF Inner
<1>6. t \in Text
  BY <1>1, <1>2, SeqMonotonic DEF Text
<1> QED BY <1>1, <1>2, <1>4, <1>5, <1>6 DEF Plain, t

LEMMA PlainWord ==
  ASSUME NEW x \in Opening
  PROVE  /\ <<x>> \in Seq(Inner) /\ <<x>> \in Text /\ <<x>> # <<>> /\ <<x>>[1] = x
         /\ Len(<<x>>) = 1 /\ Plain(<<x>>)
<1> DEFINE none == <<>>
<1>1. x \in Inner
  BY DEF Opening
<1>2. none \in Seq(Inner)
  BY EmptySeq
<1>3. Cons(x, none) = <<x>>
  BY <1>1, ConcatEmptySeq DEF Cons
<1> HIDE DEF none
<1>4. <<x>>[1] = x /\ Len(<<x>>) = 1
  OBVIOUS
<1> QED BY <1>2, <1>3, <1>4, PlainText

(* Texts token by token.                                                   *)
LEMMA OneAndOne ==
  ASSUME NEW a, NEW b
  PROVE  <<a, b>> = Cons(a, <<b>>)
<1> DEFINE S == {a, b}
           x == <<a, b>>
           y == Cons(a, <<b>>)
<1>1. x \in Seq(S) /\ Len(x) = 2 /\ x[1] = a /\ x[2] = b
  OBVIOUS
<1>2. y \in Seq(S) /\ Len(y) = 2 /\ y[1] = a /\ y[2] = b
  BY DEF Cons
<1> HIDE DEF S, x, y
<1>3. \A i \in 1 .. Len(x) : x[i] = y[i]
  BY <1>1, <1>2
<1>4. x = y
  BY <1>1, <1>2, <1>3, SeqEqual
<1> QED BY <1>4 DEF x, y

LEMMA TwoTokens ==
  ASSUME NEW S, NEW a \in S, NEW b \in S, NEW s \in Seq(S)
  PROVE  <<a, b>> \o s = Cons(a, Cons(b, s))
<1>1. <<a>> \in Seq(S) /\ <<b>> \in Seq(S)
  OBVIOUS
<1>2. <<a, b>> = Cons(a, <<b>>)
  BY OneAndOne
<1> QED BY <1>1, <1>2, ConcatAssociative DEF Cons

LEMMA ThreeTokens ==
  ASSUME NEW S, NEW a \in S, NEW b \in S, NEW c \in S,
         NEW s \in Seq(S)
  PROVE  <<a, b, c>> \o s = Cons(a, Cons(b, Cons(c, s)))
<1> DEFINE t1 == <<c>>
           t2 == <<b, c>>
           t3 == <<a, b, c>>
<1>1. t1 \in Seq(S) /\ t2 \in Seq(S)
  OBVIOUS
<1>2. t1 \o s = Cons(c, s)
  BY DEF Cons
<1>3. t2 = Cons(b, t1)
  BY OneAndOne
<1>4. t3 = Cons(a, t2)
  BY DEF Cons
<1>5. ASSUME NEW x \in S, NEW t \in Seq(S)
      PROVE  Cons(x, t) \o s = Cons(x, t \o s)
  <2>1. <<x>> \in Seq(S)
    OBVIOUS
  <2> QED BY <2>1, ConcatAssociative DEF Cons
<1> HIDE DEF t1, t2, t3
<1>6. t2 \o s = Cons(b, t1 \o s)
  BY <1>1, <1>3, <1>5
<1>7. t3 \o s = Cons(a, t2 \o s)
  BY <1>1, <1>4, <1>5
<1>8. t3 \o s = Cons(a, Cons(b, Cons(c, s)))
  BY <1>2, <1>6, <1>7
<1> QED BY <1>8 DEF t3

(* A text before another goes token by token.                              *)
LEMMA TokenByToken ==
  ASSUME NEW S, NEW t \in Seq(S), NEW s \in Seq(S)
  PROVE  /\ Len(t) = 4 => t \o s = Cons(t[1], Cons(t[2], Cons(t[3], Cons(t[4], s))))
         /\ Len(t) = 8 => t \o s = Cons(t[1], Cons(t[2], Cons(t[3], Cons(t[4],
                            Cons(t[5], Cons(t[6], Cons(t[7], Cons(t[8], s))))))))
<1> DEFINE n == Len(t)
           from(k) == SubSeq(t, k, n) \o s
<1>1. n \in Nat
  BY LenProperties
<1>2. ASSUME NEW k \in 1 .. n
      PROVE  from(k) = Cons(t[k], from(k + 1))
  <2> DEFINE u == SubSeq(t, k, n)
             v == SubSeq(t, k + 1, n)
  <2>1. u \in Seq(S) /\ v \in Seq(S) /\ <<t[k]>> \in Seq(S)
    <3>1. \A i \in 1 .. n : t[i] \in S
      BY ElementOfSeq
    <3>2. ASSUME NEW m \in 1 .. n + 1
          PROVE  SubSeq(t, m, n) \in Seq(S)
      <4>1. \A i \in m .. n : t[i] \in S
        BY <3>1
      <4> QED BY <4>1, SubSeqProperties
    <3> QED BY <3>1, <3>2
  <2>2. u = <<t[k]>> \o v
    <3> DEFINE w == <<t[k]>> \o v
    <3>1. /\ w \in Seq(S) /\ Len(w) = Len(v) + 1 /\ w[1] = t[k]
          /\ \A i \in 1 .. Len(v) : w[i + 1] = v[i]
      <4> HIDE DEF v
      <4> QED BY <2>1
    <3>2. Len(u) = n - k + 1 /\ Len(v) = n - k
      OBVIOUS
    <3>3. /\ \A i \in 1 .. n - k + 1 : u[i] = t[k + i - 1]
          /\ \A i \in 1 .. n - k : v[i] = t[k + i]
      OBVIOUS
    <3> HIDE DEF u, v, w
    <3>4. ASSUME NEW i \in 1 .. Len(u)
          PROVE  u[i] = w[i]
      <4>1. CASE i = 1
        <5>1. 1 \in 1 .. n - k + 1 /\ k + 1 - 1 = k
          BY <1>1
        <5> QED BY <3>1, <3>3, <4>1, <5>1
      <4>2. CASE i # 1
        <5> DEFINE j == i - 1
        <5>1. j \in 1 .. n - k /\ i = j + 1 /\ k + i - 1 = k + j
          BY <3>2, <4>2
        <5> HIDE DEF j
        <5> QED BY <3>1, <3>2, <3>3, <5>1
      <4> QED BY <4>1, <4>2
    <3>5. u = w
      BY <2>1, <3>1, <3>2, <3>4, SeqEqual
    <3> QED BY <3>5 DEF w
  <2> HIDE DEF u, v
  <2>3. u \o s = <<t[k]>> \o (v \o s)
    BY <2>1, <2>2, ConcatAssociative
  <2> QED BY <2>3 DEF u, v, Cons
<1>3. from(1) = t \o s
  <2>1. SubSeq(t, 1, n) = t
    OBVIOUS
  <2> QED BY <2>1
<1>4. from(n + 1) = s
  <2>1. SubSeq(t, n + 1, n) = <<>>
    OBVIOUS
  <2> QED BY <2>1, ConcatEmptySeq
<1> HIDE DEF n, from
<1>5. ASSUME n = 4
      PROVE  t \o s = Cons(t[1], Cons(t[2], Cons(t[3], Cons(t[4], s))))
  BY <1>2, <1>3, <1>4, <1>5
<1>6. ASSUME n = 8
      PROVE  t \o s = Cons(t[1], Cons(t[2], Cons(t[3], Cons(t[4],
                         Cons(t[5], Cons(t[6], Cons(t[7], Cons(t[8], s))))))))
  <2>1. from(5) = Cons(t[5], Cons(t[6], Cons(t[7], Cons(t[8], s))))
    BY <1>2, <1>4, <1>6
  <2>2. from(1) = Cons(t[1], Cons(t[2], Cons(t[3], Cons(t[4], from(5)))))
    BY <1>2, <1>6
  <2> QED BY <1>3, <2>1, <2>2
<1> QED BY <1>5, <1>6 DEF n

LEMMA EightTokens ==
  ASSUME NEW S, NEW t \in Seq(S), Len(t) = 8, NEW s \in Seq(S)
  PROVE  t \o s = Cons(t[1], Cons(t[2], Cons(t[3], Cons(t[4],
                     Cons(t[5], Cons(t[6], Cons(t[7], Cons(t[8], s))))))))
BY TokenByToken, ZenonT(30)

LEMMA FourTokens ==
  ASSUME NEW S, NEW t \in Seq(S), Len(t) = 4, NEW s \in Seq(S)
  PROVE  t \o s = Cons(t[1], Cons(t[2], Cons(t[3], Cons(t[4], s))))
BY TokenByToken, ZenonT(30)

------------------------------------------------------------------------------
(* Header lines.                                                           *)

(* What is written into a line is read from it.                            *)
LEMMA LineIsSplit ==
  ASSUME NEW n \in Opening, n # ":", NEW v \in Text, Plain(v)
  PROVE  Split(Line(n, v), ":") = [name |-> <<LowerWord(n)>>, value |-> v]
<1> DEFINE colon == ":"
           w == v \o <<CRLF>>
<1>1. Line(n, v) = <<n, colon, Blank1>> \o v \o <<CRLF>>
  BY Zenon DEF Line, Blank1
<1>2. /\ n \in Token /\ colon \in Token /\ Blank1 \in Token /\ CRLF \in Token
      /\ Blank1 \in Blank /\ n # colon
  BY WordsInner DEF Opening, Inner
<1>3. /\ <<n>> \in Text /\ <<n>> # <<>> /\ <<n>>[1] \notin Blank
      /\ \A i \in 1 .. Len(<<n>>) : <<n>>[i] # colon
  <2>1. <<n>> \in Text /\ <<n>> # <<>> /\ <<n>>[1] = n /\ Len(<<n>>) = 1
    BY PlainWord
  <2> QED BY <1>2, <2>1 DEF Opening
<1> HIDE DEF colon
<1>4. w \in Text
  BY <1>2, EndCut DEF Text
<1>5. Line(n, v) = <<n, colon, Blank1>> \o w
  <2>1. <<n, colon, Blank1>> \in Text
    BY <1>2 DEF Text
  <2>2. <<CRLF>> \in Text
    BY <1>2 DEF Text
  <2> QED BY <1>1, <2>1, <2>2, ConcatAssociative DEF Text
<1>6. Line(n, v) = Cons(n, Cons(colon, Cons(Blank1, w)))
  <2> HIDE DEF w
  <2>1. w \in Seq(Token)
    BY <1>4 DEF Text
  <2> QED BY <1>2, <1>5, <2>1, ThreeTokens
<1>7. Name(Line(n, v), colon) = Lower(<<n>>) /\ Value(Line(n, v), colon) = v
  <2> DEFINE a == <<n>>
  <2>1. /\ a \in Seq(Token) /\ a # <<>> /\ a[1] \notin Blank
        /\ \A i \in 1 .. Len(a) : a[i] # colon
    BY <1>3 DEF Text
  <2> HIDE DEF a
  <2>2. v \in Seq(Token)
    BY DEF Text
  <2>3. LET line == a \o Cons(colon, Cons(Blank1, v \o <<CRLF>>))
        IN Name(line, colon) = Lower(a) /\ Value(line, colon) = v
    BY <1>2, <2>1, <2>2, SplitAtBlank
  <2>4. a \o Cons(colon, Cons(Blank1, w)) = Cons(n, Cons(colon, Cons(Blank1, w)))
    BY DEF a, Cons
  <2> QED BY <1>6, <2>3, <2>4 DEF a
<1>8. Lower(<<n>>) = <<LowerWord(n)>>
  BY DEF Lower
<1> QED BY <1>7, <1>8 DEF Split, colon

------------------------------------------------------------------------------
(* Transport lines.                                                        *)

(* The k-th part of a text is the name of what is left after k - 1 splits. *)
LEMMA Parts ==
  ASSUME NEW s, NEW stop
  PROVE  LET s1 == Value(s, stop)
             s2 == Value(s1, stop)
             s3 == Value(s2, stop)
         IN /\ Part(s, stop, 1) = Name(s, stop) /\ Part(s, stop, 2) = Name(s1, stop)
            /\ Part(s, stop, 3) = Name(s2, stop) /\ Part(s, stop, 4) = Name(s3, stop)
<1> DEFINE s1 == Value(s, stop)
           s2 == Value(s1, stop)
           s3 == Value(s2, stop)
           s4 == Value(s3, stop)
           left == <<s, s1, s2, s3, s4>>
<1>1. ASSUME NEW k \in 1 .. 4
      PROVE  Part(s, stop, k) = Name(left[k], stop)
  <2> DEFINE Step(f) == [i \in 0 .. k |-> IF i = 0 THEN s ELSE Value(f[i - 1], stop)]
             rest == CHOOSE f : f = Step(f)
             g == [i \in 0 .. k |-> left[i + 1]]
  <2>1. Part(s, stop, k) = Name(rest[k - 1], stop)
    BY DEF Part
  <2>2. g = Step(g)
    OBVIOUS
  <2>3. rest = Step(rest)
    <3> HIDE DEF g, Step
    <3> QED BY <2>2
  <2> HIDE DEF rest
  <2>4. rest[0] = s
    BY <2>3
  <2>5. \A i \in 1 .. k : rest[i] = Value(rest[i - 1], stop)
    BY <2>3
  <2>6. rest[k - 1] = left[k]
    BY <2>4, <2>5
  <2> QED BY <2>1, <2>6
<1>2. left[1] = s /\ left[2] = s1 /\ left[3] = s2 /\ left[4] = s3
  OBVIOUS
<1> HIDE DEF s1, s2, s3, s4, left
<1>3. /\ Part(s, stop, 1) = Name(s, stop) /\ Part(s, stop, 2) = Name(s1, stop)
      /\ Part(s, stop, 3) = Name(s2, stop) /\ Part(s, stop, 4) = Name(s3, stop)
  BY <1>1, <1>2
<1> QED BY <1>3 DEF s1, s2, s3

(* What tolower makes of the tokens.                                       *)
Capital ==
  {"CSeq", "Cseq", "Session", "Transport", "Range", "If-Modified-Since", "RTP/UDP", "RTP/TCP",
   "Compression"}

LEMMA SmallStays == \A w : w \notin Capital => LowerWord(w) = w
BY Zenon DEF Capital, LowerWord

LEMMA DigitsStay == \A c \in DigitToken : LowerWord(c) = c
<1>1. \A i \in 1 .. 10 : Digit[i] \in {"0", "1", "2", "3", "4", "5", "6", "7", "8", "9"}
  BY DEF Digit
<1>2. DigitToken = {Digit[i] : i \in 1 .. 10}
  BY DEF DigitToken, ToSet, Digit
<1>3. \A c \in {"0", "1", "2", "3", "4", "5", "6", "7", "8", "9"} : c \notin Capital
  BY ZenonT(60) DEF Capital
<1>4. \A c \in DigitToken : c \notin Capital
  BY <1>1, <1>2, <1>3, Zenon
<1> QED BY <1>4, SmallStays

LEMMA WordsLowered ==
  /\ LowerWord("RTP/UDP") = "rtp/udp" /\ LowerWord("RTP/TCP") = "rtp/tcp"
  /\ LowerWord("Compression") = "compression"
  /\ LowerWord("client_port") = "client_port" /\ LowerWord("server_port") = "server_port"
  /\ LowerWord("=") = "="
<1>1. /\ "client_port" \notin Capital /\ "server_port" \notin Capital /\ "=" \notin Capital
  BY Zenon DEF Capital
<1>2. LowerWord("RTP/UDP") = "rtp/udp"
  BY Zenon DEF LowerWord
<1>3. LowerWord("RTP/TCP") = "rtp/tcp"
  BY Zenon DEF LowerWord
<1>4. LowerWord("Compression") = "compression"
  BY Zenon DEF LowerWord
<1> QED BY <1>1, <1>2, <1>3, <1>4, SmallStays, Zenon

(* A part that a semicolon and a blank end.                                *)
LEMMA PartIsSplit ==
  ASSUME NEW a \in Seq(Inner), Plain(a), \A i \in 1 .. Len(a) : a[i] # Semicolon,
         NEW v \in Seq(Inner), Plain(v)
  PROVE  LET s == a \o Cons(Semicolon, Cons(Blank1, v))
         IN Name(s, Semicolon) = Lower(a) /\ Value(s, Semicolon) = v
<1>1. CRLF \in Token /\ Semicolon \in Token /\ Blank1 \in Token /\ Blank1 \in Blank
  BY WordsInner DEF Inner, Opening
<1>2. Inner \subseteq Token
  BY DEF Inner
<1>3. a \in Seq(Token) /\ v \in Seq(Token)
  BY <1>2, SeqMonotonic
<1>4. a # <<>> /\ a[1] \notin Blank
  BY DEF Plain
<1> QED BY <1>1, <1>3, <1>4, SplitAtBlank

(* "name=number", where it is cut, and the number.                         *)
LEMMA PortIsSplit ==
  ASSUME NEW w \in OpeningWord, NEW n \in Nat
  PROVE  LET a == Cons(w, Cons("=", Decimal[n]))
         IN /\ a \in Seq(Inner) /\ Plain(a) /\ \A i \in 1 .. Len(a) : a[i] # Semicolon
            /\ LowerWord(w) = w => Lower(a) = a
            /\ Atoi(Value(a, "=")) = n
<1> DEFINE equal == "="
           d == Decimal[n]
           tail == Cons(equal, d)
           a == Cons(w, tail)
<1>1. d \in Seq(DigitToken) /\ d # <<>>
  BY DecimalDef, DecimalNotEmpty
<1>2. /\ equal \in Opening /\ equal # Semicolon /\ Semicolon \notin DigitToken
      /\ DigitToken \subseteq Opening /\ Opening \subseteq Inner
      /\ w \in Opening /\ w \in Inner /\ w # equal /\ w # Semicolon
  BY WordsInner, DigitsOpen, WordsOpen DEF Opening
<1>3. LowerWord(equal) = equal
  BY WordsLowered
<1>4. d \in Seq(Opening) /\ d \in Seq(Inner)
  BY <1>1, <1>2, SeqMonotonic
<1> HIDE DEF equal, d
<1>5. /\ tail \in Seq(Inner) /\ Len(tail) = Len(d) + 1
      /\ tail[1] = equal /\ \A i \in 1 .. Len(d) : tail[i + 1] = d[i]
  BY <1>2, <1>4, OneBefore
<1> HIDE DEF tail
<1>6. /\ a \in Seq(Inner) /\ Len(a) = Len(tail) + 1
      /\ a[1] = w /\ \A i \in 1 .. Len(tail) : a[i + 1] = tail[i]
  <2>1. tail \in Seq(Inner) /\ w \in Inner
    BY <1>2, <1>5
  <2>2. a \in Seq(Inner)
    BY <2>1, OneBefore
  <2>3. Len(a) = Len(tail) + 1 /\ a[1] = w
    BY <2>1, OneBefore
  <2>4. \A i \in 1 .. Len(tail) : a[i + 1] = tail[i]
    BY <2>1, OneBefore
  <2> QED BY <2>2, <2>3, <2>4
<1>7. Plain(a)
  BY <1>2, <1>5, PlainText
<1> HIDE DEF a
<1>8. Len(d) \in Nat /\ \A i \in 1 .. Len(d) : d[i] \in DigitToken
  BY <1>1, LenProperties, ElementOfSeq
<1>9. ASSUME NEW i \in 1 .. Len(a)
      PROVE  a[i] = w \/ a[i] = equal \/ a[i] \in DigitToken
  <2>1. CASE i = 1
    BY <1>6, <2>1
  <2>2. CASE i = 2
    <3>1. 1 \in 1 .. Len(tail) /\ i = 1 + 1
      BY <1>5, <1>8, <2>2
    <3> QED BY <1>5, <1>6, <3>1
  <2>3. CASE i > 2
    <3> DEFINE j == i - 2
    <3>1. j \in 1 .. Len(d) /\ j + 1 \in 1 .. Len(tail) /\ i = (j + 1) + 1
      BY <1>5, <1>6, <1>8, <2>3
    <3> HIDE DEF j
    <3>2. a[i] = tail[j + 1] /\ tail[j + 1] = d[j]
      BY <1>5, <1>6, <3>1
    <3> QED BY <1>8, <3>1, <3>2
  <2> QED BY <1>5, <1>6, <1>8, <2>1, <2>2, <2>3
<1>10. \A i \in 1 .. Len(a) : a[i] # Semicolon
  BY <1>2, <1>9
<1>11. ASSUME LowerWord(w) = w
       PROVE  Lower(a) = a
  <2>1. \A i \in 1 .. Len(a) : LowerWord(a[i]) = a[i]
    BY <1>3, <1>9, <1>11, DigitsStay
  <2>2. DOMAIN a = 1 .. Len(a) /\ a = [i \in DOMAIN a |-> a[i]]
    BY <1>6
  <2> QED BY <2>1, <2>2 DEF Lower
<1>12. Value(a, equal) = d
  <2> DEFINE first == <<w>>
  <2>1. /\ first \in Seq(Inner) /\ first # <<>> /\ first[1] = w /\ Len(first) = 1
        /\ first \in Seq(Token)
    BY <1>2, PlainWord DEF Text
  <2>2. first \o tail = a
    BY DEF first, a, Cons
  <2>3. d[1] \in DigitToken /\ d \in Seq(Token) /\ CRLF \in Token /\ equal \in Token
    <3>1. 1 \in 1 .. Len(d)
      BY <1>1, <1>8, EmptySeq
    <3>2. Inner \subseteq Token
      BY DEF Inner
    <3> QED BY <1>2, <1>4, <1>8, <3>1, <3>2, SeqMonotonic, WordsInner
  <2>4. Plain(d)
    BY <1>1, <1>2, <1>8, <2>3, WordsInner DEF Plain, Opening, Inner
  <2> HIDE DEF first
  <2>5. first[1] \notin Blank /\ \A i \in 1 .. Len(first) : first[i] # equal
    BY <1>2, <2>1 DEF Opening
  <2>6. Value(first \o Cons(equal, d), equal) = d
    BY <2>1, <2>3, <2>4, <2>5, SplitAtOnce
  <2> QED BY <2>2, <2>6 DEF tail
<1>13. Atoi(d) = n
  <2> DEFINE none == <<>>
  <2>1. none \in Seq(Token) /\ none = <<>>
    BY EmptySeq
  <2>2. Decimal[n] \o none = Decimal[n]
    BY <1>1, ConcatEmptySeq DEF d
  <2> HIDE DEF none
  <2>3. Atoi(Decimal[n] \o none) = n
    BY <2>1, AtoiOfDecimal
  <2> QED BY <2>2, <2>3 DEF d
<1> QED BY <1>6, <1>7, <1>10, <1>11, <1>12, <1>13 DEF equal, a, tail, d

LEMMA FiveTokens ==
  ASSUME NEW a, NEW b, NEW c, NEW d, NEW e
  PROVE  <<a, b, c, d, e>> = Cons(a, Cons(b, Cons(c, <<d, e>>)))
<1> DEFINE t3 == <<c, d, e>>
           t4 == <<b, c, d, e>>
           t5 == <<a, b, c, d, e>>
<1>1. t3 = Cons(c, <<d, e>>)
  BY DEF Cons
<1>2. t4 = Cons(b, t3)
  BY DEF Cons
<1>3. t5 = Cons(a, t4)
  BY DEF Cons
<1> HIDE DEF t3, t4, t5
<1>4. t5 = Cons(a, Cons(b, Cons(c, <<d, e>>)))
  BY <1>1, <1>2, <1>3
<1> QED BY <1>4 DEF t5

(* "type; method; name=number; rest" and its parts.                        *)
Port(w, n) == Cons(w, Cons("=", Decimal[n]))
Followed(part, rest) == part \o Cons(Semicolon, Cons(Blank1, rest))

LEMMA NextPart ==
  ASSUME NEW a \in Seq(Inner), Plain(a), \A i \in 1 .. Len(a) : a[i] # Semicolon,
         NEW v \in Seq(Inner), Plain(v)
  PROVE  LET s == Followed(a, v)
         IN /\ s \in Seq(Inner) /\ Plain(s)
            /\ Name(s, Semicolon) = Lower(a) /\ Value(s, Semicolon) = v
<1> DEFINE b == Cons(Blank1, v)
           c == Cons(Semicolon, b)
           s == a \o c
<1>1. Blank1 \in Inner /\ Semicolon \in Inner
  BY WordsInner DEF Opening
<1>2. b \in Seq(Inner)
  BY <1>1, OneBefore
<1> HIDE DEF b
<1>3. c \in Seq(Inner)
  BY <1>1, <1>2, OneBefore
<1>4. Name(s, Semicolon) = Lower(a) /\ Value(s, Semicolon) = v
  BY PartIsSplit DEF b
<1> HIDE DEF c
<1>5. s \in Seq(Inner) /\ s[1] = a[1] /\ s # <<>>
  <2>1. a # <<>>
    BY DEF Plain
  <2>2. Len(a) \in Nat \ {0} /\ Len(c) \in Nat
    BY <1>3, <2>1, EmptySeq, LenProperties
  <2>3. a \o c \in Seq(Inner) /\ Len(a \o c) = Len(a) + Len(c) /\ (a \o c)[1] = a[1]
    BY <1>3, <2>2
  <2> QED BY <2>2, <2>3, EmptySeq
<1> HIDE DEF s
<1>6. Plain(s)
  <2>1. \A i \in 1 .. Len(s) : s[i] \in Inner
    BY <1>5, ElementOfSeq
  <2> QED BY <1>5, <2>1 DEF Plain, Inner
<1> QED BY <1>4, <1>5, <1>6 DEF s, c, b, Followed

LEMMA PartsAreRead ==
  ASSUME NEW p \in OpeningWord, NEW q \in OpeningWord, NEW number \in Seq(Inner), Plain(number),
         \A i \in 1 .. Len(number) : number[i] # Semicolon, Lower(number) = number,
         NEW rest \in Seq(Inner), Plain(rest)
  PROVE  LET v == Followed(<<p>>, Followed(<<q>>, Followed(number, rest)))
         IN /\ v \in Text /\ Plain(v)
            /\ Part(v, Semicolon, 1) = <<LowerWord(p)>>
            /\ Part(v, Semicolon, 2) = <<LowerWord(q)>>
            /\ Part(v, Semicolon, 3) = number
            /\ Part(v, Semicolon, 4) = Name(rest, Semicolon)
<1> DEFINE v2 == Followed(number, rest)
           v1 == Followed(<<q>>, v2)
           v0 == Followed(<<p>>, v1)
<1>1. ASSUME NEW w \in OpeningWord
      PROVE  LET a == <<w>>
             IN /\ a \in Seq(Inner) /\ Plain(a) /\ \A i \in 1 .. Len(a) : a[i] # Semicolon
                /\ Lower(a) = <<LowerWord(w)>>
  <2>1. w \in Opening /\ w # Semicolon
    BY WordsOpen
  <2>2. Lower(<<w>>) = <<LowerWord(w)>>
    BY DEF Lower
  <2> QED BY <2>1, <2>2, PlainWord
<1>2. v2 \in Seq(Inner) /\ Plain(v2) /\ Name(v2, Semicolon) = number /\ Value(v2, Semicolon) = rest
  BY NextPart
<1> HIDE DEF v2
<1>3. /\ v1 \in Seq(Inner) /\ Plain(v1)
      /\ Name(v1, Semicolon) = <<LowerWord(q)>> /\ Value(v1, Semicolon) = v2
  <2> DEFINE a == <<q>>
  <2>1. /\ a \in Seq(Inner) /\ Plain(a) /\ \A i \in 1 .. Len(a) : a[i] # Semicolon
        /\ Lower(a) = <<LowerWord(q)>>
    BY <1>1
  <2> HIDE DEF a
  <2>2. LET s == Followed(a, v2)
        IN /\ s \in Seq(Inner) /\ Plain(s)
           /\ Name(s, Semicolon) = Lower(a) /\ Value(s, Semicolon) = v2
    BY <1>2, <2>1, NextPart
  <2> QED BY <2>1, <2>2 DEF a
<1> HIDE DEF v1
<1>4. /\ v0 \in Seq(Inner) /\ Plain(v0)
      /\ Name(v0, Semicolon) = <<LowerWord(p)>> /\ Value(v0, Semicolon) = v1
  <2> DEFINE a == <<p>>
  <2>1. /\ a \in Seq(Inner) /\ Plain(a) /\ \A i \in 1 .. Len(a) : a[i] # Semicolon
        /\ Lower(a) = <<LowerWord(p)>>
    BY <1>1
  <2> HIDE DEF a
  <2>2. LET s == Followed(a, v1)
        IN /\ s \in Seq(Inner) /\ Plain(s)
           /\ Name(s, Semicolon) = Lower(a) /\ Value(s, Semicolon) = v1
    BY <1>3, <2>1, NextPart
  <2> QED BY <2>1, <2>2 DEF a
<1>5. v0 \in Text
  <2>1. Inner \subseteq Token
    BY DEF Inner
  <2> QED BY <1>4, <2>1, SeqMonotonic DEF Text
<1> HIDE DEF v0
<1>6. /\ Part(v0, Semicolon, 1) = <<LowerWord(p)>>
      /\ Part(v0, Semicolon, 2) = <<LowerWord(q)>>
      /\ Part(v0, Semicolon, 3) = number
      /\ Part(v0, Semicolon, 4) = Name(rest, Semicolon)
  BY <1>2, <1>3, <1>4, Parts
<1> QED BY <1>4, <1>5, <1>6 DEF v0, v1, v2

LEMMA DecimalInner == \A n \in Nat : Decimal[n] \in Seq(Inner)
<1>1. DigitToken \subseteq Inner
  BY DigitsOpen DEF Opening
<1> QED BY <1>1, DecimalDef, SeqMonotonic

LEMMA PortFollowed ==
  ASSUME NEW w \in Inner, NEW n \in Nat, NEW u \in Seq(Inner)
  PROVE  Port(w, n) \o u = Cons(w, Cons("=", Decimal[n] \o u))
<1> DEFINE equal == "="
           d == Decimal[n]
           x == d \o u
<1>1. equal \in Inner
  BY WordsInner DEF Opening
<1>2. d \in Seq(Inner)
  BY DecimalInner
<1> HIDE DEF equal, d
<1>3. x \in Seq(Inner)
  BY <1>2, ConcatProperties
<1>4. <<w, equal>> \o d = Cons(w, Cons(equal, d))
  BY <1>1, <1>2, TwoTokens
<1>5. <<w, equal>> \in Seq(Inner)
  BY <1>1
<1>6. (<<w, equal>> \o d) \o u = <<w, equal>> \o x
  BY <1>2, <1>5, ConcatAssociative
<1> HIDE DEF x
<1>7. <<w, equal>> \o x = Cons(w, Cons(equal, x))
  BY <1>1, <1>3, TwoTokens
<1> QED BY <1>4, <1>6, <1>7, Zenon DEF Port, equal, d, x

(* The eight tokens before the number.                                     *)
LEMMA UpToNumber ==
  ASSUME NEW first \in Seq(Inner), Len(first) = 8, first[2] = Semicolon, first[3] = Blank1,
         first[5] = Semicolon, first[6] = Blank1, first[8] = "=", NEW n \in Nat, NEW u \in Seq(Inner)
  PROVE  first \o (Decimal[n] \o u)
           = Followed(<<first[1]>>, Followed(<<first[4]>>, Port(first[7], n) \o u))
<1> DEFINE equal == "="
           d == Decimal[n]
           x == d \o u
           w == first[7]
<1>1. Blank1 \in Inner /\ Semicolon \in Inner /\ equal \in Inner /\ w \in Inner
  <2>1. w \in Inner
    <3>1. 7 \in 1 .. Len(first)
      OBVIOUS
    <3> QED BY <3>1, ElementOfSeq
  <2> QED BY <2>1, WordsInner DEF Opening
<1>2. d \in Seq(Inner)
  BY DecimalInner
<1>3. first[8] = equal /\ first[7] = w
  OBVIOUS
<1>4. Port(w, n) \o u = Cons(w, Cons(equal, x))
  BY <1>1, PortFollowed
<1> HIDE DEF equal, d, w
<1>5. x \in Seq(Inner)
  BY <1>2, ConcatProperties
<1> HIDE DEF x
<1>6. first \o x = Cons(first[1], Cons(first[2], Cons(first[3], Cons(first[4], Cons(first[5],
                     Cons(first[6], Cons(first[7], Cons(first[8], x))))))))
  BY <1>5, EightTokens
<1>7. first \o x = Cons(first[1], Cons(Semicolon, Cons(Blank1, Cons(first[4], Cons(Semicolon,
                     Cons(Blank1, Port(w, n) \o u))))))
  BY <1>3, <1>4, <1>6
<1> DEFINE t == Port(w, n) \o u
<1>8. Followed(<<first[1]>>, Followed(<<first[4]>>, t))
        = Cons(first[1], Cons(Semicolon, Cons(Blank1, Cons(first[4], Cons(Semicolon, Cons(Blank1, t))))))
  BY Zenon DEF Followed, Cons
<1> QED BY <1>7, <1>8 DEF x, d, w

(* The end of a Transport line.                                            *)
Mode == <<"mode", "=", "PLAY">>

LEMMA ModeIsPlain == Mode \in Seq(Inner) /\ Plain(Mode)
<1> DEFINE mode == "mode"
           end == <<"=", "PLAY">>
<1>1. \A w \in {"mode", "PLAY"} : w \in OpeningWord
  BY Zenon DEF OpeningWord
<1>2. mode \in Opening /\ "PLAY" \in Inner /\ "=" \in Inner
  BY <1>1, WordsOpen, WordsInner DEF Opening
<1>3. end \in Seq(Inner)
  BY <1>2
<1>4. Mode = Cons(mode, end)
  BY DEF Mode, Cons
<1> HIDE DEF mode, end
<1> QED BY <1>2, <1>3, <1>4, PlainText

LEMMA ModeFollows ==
  /\ <<Semicolon, Blank1, "mode", "=", "PLAY">> = Cons(Semicolon, Cons(Blank1, Mode))
  /\ Cons(Semicolon, Cons(Blank1, Mode)) \in Seq(Inner)
<1>1. Mode = Cons("mode", <<"=", "PLAY">>)
  BY DEF Mode, Cons
<1>2. <<Semicolon, Blank1, "mode", "=", "PLAY">> = Cons(Semicolon, Cons(Blank1, Mode))
  BY <1>1, FiveTokens
<1>3. Blank1 \in Inner /\ Semicolon \in Inner
  BY WordsInner DEF Opening
<1> DEFINE b == Cons(Blank1, Mode)
<1>4. b \in Seq(Inner)
  BY <1>3, ModeIsPlain, OneBefore
<1> HIDE DEF b
<1>5. Cons(Semicolon, b) \in Seq(Inner)
  BY <1>3, <1>4, OneBefore
<1> QED BY <1>2, <1>5 DEF b

(* What the client writes of its transport is what the server reads.       *)
LEMMA TransportIsRead ==
  ASSUME NEW p \in OpeningWord, port \in Nat
  PROVE  LET v == Transport(p)
         IN /\ v \in Text /\ Plain(v)
            /\ Part(v, ";", 1) = <<LowerWord(p)>>
            /\ Part(v, ";", 2) = <<"compression">>
            /\ RtpPort(v) = port
<1> DEFINE compression == "Compression"
           clientPort == "client_port"
           equal == "="
           d == Decimal[port]
           first == <<p, Semicolon, Blank1, compression, Semicolon, Blank1, clientPort, equal>>
           end == <<Semicolon, Blank1, "mode", "=", "PLAY">>
           number == Port(clientPort, port)
           v == Transport(p)
<1>1. v = (first \o d) \o end
  BY Zenon DEF Transport, Semicolon, Blank1
<1>2. compression \in OpeningWord /\ clientPort \in OpeningWord
  BY Zenon DEF OpeningWord
<1>3. LowerWord(clientPort) = clientPort /\ LowerWord(compression) = "compression"
  BY WordsLowered
<1>4. /\ number \in Seq(Inner) /\ Plain(number)
      /\ \A i \in 1 .. Len(number) : number[i] # Semicolon
      /\ Lower(number) = number /\ Atoi(Value(number, equal)) = port
  BY <1>2, <1>3, PortIsSplit DEF Port
<1>5. end = Cons(Semicolon, Cons(Blank1, Mode)) /\ end \in Seq(Inner)
  BY ModeFollows
<1>6. d \in Seq(Inner)
  BY DecimalInner
<1>7. /\ p \in Inner /\ compression \in Inner /\ clientPort \in Inner /\ equal \in Inner
      /\ Semicolon \in Inner /\ Blank1 \in Inner
  BY <1>2, WordsOpen, WordsInner DEF Opening
<1> HIDE DEF compression, clientPort, v, d, end, equal
<1>8. first \in Seq(Inner)
  BY <1>7
<1>9. v = first \o (d \o end)
  <2> HIDE DEF first
  <2> QED BY <1>1, <1>5, <1>6, <1>8, ConcatAssociative
<1>10. v = Followed(<<p>>, Followed(<<compression>>, Followed(number, Mode)))
  <2>1. first \o (d \o end) = Followed(<<p>>, Followed(<<compression>>, number \o end))
    <3>1. /\ Len(first) = 8 /\ first[1] = p /\ first[2] = Semicolon /\ first[3] = Blank1
          /\ first[4] = compression /\ first[5] = Semicolon /\ first[6] = Blank1
          /\ first[7] = clientPort /\ first[8] = "="
      BY DEF equal
    <3> HIDE DEF first
    <3> QED BY <1>5, <1>8, <3>1, UpToNumber DEF d
  <2>2. number \o end = Followed(number, Mode)
    BY <1>5 DEF Followed
  <2> QED BY <1>9, <2>1, <2>2
<1> HIDE DEF number
<1>11. /\ v \in Text /\ Plain(v)
       /\ Part(v, Semicolon, 1) = <<LowerWord(p)>>
       /\ Part(v, Semicolon, 2) = <<"compression">>
       /\ Part(v, Semicolon, 3) = number
  BY <1>2, <1>3, <1>4, <1>10, ModeIsPlain, PartsAreRead
<1>12. RtpPort(v) = port
  <2>1. Atoi(Value(Part(v, Semicolon, 3), equal)) = port
    BY <1>4, <1>11
  <2> QED BY <2>1, Zenon DEF RtpPort, Semicolon, equal
<1> QED BY <1>11, <1>12, Zenon DEF v, Semicolon

LEMMA NameOfLine ==
  ASSUME NEW n \in Opening, n # ":", NEW v \in Text
  PROVE  /\ Line(n, v) \in Text /\ Line(n, v) # <<CRLF>>
         /\ Split(Line(n, v), ":").name = <<LowerWord(n)>>
<1> DEFINE colon == ":"
           end == <<CRLF>>
           a == <<n>>
           w == v \o end
           b == Cons(Blank1, w)
           line == Line(n, v)
<1>1. line = <<n, colon, Blank1>> \o v \o end
  BY Zenon DEF Line, Blank1
<1>2. /\ n \in Token /\ colon \in Token /\ Blank1 \in Token /\ CRLF \in Token
      /\ n # colon /\ n \notin Blank
  BY WordsInner DEF Opening, Inner
<1>3. /\ a \in Seq(Token) /\ a # <<>> /\ a[1] = n /\ Len(a) = 1
  BY PlainWord DEF Text
<1>4. end \in Seq(Token) /\ v \in Seq(Token)
  BY <1>2 DEF Text
<1> HIDE DEF colon, end, a
<1>5. w \in Seq(Token)
  BY <1>4, ConcatProperties
<1>6. line = <<n, colon, Blank1>> \o w
  <2> DEFINE first == <<n, colon, Blank1>>
  <2>1. first \in Seq(Token)
    BY <1>2
  <2>2. line = (first \o v) \o end
    BY <1>1
  <2> HIDE DEF first, line
  <2>3. line = first \o (v \o end)
    BY <1>4, <2>1, <2>2, ConcatAssociative
  <2> QED BY <2>3 DEF first
<1> HIDE DEF w
<1>7. b \in Seq(Token)
  BY <1>2, <1>5, OneBefore
<1> HIDE DEF line
<1>8. line = Cons(n, Cons(colon, b))
  BY <1>2, <1>5, <1>6, ThreeTokens
<1> HIDE DEF b
<1>9. line = a \o Cons(colon, b)
  BY <1>8 DEF a, Cons
<1>10. Name(line, colon) = Lower(a)
  <2>1. a[1] \notin Blank /\ \A i \in 1 .. Len(a) : a[i] # colon
    BY <1>2, <1>3
  <2> QED BY <1>2, <1>3, <1>7, <1>9, <2>1, SplitAt
<1>11. Lower(a) = <<LowerWord(n)>>
  BY DEF Lower, a
<1>12. line \in Text
  <2>1. Cons(colon, b) \in Seq(Token)
    BY <1>2, <1>7, OneBefore
  <2> DEFINE c == Cons(colon, b)
  <2> HIDE DEF c
  <2>2. a \o c \in Seq(Token)
    BY <1>3, <2>1, ConcatProperties DEF c
  <2> QED BY <1>9, <2>2 DEF Text, c
<1>13. Split(line, colon).name = <<LowerWord(n)>>
  BY <1>10, <1>11 DEF Split
<1>14. line # <<CRLF>>
  <2> DEFINE c == Cons(colon, b)
  <2>1. c \in Seq(Token)
    BY <1>2, <1>7, OneBefore
  <2> HIDE DEF c
  <2>2. Cons(n, c)[1] = n
    BY <1>2, <2>1, OneBefore
  <2>3. <<CRLF>>[1] = CRLF
    OBVIOUS
  <2> QED BY <1>2, <1>8, <2>2, <2>3, WordsInner DEF c
<1> QED BY <1>12, <1>13, <1>14 DEF line, colon

------------------------------------------------------------------------------
(* The answers.                                                            *)

Compressed == <<"compression">>

(* What the server writes of the transport is what the client reads.       *)
TransportText(type, method, n, m) ==
  type \o <<";", " ">> \o method \o <<";", " ", "client_port", "=">> \o Decimal[n]
    \o <<";", " ", "server_port", "=">> \o Decimal[m]
    \o <<";", " ", "mode", "=", "PLAY">>

AnswerTransport(n) == TransportText(PROTOCOL_TYPE, Compressed, n, SERVER_RTP_PORT)

LEMMA AnswerTransportIsRead ==
  ASSUME NEW n \in Nat
  PROVE  LET v == AnswerTransport(n)
         IN v \in Text /\ Plain(v) /\ ServerPort(v) = SERVER_RTP_PORT
<1> DEFINE udp == "rtp/udp"
           compression == "compression"
           clientPort == "client_port"
           serverPort == "server_port"
           equal == "="
           m == SERVER_RTP_PORT
           d == Decimal[n]
           e == Decimal[m]
           first == <<udp>> \o <<Semicolon, Blank1>> \o <<compression>>
                      \o <<Semicolon, Blank1, clientPort, equal>>
           second == <<Semicolon, Blank1, serverPort, equal>>
           end == <<Semicolon, Blank1, "mode", "=", "PLAY">>
           number == Port(clientPort, n)
           server_number == Port(serverPort, m)
           rest == Followed(server_number, Mode)
           v == AnswerTransport(n)
<1>1. v = (((first \o d) \o second) \o e) \o end
  BY Zenon DEF AnswerTransport, TransportText, Semicolon, Blank1, PROTOCOL_TYPE, Compressed
<1>2. /\ udp \in OpeningWord /\ compression \in OpeningWord
      /\ clientPort \in OpeningWord /\ serverPort \in OpeningWord
  BY Zenon DEF OpeningWord
<1>3. LowerWord(clientPort) = clientPort /\ LowerWord(serverPort) = serverPort
  BY WordsLowered
<1>4. m \in Nat
  BY DEF SERVER_RTP_PORT
<1> HIDE DEF m
<1>5. /\ number \in Seq(Inner) /\ Plain(number)
      /\ \A i \in 1 .. Len(number) : number[i] # Semicolon
      /\ Lower(number) = number
  BY <1>2, <1>3, PortIsSplit DEF Port
<1>6. /\ server_number \in Seq(Inner) /\ Plain(server_number)
      /\ \A i \in 1 .. Len(server_number) : server_number[i] # Semicolon
      /\ Lower(server_number) = server_number /\ Atoi(Value(server_number, equal)) = m
  BY <1>2, <1>3, <1>4, PortIsSplit DEF Port
<1>7. end = Cons(Semicolon, Cons(Blank1, Mode)) /\ end \in Seq(Inner)
  BY ModeFollows
<1>8. d \in Seq(Inner) /\ e \in Seq(Inner)
  BY <1>4, DecimalInner
<1>9. /\ udp \in Inner /\ compression \in Inner /\ clientPort \in Inner /\ serverPort \in Inner
      /\ equal \in Inner /\ Semicolon \in Inner /\ Blank1 \in Inner
  BY <1>2, WordsOpen, WordsInner DEF Opening
<1>10. server_number \o end = Cons(serverPort, Cons(equal, e \o end))
  BY <1>4, <1>7, <1>9, PortFollowed
<1>11. server_number \o end = rest
  BY <1>7 DEF Followed
<1> HIDE DEF udp, compression, clientPort, serverPort, v, d, e, end, equal, server_number
<1>12. /\ rest \in Seq(Inner) /\ Plain(rest) /\ Name(rest, Semicolon) = server_number
  BY <1>6, ModeIsPlain, NextPart
<1> HIDE DEF rest
<1>13. /\ first \in Seq(Inner) /\ Len(first) = 8 /\ first[1] = udp /\ first[2] = Semicolon
       /\ first[3] = Blank1 /\ first[4] = compression /\ first[5] = Semicolon
       /\ first[6] = Blank1 /\ first[7] = clientPort /\ first[8] = equal
  BY <1>9
<1>14. /\ second \in Seq(Inner) /\ Len(second) = 4 /\ second[1] = Semicolon
       /\ second[2] = Blank1 /\ second[3] = serverPort /\ second[4] = equal
  BY <1>9
<1> HIDE DEF first, second
<1> DEFINE x == e \o end
           y == second \o x
<1>15. x \in Seq(Inner) /\ y \in Seq(Inner) /\ v = first \o (d \o y)
  <2> DEFINE a == first \o d
             b == a \o second
             c == b \o e
  <2>1. x \in Seq(Inner)
    BY <1>7, <1>8, ConcatProperties
  <2>2. y \in Seq(Inner)
    <3> HIDE DEF x
    <3> QED BY <1>14, <2>1, ConcatProperties
  <2>3. a \in Seq(Inner)
    BY <1>8, <1>13, ConcatProperties
  <2>4. v = c \o end
    BY <1>1
  <2>5. a \o y = first \o (d \o y)
    <3>1. first \in Seq(Inner) /\ d \in Seq(Inner)
      BY <1>8, <1>13
    <3> HIDE DEF y
    <3> QED BY <2>2, <3>1, ConcatAssociative
  <2> HIDE DEF a
  <2>6. b \in Seq(Inner)
    BY <1>14, <2>3, ConcatProperties
  <2>7. b \o x = a \o y
    <3> HIDE DEF x
    <3> QED BY <1>14, <2>1, <2>3, ConcatAssociative
  <2> HIDE DEF b
  <2>8. c \o end = b \o x
    BY <1>7, <1>8, <2>6, ConcatAssociative
  <2> QED BY <2>1, <2>2, <2>4, <2>5, <2>7, <2>8
<1>16. y = Cons(Semicolon, Cons(Blank1, rest))
  <2> HIDE DEF x
  <2>1. y = Cons(second[1], Cons(second[2], Cons(second[3], Cons(second[4], x))))
    BY <1>14, <1>15, FourTokens
  <2> HIDE DEF y
  <2> QED BY <1>10, <1>11, <1>14, <2>1 DEF x
<1> HIDE DEF x, y
<1>17. v = Followed(<<udp>>, Followed(<<compression>>, Followed(number, rest)))
  <2>1. first \o (d \o y) = Followed(<<udp>>, Followed(<<compression>>, number \o y))
    <3>1. first[8] = "="
      BY <1>13 DEF equal
    <3> QED BY <1>13, <1>15, <3>1, UpToNumber DEF d
  <2>2. number \o y = Followed(number, rest)
    BY <1>16 DEF Followed
  <2> QED BY <1>15, <2>1, <2>2
<1> HIDE DEF number
<1>18. v \in Text /\ Plain(v) /\ Part(v, Semicolon, 4) = server_number
  BY <1>2, <1>5, <1>12, <1>17, PartsAreRead
<1>19. ServerPort(v) = m
  <2>1. Part(v, Semicolon, CLIENT_NUMBER_SIZE) = server_number
    BY <1>18 DEF CLIENT_NUMBER_SIZE
  <2>2. Atoi(Value(Part(v, Semicolon, CLIENT_NUMBER_SIZE), equal)) = m
    BY <1>6, <2>1
  <2> QED BY <2>2, Zenon DEF ServerPort, Semicolon, equal
<1> QED BY <1>18, <1>19 DEF v, m

------------------------------------------------------------------------------
(* The lines of a request.                                                 *)

Udp == Transport("RTP/UDP")
Tcp == Transport("RTP/TCP")

(* A line asks for the client's transport, for the same with another       *)
(* protocol, or for an empty one.                                          *)
Asks == {Udp, Tcp, <<>>}

LineOK(line) ==
  LET f == Split(line, ":")
  IN f.name = <<"transport">> => f.value \in Asks

OKLines == {line \in Text : LineOK(line)}

(* The lines that ask for no transport.                                    *)
OtherName == {"CSeq", "Session", "User-Agent", "Range", "If-Modified-Since"}

LEMMA OtherLine ==
  ASSUME NEW n \in OtherName, NEW v \in Text
  PROVE  Line(n, v) \in OKLines
<1>1. n \in Opening /\ n # ":"
  <2>1. n \in OpeningWord
    BY Zenon DEF OtherName, OpeningWord
  <2> QED BY <2>1, WordsOpen
<1>2. LowerWord(n) # "transport"
  <2>1. LowerWord("CSeq") = "cseq"
    BY Zenon DEF LowerWord
  <2>2. LowerWord("Session") = "session"
    BY Zenon DEF LowerWord
  <2>3. LowerWord("User-Agent") = "User-Agent"
    <3>1. "User-Agent" \notin Capital
      BY Zenon DEF Capital
    <3> QED BY <3>1, SmallStays
  <2>4. LowerWord("Range") = "range"
    BY Zenon DEF LowerWord
  <2>5. LowerWord("If-Modified-Since") = "if-modified-since"
    BY Zenon DEF LowerWord
  <2> QED BY <2>1, <2>2, <2>3, <2>4, <2>5, Zenon DEF OtherName
<1>3. Line(n, v) \in Text /\ Split(Line(n, v), ":").name = <<LowerWord(n)>>
  BY <1>1, NameOfLine
<1>4. \A x, y : <<x>> = <<y>> => x = y
  OBVIOUS
<1>5. LineOK(Line(n, v))
  BY <1>2, <1>3, <1>4, Zenon DEF LineOK
<1> QED BY <1>3, <1>5 DEF OKLines

(* A line with nothing but a name has an empty value.                      *)
LEMMA EmptyText ==
  ASSUME NEW Stop
  PROVE  Before(<<>>, Stop) = <<>> /\ After(<<>>, Stop) = <<>> /\ SkipBlanks(<<>>) = <<>>
<1>1. Min({1}) = 1
  BY LeastIs
<1>2. FirstIn(<<>>, Stop) = 1
  <2>1. {i \in DOMAIN <<>> : <<>>[i] \in Stop} \cup {Len(<<>>) + 1} = {1}
    OBVIOUS
  <2> QED BY <1>1, <2>1 DEF FirstIn
<1>3. Min({i \in DOMAIN <<>> : <<>>[i] \notin Blank} \cup {Len(<<>>) + 1}) = 1
  <2>1. {i \in DOMAIN <<>> : <<>>[i] \notin Blank} \cup {Len(<<>>) + 1} = {1}
    OBVIOUS
  <2> QED BY <1>1, <2>1
<1>4. SubSeq(<<>>, 1, 0) = <<>> /\ SubSeq(<<>>, 2, 0) = <<>>
  OBVIOUS
<1>5. 1 - 1 = 0 /\ 1 + 1 = 2 /\ Len(<<>>) = 0
  OBVIOUS
<1> QED BY <1>2, <1>3, <1>4, <1>5 DEF Before, After, SkipBlanks

LEMMA EmptyValue ==
  ASSUME NEW n \in Opening, n # ":"
  PROVE  Split(Line(n, <<>>), ":") = [name |-> <<LowerWord(n)>>, value |-> <<>>]
<1> DEFINE colon == ":"
           b == <<Blank1, CRLF>>
           a == <<n>>
           line == Line(n, <<>>)
<1>1. /\ n \in Token /\ colon \in Token /\ Blank1 \in Token /\ CRLF \in Token
      /\ Blank1 \in Blank /\ CRLF \in Blank /\ n # colon /\ n \notin Blank
  BY WordsInner DEF Opening, Inner
<1>2. b \in Seq(Token) /\ Len(b) = 2 /\ b[1] = Blank1 /\ b[2] = CRLF
  BY <1>1
<1>3. /\ a \in Seq(Token) /\ a # <<>> /\ a[1] = n /\ Len(a) = 1
  BY PlainWord DEF Text
<1>4. line = a \o Cons(colon, b)
  <2>1. line = <<n, colon, Blank1>> \o <<>> \o <<CRLF>>
    BY Zenon DEF Line, Blank1
  <2>2. <<n, colon, Blank1>> \o <<>> \o <<CRLF>> = <<n>> \o (<<colon>> \o <<Blank1, CRLF>>)
    OBVIOUS
  <2> QED BY <2>1, <2>2 DEF Cons
<1>5. SkipBlanks(b) = <<>>
  <2> DEFINE T == {i \in DOMAIN b : b[i] \notin Blank} \cup {Len(b) + 1}
  <2>1. DOMAIN b = {1, 2}
    BY <1>2
  <2>2. T = {3}
    BY <1>1, <1>2, <2>1
  <2>3. Min({3}) = 3
    BY LeastIs
  <2>4. SubSeq(b, 3, 2) = <<>>
    BY <1>2
  <2> QED BY <1>2, <2>2, <2>3, <2>4 DEF SkipBlanks
<1> HIDE DEF colon, a, b, line
<1>6. Name(line, colon) = Lower(a) /\ Value(line, colon) = Before(SkipBlanks(b), {CRLF})
  <2>1. a[1] \notin Blank /\ \A i \in 1 .. Len(a) : a[i] # colon
    BY <1>1, <1>3
  <2> QED BY <1>1, <1>2, <1>3, <1>4, <2>1, SplitAt
<1>7. Value(line, colon) = <<>>
  BY <1>5, <1>6, EmptyText
<1>8. Lower(a) = <<LowerWord(n)>>
  BY DEF Lower, a
<1> QED BY <1>6, <1>7, <1>8 DEF Split, line, colon

(* Nothing is read from it.                                                *)
LEMMA NothingRead ==
  ASSUME NEW stop
  PROVE  /\ Part(<<>>, stop, 1) = <<>> /\ Part(<<>>, stop, 2) = <<>>
         /\ Part(<<>>, stop, 3) = <<>> /\ Value(<<>>, stop) = <<>>
         /\ Atoi(<<>>) = 0
<1>1. Value(<<>>, stop) = <<>>
  BY EmptyText DEF Value
<1>2. Name(<<>>, stop) = <<>>
  <2>1. Lower(<<>>) = <<>>
    BY DEF Lower
  <2> QED BY <2>1, EmptyText DEF Name
<1>3. /\ Part(<<>>, stop, 1) = <<>> /\ Part(<<>>, stop, 2) = <<>>
      /\ Part(<<>>, stop, 3) = <<>>
  BY <1>1, <1>2, Parts
<1>4. LeadingDigits(<<>>) = <<>>
  <2>1. Min({1}) = 1
    BY LeastIs
  <2>2. {i \in DOMAIN <<>> : <<>>[i] \notin ToSet(Digit)} \cup {Len(<<>>) + 1} = {1}
    OBVIOUS
  <2>3. SubSeq(<<>>, 1, 1 - 1) = <<>>
    OBVIOUS
  <2> QED BY <2>1, <2>2, <2>3 DEF LeadingDigits
<1>5. Number[<<>>] = 0
  BY EmptySeq, NumberDef
<1>6. Atoi(<<>>) = 0
  BY <1>4, <1>5, EmptyText DEF Atoi
<1> QED BY <1>1, <1>3, <1>6

LEMMA TransportLine ==
  ASSUME port \in Nat, NEW v \in Asks
  PROVE  /\ Line("Transport", v) \in OKLines
         /\ Split(Line("Transport", v), ":") = [name |-> <<"transport">>, value |-> v]
<1>1. \A p \in {"RTP/UDP", "RTP/TCP"} : p \in OpeningWord
  BY Zenon DEF OpeningWord
<1>2. "Transport" \in Opening /\ "Transport" # ":"
  <2>1. "Transport" \in OpeningWord
    BY Zenon DEF OpeningWord
  <2> QED BY <2>1, WordsOpen
<1>3. /\ Udp \in Text /\ Plain(Udp) /\ Tcp \in Text /\ Plain(Tcp)
  BY <1>1, TransportIsRead DEF Udp, Tcp
<1>4. LowerWord("Transport") = "transport"
  BY Zenon DEF LowerWord
<1>5. v \in Text
  BY <1>3, EmptySeq DEF Asks, Text
<1>6. Split(Line("Transport", v), ":") = [name |-> <<"transport">>, value |-> v]
  <2>1. CASE v = <<>>
    BY <1>2, <1>4, <2>1, EmptyValue
  <2>2. CASE v # <<>>
    <3>1. Plain(v)
      BY <1>3, <2>2 DEF Asks
    <3> QED BY <1>2, <1>4, <1>5, <3>1, LineIsSplit
  <2> QED BY <2>1, <2>2
<1>7. Line("Transport", v) \in Text
  BY <1>2, <1>5, NameOfLine
<1>8. LineOK(Line("Transport", v))
  BY <1>6 DEF LineOK
<1> QED BY <1>6, <1>7, <1>8 DEF OKLines

(* A line without a colon has no name of one word.                         *)
LEMMA MalformedLine ==
  /\ <<"CSeq", " ", "1", CRLF>> \in OKLines
  /\ \A x : Split(<<"CSeq", " ", "1", CRLF>>, ":").name # <<x>>
<1> DEFINE cseq == "CSeq"
           one == "1"
           colon == ":"
           line == <<cseq, Blank1, one, CRLF>>
<1>1. /\ cseq \in Opening /\ cseq # colon /\ one \in DigitToken
  <2>1. cseq \in OpeningWord
    BY Zenon DEF OpeningWord
  <2>2. Digit[2] = one
    BY DEF Digit
  <2> QED BY <2>1, <2>2, WordsOpen, DigitOf
<1>2. /\ cseq \in Token /\ Blank1 \in Token /\ one \in Token /\ CRLF \in Token
      /\ one # colon /\ Blank1 # colon /\ CRLF # colon /\ cseq \notin Blank
  BY <1>1, WordsInner, DigitsOpen DEF Opening, Inner
<1>3. line \in Seq(Token) /\ Len(line) = 4
      /\ line[1] = cseq /\ line[2] = Blank1 /\ line[3] = one /\ line[4] = CRLF
  BY <1>2
<1> HIDE DEF cseq, one, colon, line
<1>4. SkipBlanks(line) = line
  <2>1. line # <<>>
    BY <1>3, EmptySeq
  <2> QED BY <1>2, <1>3, <2>1, NothingSkipped
<1>5. Before(line, {colon}) = line
  <2>1. \A i \in 1 .. Len(line) : line[i] # colon
    BY <1>1, <1>2, <1>3
  <2> DEFINE Stop == {colon}
  <2>2. \A i \in 1 .. Len(line) : line[i] \notin Stop
    BY <2>1
  <2> HIDE DEF Stop
  <2>3. Before(line, Stop) = line
    BY <1>3, <2>2, NeverCut
  <2> QED BY <2>3 DEF Stop
<1>6. Name(line, colon) = Lower(line)
  BY <1>4, <1>5 DEF Name
<1>7. DOMAIN Lower(line) = 1 .. 4
  BY <1>3 DEF Lower
<1>8. \A x : DOMAIN <<x>> = 1 .. 1
  OBVIOUS
<1>9. \A x : Lower(line) # <<x>>
  <2>1. 4 \in 1 .. 4 /\ 4 \notin 1 .. 1
    OBVIOUS
  <2> QED BY <1>7, <1>8, <2>1
<1>10. Split(line, colon).name = Lower(line)
  BY <1>6 DEF Split
<1>11. LineOK(line)
  BY <1>9, <1>10, Zenon DEF LineOK, colon
<1>12. line \in OKLines
  BY <1>3, <1>11 DEF OKLines, Text
<1>13. \A x : Split(line, colon).name # <<x>>
  BY <1>9, <1>10, Zenon
<1> QED BY <1>12, <1>13, Zenon DEF line, cseq, one, colon, Blank1

------------------------------------------------------------------------------
(* What is found in header lines.                                          *)

Fields == {Split(line, ":") : line \in Text}

LEMMA ValueIsText == \A f \in Fields : f.value \in Text
<1> SUFFICES ASSUME NEW line \in Text
             PROVE  Split(line, ":").value \in Text
  BY DEF Fields
<1> DEFINE colon == ":"
           a == SkipBlanks(line)
           b == After(a, {colon})
           c == SkipBlanks(b)
<1> HIDE DEF colon
<1>1. a \in Seq(Token)
  BY PiecesAreTexts DEF Text
<1> HIDE DEF a
<1>2. b \in Seq(Token)
  BY <1>1, PiecesAreTexts
<1> HIDE DEF b
<1>3. c \in Seq(Token)
  BY <1>2, PiecesAreTexts
<1> HIDE DEF c
<1>4. Before(c, {CRLF}) \in Seq(Token)
  BY <1>3, PiecesAreTexts
<1>5. Split(line, colon).value = Before(c, {CRLF})
  BY DEF Split, Value, a, b, c
<1> QED BY <1>4, <1>5 DEF Text, colon

LEMMA ParsedLines ==
  ASSUME NEW lines \in Seq(Text)
  PROVE  /\ Parsed(lines) \in Seq(Fields) /\ Len(Parsed(lines)) = Len(lines)
         /\ \A i \in 1 .. Len(lines) : Parsed(lines)[i] = Split(lines[i], ":")
<1>1. Len(lines) \in Nat /\ DOMAIN lines = 1 .. Len(lines)
  BY LenProperties
<1>2. \A i \in 1 .. Len(lines) : lines[i] \in Text
  BY ElementOfSeq
<1> DEFINE field(i) == Split(lines[i], ":")
<1>3. \A i \in 1 .. Len(lines) : field(i) \in Fields
  BY <1>2 DEF Fields
<1>4. Parsed(lines) = [i \in 1 .. Len(lines) |-> field(i)]
  BY <1>1 DEF Parsed
<1> HIDE DEF field
<1>5. Parsed(lines) \in Seq(Fields) /\ Len(Parsed(lines)) = Len(lines)
      /\ \A i \in 1 .. Len(lines) : Parsed(lines)[i] = field(i)
  BY <1>1, <1>3, <1>4
<1> QED BY <1>5 DEF field

LEMMA GreatestOf ==
  ASSUME NEW n \in Nat, NEW T \in SUBSET (1 .. n), T # {}
  PROVE  Max(T) \in T /\ \A i \in T : i <= Max(T)
<1> DEFINE U == {n - i : i \in T}
<1>1. U \in SUBSET Nat /\ U # {}
  <2>1. \A i \in T : n - i \in Nat
    OBVIOUS
  <2>2. PICK i \in T : TRUE
    OBVIOUS
  <2>3. n - i \in U
    OBVIOUS
  <2> QED BY <2>1, <2>3
<1>2. PICK k \in U : \A j \in U : k <= j
  <2> HIDE DEF U
  <2> QED BY <1>1, LeastOf
<1>3. PICK m \in T : k = n - m
  BY <1>2
<1>4. ASSUME NEW i \in T
      PROVE  i <= m
  <2>1. n - i \in U
    OBVIOUS
  <2>2. n - m <= n - i
    BY <1>2, <1>3, <2>1
  <2>3. n \in Int /\ m \in Int /\ i \in Int
    OBVIOUS
  <2> QED BY <2>2, <2>3
<1> QED BY <1>4 DEF Max

LEMMA FieldThere ==
  ASSUME NEW header \in Seq(Fields), NEW name, FieldExists(header, name)
  PROVE  \E i \in 1 .. Len(header) :
           header[i].name = <<name>> /\ Field(header, name) = header[i].value
<1> DEFINE I == {i \in 1 .. Len(header) : header[i].name = <<name>>}
<1>1. DOMAIN header = 1 .. Len(header) /\ Len(header) \in Nat
  BY LenProperties
<1>2. I # {} /\ I \in SUBSET Nat
  BY <1>1 DEF FieldExists
<1>3. Min(I) \in I
  <2> HIDE DEF I
  <2> QED BY <1>2, LeastOf
<1>4. SelectInSeq(header, LAMBDA f : f.name = <<name>>) = Min(I)
  BY <1>2 DEF SelectInSeq
<1>5. Field(header, name) = header[Min(I)].value
  BY <1>4 DEF Field
<1> QED BY <1>3, <1>5

LEMMA LastFieldThere ==
  ASSUME NEW header \in Seq(Fields), NEW name,
         FieldExists(header, name) \/ LastField(header, name) # <<>>
  PROVE  \E i \in 1 .. Len(header) :
           header[i].name = <<name>> /\ LastField(header, name) = header[i].value
<1> DEFINE I == {i \in 1 .. Len(header) : header[i].name = <<name>>}
           k == SelectLastInSeq(header, LAMBDA f : f.name = <<name>>)
<1>1. Len(header) \in Nat
  BY LenProperties
<1>2. k = IF I # {} THEN Max(I) ELSE 0
  BY DEF SelectLastInSeq
<1>3. LastField(header, name) = IF k = 0 THEN <<>> ELSE header[k].value
  BY DEF LastField
<1> HIDE DEF k
<1>4. I # {} /\ k = Max(I)
  <2>1. DOMAIN header = 1 .. Len(header)
    BY LenProperties
  <2>2. FieldExists(header, name) => I # {}
    BY <2>1 DEF FieldExists
  <2> QED BY <1>2, <1>3, <2>2
<1>5. Max(I) \in I
  <2>1. I \in SUBSET (1 .. Len(header))
    OBVIOUS
  <2> HIDE DEF I
  <2> QED BY <1>1, <1>4, <2>1, GreatestOf
<1>6. k \in 1 .. Len(header) /\ header[k].name = <<name>>
  BY <1>4, <1>5
<1> QED BY <1>1, <1>3, <1>6

LEMMA WrongSessionPlace ==
  ASSUME NEW header \in Seq(Fields), NEW session
  PROVE  WrongSession(header, session) \in 0 .. Len(header)
<1> DEFINE I == {i \in 1 .. Len(header) : header[i].name = <<"session">>
                                            /\ Atoi(header[i].value) # session}
<1>1. Len(header) \in Nat
  BY LenProperties
<1>2. WrongSession(header, session) = IF I # {} THEN Min(I) ELSE 0
  BY DEF WrongSession, SelectInSeq
<1>3. I # {} => Min(I) \in I
  <2>1. I \in SUBSET Nat
    BY <1>1
  <2> HIDE DEF I
  <2> QED BY <2>1, LeastOf
<1> QED BY <1>1, <1>2, <1>3

(* getRTSPInfo reads lines of the header only.                             *)
LEMMA FieldsReadThere ==
  ASSUME NEW header \in Seq(Fields), NEW session
  PROVE  LET read == FieldsRead(header, session)
         IN /\ read \in Seq(Fields) /\ Len(read) <= Len(header)
            /\ \A i \in 1 .. Len(read) : read[i] = header[i]
<1> DEFINE k == WrongSession(header, session)
           read == FieldsRead(header, session)
<1>1. Len(header) \in Nat /\ k \in 0 .. Len(header)
  BY LenProperties, WrongSessionPlace
<1>2. read = IF k = 0 THEN header ELSE SubSeq(header, 1, k - 1)
  BY DEF FieldsRead
<1> HIDE DEF k, read
<1>3. CASE k = 0
  <2>1. read = header
    BY <1>2, <1>3
  <2> QED BY <1>1, <2>1 DEF read
<1>4. CASE k # 0
  <2>1. \A i \in 1 .. k - 1 : header[i] \in Fields
    BY <1>1, ElementOfSeq
  <2>2. read \in Seq(Fields) /\ Len(read) = k - 1 /\ \A i \in 1 .. k - 1 : read[i] = header[i]
    BY <1>1, <1>2, <1>4, <2>1, SubSeqProperties
  <2> QED BY <1>1, <1>4, <2>2 DEF read
<1> QED BY <1>3, <1>4 DEF read

------------------------------------------------------------------------------
(* The server's variables.                                                 *)

ServerType ==
  [status : {"INIT", "READY", "PLAYING"}, session_id : SessionId \cup {0},
   protocol_type : {<<>>, PROTOCOL_TYPE, <<"rtp/tcp">>}, protocol_method : {<<>>, Compressed},
   client_rtp_port : Nat, client_rtcp_port : Nat, server_rtp_port : {SERVER_RTP_PORT},
   range_start : Nat, range_end : Int]

Asked(s) ==
  /\ s.protocol_type \in {PROTOCOL_TYPE, <<"rtp/tcp">>} /\ s.protocol_method = Compressed
  /\ s.client_rtp_port = port /\ s.client_rtcp_port = port + 1

(* Either no transport was asked for, or it was the client's, except       *)
(* perhaps for the protocol.                                               *)
TransportKnown(s) ==
  \/ s.protocol_type = <<>> /\ s.protocol_method = <<>> /\ s.client_rtp_port = 0
  \/ Asked(s)

LEMMA TransportAsked ==
  ASSUME NEW lines \in Seq(OKLines), NEW session
  PROVE  LET header == Parsed(lines)
             read == FieldsRead(header, session)
             value == LastField(read, "transport")
         IN /\ FieldExists(read, "transport") => value \in Asks
            /\ FieldExists(read, "transport") => FieldExists(header, "transport")
            /\ LastField(read, "range") \in Text
            /\ LastField(header, "cseq") \in Text
            /\ header \in Seq(Fields)
<1> DEFINE header == Parsed(lines)
           read == FieldsRead(header, session)
           value == LastField(read, "transport")
<1>1. lines \in Seq(Text) /\ \A i \in 1 .. Len(lines) : lines[i] \in OKLines
  <2>1. OKLines \subseteq Text
    BY DEF OKLines
  <2> QED BY <2>1, SeqMonotonic, ElementOfSeq
<1>2. /\ header \in Seq(Fields) /\ Len(header) = Len(lines)
      /\ \A i \in 1 .. Len(lines) : header[i] = Split(lines[i], ":")
  BY <1>1, ParsedLines
<1> HIDE DEF header
<1>3. /\ read \in Seq(Fields) /\ Len(read) <= Len(header)
      /\ \A i \in 1 .. Len(read) : read[i] = header[i]
  BY <1>2, FieldsReadThere
<1> HIDE DEF read
<1>4. /\ Len(read) \in Nat /\ Len(header) \in Nat
      /\ \A i \in 1 .. Len(header) : header[i] \in Fields
  BY <1>2, <1>3, LenProperties, ElementOfSeq
<1>5. <<>> \in Text
  BY EmptySeq DEF Text
<1>6. ASSUME FieldExists(read, "transport")
      PROVE  value \in Asks /\ FieldExists(header, "transport")
  <2>1. PICK i \in 1 .. Len(read) : read[i].name = <<"transport">> /\ value = read[i].value
    BY <1>3, <1>6, LastFieldThere
  <2> HIDE DEF value
  <2>2. i \in 1 .. Len(lines) /\ read[i] = Split(lines[i], ":")
    BY <1>2, <1>3, <1>4
  <2>3. LineOK(lines[i])
    BY <1>1, <2>2 DEF OKLines
  <2>4. value \in Asks
    BY <2>1, <2>2, <2>3, Zenon DEF LineOK
  <2>5. i \in DOMAIN header /\ header[i].name = <<"transport">>
    BY <1>2, <1>3, <1>4, <2>1, <2>2
  <2> QED BY <2>4, <2>5 DEF FieldExists
<1>7. LastField(read, "range") \in Text
  <2> DEFINE v == LastField(read, "range")
  <2>1. v # <<>> => \E i \in 1 .. Len(read) : v = read[i].value
    BY <1>3, LastFieldThere
  <2> HIDE DEF v
  <2>2. \A i \in 1 .. Len(read) : read[i] \in Fields
    BY <1>3, ElementOfSeq
  <2>3. v \in Text
    BY <1>5, <2>1, <2>2, ValueIsText
  <2> QED BY <2>3 DEF v
<1>8. LastField(header, "cseq") \in Text
  <2> DEFINE v == LastField(header, "cseq")
  <2>1. v # <<>> => \E i \in 1 .. Len(header) : v = header[i].value
    BY <1>2, LastFieldThere
  <2> HIDE DEF v
  <2>2. v \in Text
    BY <1>4, <1>5, <2>1, ValueIsText
  <2> QED BY <2>2 DEF v
<1> QED BY <1>2, <1>6, <1>7, <1>8 DEF value, read, header

LEMMA AtoiOfValue ==
  ASSUME NEW s \in Text, NEW stop
  PROVE  Atoi(Value(s, stop)) \in Nat
<1> DEFINE a == SkipBlanks(s)
           b == After(a, {stop})
           c == SkipBlanks(b)
<1>1. a \in Seq(Token)
  BY PiecesAreTexts DEF Text
<1> HIDE DEF a
<1>2. b \in Seq(Token)
  BY <1>1, PiecesAreTexts
<1> HIDE DEF b
<1>3. c \in Seq(Token)
  BY <1>2, PiecesAreTexts
<1> HIDE DEF c
<1>4. Before(c, {CRLF}) \in Text
  BY <1>3, PiecesAreTexts DEF Text
<1>5. Value(s, stop) \in Text
  BY <1>4 DEF Value, a, b, c
<1> QED BY <1>5, AtoiIsNat

SameSession(s, t) ==
  /\ s.status = t.status /\ s.session_id = t.session_id /\ s.server_rtp_port = t.server_rtp_port

SameTransport(s, t) ==
  /\ s.protocol_type = t.protocol_type /\ s.protocol_method = t.protocol_method
  /\ s.client_rtp_port = t.client_rtp_port /\ s.client_rtcp_port = t.client_rtcp_port

(* A Range line changes the range.                                         *)
LEMMA RangeIsRead ==
  ASSUME NEW s \in ServerType, NEW value \in Text
  PROVE  LET t == ReadRange(s, value)
         IN t \in ServerType /\ SameSession(s, t) /\ SameTransport(s, t)
<1> DEFINE start == Atoi(Value(value, "="))
           end == Atoi(Value(value, "-"))
           last == IF Last(value) = "-" THEN -1 ELSE end
<1>1. start \in Nat /\ end \in Nat
  BY AtoiOfValue
<1> HIDE DEF start, end
<1>2. last \in Int
  BY <1>1
<1> HIDE DEF last
<1>3. ASSUME NEW t \in {s, [s EXCEPT !.range_start = start, !.range_end = last],
                        [s EXCEPT !.range_end = start]}
      PROVE  t \in ServerType /\ SameSession(s, t) /\ SameTransport(s, t)
  <2>1. CASE t = s
    BY <2>1 DEF SameSession, SameTransport
  <2>2. CASE t = [s EXCEPT !.range_start = start, !.range_end = last]
    <3>1. t \in ServerType
      BY <1>1, <1>2, <2>2 DEF ServerType
    <3>2. SameSession(s, t) /\ SameTransport(s, t)
      BY <2>2 DEF ServerType, SameSession, SameTransport
    <3> QED BY <3>1, <3>2
  <2>3. CASE t = [s EXCEPT !.range_end = start]
    <3>1. t \in ServerType
      BY <1>1, <2>3 DEF ServerType
    <3>2. SameSession(s, t) /\ SameTransport(s, t)
      BY <2>3 DEF ServerType, SameSession, SameTransport
    <3> QED BY <3>1, <3>2
  <2> QED BY <1>3, <2>1, <2>2, <2>3
<1>4. ReadRange(s, value) \in {s, [s EXCEPT !.range_start = start, !.range_end = last],
                                  [s EXCEPT !.range_end = start]}
  BY Zenon DEF ReadRange, start, end, last
<1> QED BY <1>3, <1>4

(* A Transport line sets the transport to what the client has, or to none. *)
LEMMA TransportIsSet ==
  ASSUME port \in Nat, NEW s \in ServerType, NEW value \in Asks
  PROVE  LET t == ReadTransport(s, value)
         IN /\ t \in ServerType /\ TransportKnown(t) /\ SameSession(s, t)
            /\ t.protocol_type = IF value = Udp THEN PROTOCOL_TYPE
                                 ELSE IF value = Tcp THEN <<"rtp/tcp">> ELSE <<>>
<1>1. ASSUME NEW type \in {<<>>, PROTOCOL_TYPE, <<"rtp/tcp">>}, NEW method \in {<<>>, Compressed},
             NEW n \in Nat,
             Part(value, ";", 1) = type, Part(value, ";", 2) = method, RtpPort(value) = n
      PROVE  LET t == ReadTransport(s, value)
             IN /\ t \in ServerType /\ SameSession(s, t)
                /\ t.protocol_type = type /\ t.protocol_method = method
                /\ t.client_rtp_port = n /\ t.client_rtcp_port = n + 1
  <2>1. ReadTransport(s, value) =
          [s EXCEPT !.protocol_type = type, !.protocol_method = method,
                    !.client_rtp_port = n, !.client_rtcp_port = n + 1]
    BY <1>1 DEF ReadTransport
  <2> DEFINE t == ReadTransport(s, value)
  <2>2. t \in ServerType
    <3>1. n + 1 \in Nat
      OBVIOUS
    <3> HIDE DEF t
    <3> QED BY <2>1, <3>1 DEF ServerType, t
  <2>3. /\ t.protocol_type = type /\ t.protocol_method = method
        /\ t.client_rtp_port = n /\ t.client_rtcp_port = n + 1
    BY <2>1 DEF ServerType
  <2>4. SameSession(s, t)
    BY <2>1 DEF ServerType, SameSession
  <2> QED BY <2>2, <2>3, <2>4
<1>2. \A p \in {"RTP/UDP", "RTP/TCP"} : p \in OpeningWord
  BY Zenon DEF OpeningWord
<1>3. /\ Part(Udp, ";", 1) = PROTOCOL_TYPE /\ Part(Udp, ";", 2) = Compressed
      /\ RtpPort(Udp) = port /\ Udp # <<>>
  BY <1>2, TransportIsRead, WordsLowered DEF Udp, PROTOCOL_TYPE, Compressed, Plain
<1>4. /\ Part(Tcp, ";", 1) = <<"rtp/tcp">> /\ Part(Tcp, ";", 2) = Compressed
      /\ RtpPort(Tcp) = port /\ Tcp # <<>>
  BY <1>2, TransportIsRead, WordsLowered DEF Tcp, Compressed, Plain
<1>5. PROTOCOL_TYPE # <<"rtp/tcp">>
  BY DEF PROTOCOL_TYPE
<1>6. Udp # Tcp
  BY <1>3, <1>4, <1>5
<1>7. CASE value = Udp
  <2>1. LET t == ReadTransport(s, value)
        IN /\ t \in ServerType /\ SameSession(s, t)
           /\ t.protocol_type = PROTOCOL_TYPE /\ t.protocol_method = Compressed
           /\ t.client_rtp_port = port /\ t.client_rtcp_port = port + 1
    BY <1>1, <1>3, <1>7
  <2> QED BY <1>7, <2>1 DEF TransportKnown, Asked
<1>8. CASE value = Tcp
  <2>1. LET t == ReadTransport(s, value)
        IN /\ t \in ServerType /\ SameSession(s, t)
           /\ t.protocol_type = <<"rtp/tcp">> /\ t.protocol_method = Compressed
           /\ t.client_rtp_port = port /\ t.client_rtcp_port = port + 1
    BY <1>1, <1>4, <1>8
  <2> QED BY <1>6, <1>8, <2>1 DEF TransportKnown, Asked
<1>9. CASE value = <<>>
  <2>1. Part(value, ";", 1) = <<>> /\ Part(value, ";", 2) = <<>> /\ RtpPort(value) = 0
    BY <1>9, NothingRead DEF RtpPort
  <2>2. LET t == ReadTransport(s, value)
        IN /\ t \in ServerType /\ SameSession(s, t)
           /\ t.protocol_type = <<>> /\ t.protocol_method = <<>> /\ t.client_rtp_port = 0
    <3> DEFINE nothing == <<>>
               zero == 0
    <3>1. /\ nothing \in {<<>>, PROTOCOL_TYPE, <<"rtp/tcp">>} /\ nothing \in {<<>>, Compressed}
          /\ zero \in Nat
      OBVIOUS
    <3>2. Part(value, ";", 1) = nothing /\ Part(value, ";", 2) = nothing /\ RtpPort(value) = zero
      BY <2>1
    <3> HIDE DEF nothing, zero
    <3>3. LET t == ReadTransport(s, value)
          IN /\ t \in ServerType /\ SameSession(s, t)
             /\ t.protocol_type = nothing /\ t.protocol_method = nothing
             /\ t.client_rtp_port = zero
      BY <1>1, <3>1, <3>2
    <3> QED BY <3>3 DEF nothing, zero
  <2> QED BY <1>3, <1>4, <1>9, <2>2 DEF TransportKnown
<1> QED BY <1>7, <1>8, <1>9 DEF Asks

(* What getRTSPInfo makes of the server's variables.                       *)
LEMMA InfoIsRead ==
  ASSUME port \in Nat, server \in ServerType, TransportKnown(server),
         NEW lines \in Seq(OKLines), NEW session \in SessionId \cup {0}
  PROVE  LET info == GetRTSPInfo(Parsed(lines), session)
             s == info.server
         IN /\ info.cseq \in Nat
            /\ s \in ServerType /\ TransportKnown(s)
            /\ s.status = server.status /\ s.session_id = session
            /\ s.server_rtp_port = server.server_rtp_port
            /\ ~ FieldExists(Parsed(lines), "transport") => SameTransport(server, s)
<1> DEFINE header == Parsed(lines)
           read == FieldsRead(header, session)
           there == FieldExists(read, "transport")
           value == LastField(read, "transport")
           range == LastField(read, "range")
           r == [server EXCEPT !.session_id = session]
           t == IF there THEN ReadTransport(r, value) ELSE r
           s == IF FieldExists(read, "range") THEN ReadRange(t, range) ELSE t
           info == GetRTSPInfo(header, session)
<1>1. /\ there => value \in Asks /\ FieldExists(header, "transport")
      /\ range \in Text /\ LastField(header, "cseq") \in Text
  BY TransportAsked
<1>2. info.server = s /\ info.cseq = CseqNumber(header, session)
  BY Zenon DEF GetRTSPInfo, ReadFields
<1>3. info.cseq \in Nat
  <2> HIDE DEF header
  <2>1. Atoi(LastField(header, "cseq")) \in Nat
    BY <1>1, AtoiIsNat
  <2> QED BY <1>2, <2>1 DEF CseqNumber
<1>4. /\ r \in ServerType /\ r.session_id = session /\ r.status = server.status
      /\ r.server_rtp_port = server.server_rtp_port /\ SameTransport(server, r)
  BY DEF ServerType, SameTransport
<1>5. TransportKnown(r)
  BY <1>4 DEF TransportKnown, Asked, SameTransport
<1> HIDE DEF info, r, value, range, there
<1>6. /\ t \in ServerType /\ TransportKnown(t) /\ SameSession(r, t)
      /\ ~ FieldExists(header, "transport") => SameTransport(r, t)
  <2>1. CASE there
    BY <1>1, <1>4, <2>1, TransportIsSet
  <2>2. CASE ~ there
    BY <1>4, <1>5, <2>2 DEF SameSession, SameTransport
  <2> QED BY <2>1, <2>2
<1> HIDE DEF t
<1>7. s \in ServerType /\ SameSession(t, s) /\ SameTransport(t, s)
  <2>1. SameSession(t, t) /\ SameTransport(t, t)
    BY DEF SameSession, SameTransport
  <2> QED BY <1>1, <1>6, <2>1, RangeIsRead
<1> HIDE DEF s
<1>8. TransportKnown(s)
  BY <1>6, <1>7 DEF TransportKnown, Asked, SameTransport
<1>9. /\ s.status = server.status /\ s.session_id = session
      /\ s.server_rtp_port = server.server_rtp_port
  BY <1>4, <1>6, <1>7 DEF SameSession
<1>10. ~ FieldExists(header, "transport") => SameTransport(server, s)
  BY <1>4, <1>6, <1>7 DEF SameTransport
<1> QED BY <1>2, <1>3, <1>7, <1>8, <1>9, <1>10 DEF info, header

------------------------------------------------------------------------------
(* The requests.                                                           *)

LEMMA DecimalIsText == \A n \in Nat : Decimal[n] \in Text
<1>1. DigitToken \subseteq Token
  BY DEF Token
<1> QED BY <1>1, DecimalDef, SeqMonotonic DEF Text

LEMMA WordsAreTokens ==
  /\ \A w \in {"npt", "=", "-", "Networks", ":", "client", "yesterday", "1", "3", "0", "7", "9",
               "rfc1123", "rfc850", "asctime", "Sunday"} : w \in Token
  /\ Blank1 \in Token
  /\ \A d \in DOMAIN DayLength : d \in Token
<1>1. \A w \in {"npt", "=", "-", "Networks", ":", "client", "yesterday",
                "rfc1123", "rfc850", "asctime"} : w \in Word
  BY ZenonT(60) DEF Word
<1>2. \A w \in {"1", "3", "0", "7", "9"} : w \in DigitToken
  <2>1. Digit[2] = "1" /\ Digit[4] = "3" /\ Digit[1] = "0" /\ Digit[8] = "7" /\ Digit[10] = "9"
    BY DEF Digit
  <2>2. /\ Digit[2] \in DigitToken /\ Digit[4] \in DigitToken /\ Digit[1] \in DigitToken
        /\ Digit[8] \in DigitToken /\ Digit[10] \in DigitToken
    BY DEF Digit, DigitToken, ToSet
  <2> QED BY <2>1, <2>2
<1>3. "Sunday" \in DOMAIN DayLength
  BY DEF DayLength
<1>4. Blank1 \in Token
  BY WordsInner DEF Inner
<1> QED BY <1>1, <1>2, <1>3, <1>4, Zenon DEF Token

LEMMA ReversedLines ==
  ASSUME NEW S, NEW s \in Seq(S)
  PROVE  Reverse(s) \in Seq(S)
<1>1. Len(s) \in Nat /\ \A i \in 1 .. Len(s) : s[i] \in S
  BY LenProperties, ElementOfSeq
<1>2. \A i \in 1 .. Len(s) : Len(s) - i + 1 \in 1 .. Len(s)
  BY <1>1
<1> QED BY <1>1, <1>2 DEF Reverse

(* The lines of the three callbacks.                                       *)
LEMMA ClientLines ==
  ASSUME port \in Nat, client.session_id \in Nat, NEW m, NEW cseq \in Nat
  PROVE  Lines(m, cseq) \in Seq(OKLines)
<1> DEFINE a == Line("CSeq", Decimal[cseq])
           b == Line("Session", Decimal[client.session_id])
           t == Line("Transport", Udp)
<1>1. \A n \in {"CSeq", "Session", "User-Agent"} : n \in OtherName
  BY Zenon DEF OtherName
<1>2. a \in OKLines /\ b \in OKLines
  BY <1>1, DecimalIsText, OtherLine
<1>3. t \in OKLines
  BY TransportLine DEF Asks
<1>4. UserAgent \in OKLines
  <2> DEFINE x1 == "Networks"
             x2 == ":"
             x4 == "client"
             v == <<x1, x2, Blank1, x4>>
  <2>1. x1 \in Token /\ x2 \in Token /\ x4 \in Token /\ Blank1 \in Token
    BY WordsAreTokens
  <2>2. UserAgent = Line("User-Agent", v)
    BY Zenon DEF UserAgent, Blank1
  <2> HIDE DEF x1, x2, x4
  <2>3. v \in Text
    BY <2>1 DEF Text
  <2> HIDE DEF v
  <2> QED BY <1>1, <2>2, <2>3, OtherLine
<1>5. Lines(m, cseq) = <<a, IF m = "SETUP" THEN t ELSE b, UserAgent>>
  BY Zenon DEF Lines, Udp
<1> HIDE DEF a, b, t
<1> QED BY <1>2, <1>3, <1>4, <1>5

LEMMA RangeLines ==
  ASSUME NEW r \in Ranges
  PROVE  Line("Range", r) \in OKLines
<1>1. "Range" \in OtherName
  BY Zenon DEF OtherName
<1>2. \A w \in {"npt", "=", "-", "3", "0", "7"} : w \in Token
  BY WordsAreTokens
<1>3. <<"npt", "=", "3">> \in Text
  BY <1>2 DEF Text
<1>4. <<"npt", "=", "3", "-">> \in Text
  BY <1>2 DEF Text
<1>5. <<"npt", "=", "0", "-", "7">> \in Text
  BY <1>2 DEF Text
<1>6. r \in Text
  BY <1>3, <1>4, <1>5, Zenon DEF Ranges
<1> QED BY <1>1, <1>6, OtherLine

LEMMA ModifiedLines ==
  ASSUME NEW i \in 1 .. 3, NEW d \in DOMAIN DayLength
  PROVE  Line("If-Modified-Since", <<Formats[i], d>>) \in OKLines
<1>1. "If-Modified-Since" \in OtherName
  BY Zenon DEF OtherName
<1>2. Formats[i] \in {"rfc1123", "rfc850", "asctime"}
  BY DEF Formats
<1>3. Formats[i] \in Token /\ d \in Token
  BY <1>2, WordsAreTokens
<1>4. <<Formats[i], d>> \in Text
  BY <1>3 DEF Text
<1> QED BY <1>1, <1>4, OtherLine

(* The defects, one by one.                                                *)
LEMMA DefectIs ==
  ASSUME NEW d \in Defects
  PROVE  LET cseq == Line("CSeq", <<"1">>)
             session == Line("Session", Decimal[client.session_id])
             other == Line("Session", <<"9", "9">>)
             transport == Line("Transport", Udp)
             tcp == Line("Transport", Tcp)
             none == Line("Transport", <<>>)
             malformed == <<"CSeq", " ", "1", CRLF>>
             yesterday == Line("CSeq", <<"yesterday">>)
             range == Line("Range", <<"npt", "=", "-">>)
             modified == Line("If-Modified-Since", <<"yesterday">>)
         IN \/ /\ d.method = "SETUP" /\ d.url = Url
               /\ d.lines \in {<<transport>>, <<cseq>>, <<cseq, tcp>>, <<none, cseq>>,
                              <<transport, cseq, other>>, <<transport, malformed>>,
                              <<yesterday, transport>>}
            \/ /\ d.method \in {"PLAY", "TEARDOWN"} /\ d.url = Url
               /\ d.lines \in {<<session>>, <<cseq>>, <<cseq, other>>, <<other, cseq, cseq>>,
                              <<cseq, session, tcp>>, <<none, cseq, session>>,
                              <<tcp, cseq, other>>, <<cseq, session, range>>,
                              <<cseq, session, modified>>}
            \/ /\ d.method \in {"SETUP", "PLAY", "TEARDOWN"} /\ d.url = Append(Url, "x")
               /\ d.lines = <<cseq, session, transport>>
            \/ d.method = "OPTIONS" /\ d.url = Url /\ d.lines = <<cseq, session>>
            \/ /\ server.status = "INIT" /\ d.method = "PLAY" /\ d.url = Url
               /\ d.lines = <<cseq, session>>
            \/ /\ server.status # "INIT" /\ d.method = "SETUP" /\ d.url = Url
               /\ d.lines \in {<<cseq, transport>>, <<cseq, tcp>>}
<1> DEFINE cseq == Line("CSeq", <<"1">>)
           session == Line("Session", Decimal[client.session_id])
           other == Line("Session", <<"9", "9">>)
           transport == Line("Transport", Udp)
           tcp == Line("Transport", Tcp)
           none == Line("Transport", <<>>)
           malformed == <<"CSeq", " ", "1", CRLF>>
           yesterday == Line("CSeq", <<"yesterday">>)
           range == Line("Range", <<"npt", "=", "-">>)
           modified == Line("If-Modified-Since", <<"yesterday">>)
<1>1. \/ d \in [method : {"SETUP"}, url : {Url},
                lines : {<<transport>>, <<cseq>>, <<cseq, tcp>>, <<none, cseq>>,
                         <<transport, cseq, other>>, <<transport, malformed>>,
                         <<yesterday, transport>>}]
      \/ d \in [method : {"PLAY", "TEARDOWN"}, url : {Url},
                lines : {<<session>>, <<cseq>>, <<cseq, other>>, <<other, cseq, cseq>>,
                         <<cseq, session, tcp>>, <<none, cseq, session>>, <<tcp, cseq, other>>,
                         <<cseq, session, range>>, <<cseq, session, modified>>}]
      \/ d \in [method : {"SETUP", "PLAY", "TEARDOWN"}, url : {Append(Url, "x")},
                lines : {<<cseq, session, transport>>}]
      \/ d \in [method : {"OPTIONS"}, url : {Url}, lines : {<<cseq, session>>}]
      \/ /\ server.status = "INIT"
         /\ d \in [method : {"PLAY"}, url : {Url}, lines : {<<cseq, session>>}]
      \/ /\ server.status # "INIT"
         /\ d \in [method : {"SETUP"}, url : {Url}, lines : {<<cseq, transport>>, <<cseq, tcp>>}]
  BY Zenon DEF Defects, Udp, Tcp
<1> HIDE DEF cseq, session, other, transport, tcp, none, malformed, yesterday, range, modified
<1>2. \/ /\ d.method = "SETUP" /\ d.url = Url
         /\ d.lines \in {<<transport>>, <<cseq>>, <<cseq, tcp>>, <<none, cseq>>,
                        <<transport, cseq, other>>, <<transport, malformed>>,
                        <<yesterday, transport>>}
      \/ /\ d.method \in {"PLAY", "TEARDOWN"} /\ d.url = Url
         /\ d.lines \in {<<session>>, <<cseq>>, <<cseq, other>>, <<other, cseq, cseq>>,
                        <<cseq, session, tcp>>, <<none, cseq, session>>, <<tcp, cseq, other>>,
                        <<cseq, session, range>>, <<cseq, session, modified>>}
      \/ /\ d.method \in {"SETUP", "PLAY", "TEARDOWN"} /\ d.url = Append(Url, "x")
         /\ d.lines = <<cseq, session, transport>>
      \/ d.method = "OPTIONS" /\ d.url = Url /\ d.lines = <<cseq, session>>
      \/ /\ server.status = "INIT" /\ d.method = "PLAY" /\ d.url = Url
         /\ d.lines = <<cseq, session>>
      \/ /\ server.status # "INIT" /\ d.method = "SETUP" /\ d.url = Url
         /\ d.lines \in {<<cseq, transport>>, <<cseq, tcp>>}
  BY <1>1
<1> QED BY <1>2 DEF cseq, session, other, transport, tcp, none, malformed, yesterday, range, modified

LEMMA DefectLines ==
  ASSUME port \in Nat, client.session_id \in Nat, NEW d \in Defects
  PROVE  d.lines \in Seq(OKLines)
<1> DEFINE cseq == Line("CSeq", <<"1">>)
           session == Line("Session", Decimal[client.session_id])
           other == Line("Session", <<"9", "9">>)
           transport == Line("Transport", Udp)
           tcp == Line("Transport", Tcp)
           none == Line("Transport", <<>>)
           malformed == <<"CSeq", " ", "1", CRLF>>
           yesterday == Line("CSeq", <<"yesterday">>)
           range == Line("Range", <<"npt", "=", "-">>)
           modified == Line("If-Modified-Since", <<"yesterday">>)
           S == OKLines
<1>1. \A n \in {"CSeq", "Session", "Range", "If-Modified-Since"} : n \in OtherName
  BY Zenon DEF OtherName
<1>2. /\ <<"1">> \in Text /\ <<"9", "9">> \in Text /\ <<"npt", "=", "-">> \in Text
      /\ <<"yesterday">> \in Text
  BY WordsAreTokens DEF Text
<1>3. transport \in S /\ tcp \in S /\ none \in S
  BY TransportLine DEF Asks
<1>4. malformed \in S
  BY MalformedLine, Zenon
<1>5. session \in S
  BY <1>1, DecimalIsText, OtherLine
<1>6. cseq \in S /\ other \in S /\ yesterday \in S
  BY <1>1, <1>2, OtherLine
<1>7. range \in S /\ modified \in S
  BY <1>1, <1>2, OtherLine
<1>8. d.lines \in {<<transport>>, <<cseq>>, <<cseq, tcp>>, <<none, cseq>>,
                  <<transport, cseq, other>>, <<transport, malformed>>, <<yesterday, transport>>,
                  <<session>>, <<cseq, other>>, <<other, cseq, cseq>>, <<cseq, session, tcp>>,
                  <<none, cseq, session>>, <<tcp, cseq, other>>, <<cseq, session, range>>,
                  <<cseq, session, modified>>, <<cseq, session, transport>>, <<cseq, session>>,
                  <<cseq, transport>>}
  BY DefectIs, Zenon
<1> HIDE DEF cseq, session, other, transport, tcp, none, malformed, yesterday, range, modified, S
<1>9. \A x, y, z \in S : <<x>> \in Seq(S) /\ <<x, y>> \in Seq(S) /\ <<x, y, z>> \in Seq(S)
  OBVIOUS
<1>10. \A l \in {<<transport>>, <<cseq>>, <<session>>} : l \in Seq(S)
  BY <1>3, <1>5, <1>6, <1>9, Zenon
<1>11. \A l \in {<<cseq, tcp>>, <<none, cseq>>, <<transport, malformed>>, <<yesterday, transport>>,
                 <<cseq, other>>, <<cseq, session>>, <<cseq, transport>>} : l \in Seq(S)
  BY <1>3, <1>4, <1>5, <1>6, <1>9, Zenon
<1>12. \A l \in {<<transport, cseq, other>>, <<other, cseq, cseq>>, <<cseq, session, tcp>>,
                 <<none, cseq, session>>, <<tcp, cseq, other>>, <<cseq, session, range>>,
                 <<cseq, session, modified>>, <<cseq, session, transport>>} : l \in Seq(S)
  <2>1. <<transport, cseq, other>> \in Seq(S) /\ <<other, cseq, cseq>> \in Seq(S)
    BY <1>3, <1>6
  <2>2. <<cseq, session, tcp>> \in Seq(S) /\ <<none, cseq, session>> \in Seq(S)
    BY <1>3, <1>5, <1>6
  <2>3. <<tcp, cseq, other>> \in Seq(S) /\ <<cseq, session, transport>> \in Seq(S)
    BY <1>3, <1>5, <1>6
  <2>4. <<cseq, session, range>> \in Seq(S) /\ <<cseq, session, modified>> \in Seq(S)
    BY <1>5, <1>6, <1>7
  <2> QED BY <2>1, <2>2, <2>3, <2>4, Zenon
<1>13. d.lines \in Seq(S)
  BY <1>8, <1>10, <1>11, <1>12, Zenon
<1> QED BY <1>13 DEF S

(* The only field of a name is found.                                      *)
LEMMA OnlyField ==
  ASSUME NEW header \in Seq(Fields), NEW name, NEW k \in 1 .. Len(header),
         header[k].name = <<name>>, \A i \in 1 .. Len(header) : header[i].name = <<name>> => i = k
  PROVE  FieldExists(header, name) /\ Field(header, name) = header[k].value
<1>1. DOMAIN header = 1 .. Len(header)
  BY LenProperties
<1>2. FieldExists(header, name)
  BY <1>1 DEF FieldExists
<1> QED BY <1>2, FieldThere

(* The names of the lines in an answer.                                    *)
LEMMA AnswerNames ==
  ASSUME NEW v \in Text
  PROVE  /\ \A n \in {"Cseq", "Session", "Transport", "Server", "Last-Modified", "Content-Type"} :
              Line(n, v) \in Text /\ Line(n, v) # <<CRLF>>
         /\ Split(Line("Cseq", v), ":").name = <<"cseq">>
         /\ Split(Line("Session", v), ":").name = <<"session">>
         /\ Split(Line("Transport", v), ":").name = <<"transport">>
         /\ Split(Line("Server", v), ":").name = <<"Server">>
         /\ Split(Line("Last-Modified", v), ":").name = <<"Last-Modified">>
         /\ Split(Line("Content-Type", v), ":").name = <<"Content-Type">>
         /\ Plain(v) => /\ Split(Line("Session", v), ":").value = v
                        /\ Split(Line("Transport", v), ":").value = v
<1> DEFINE Names == {"Cseq", "Session", "Transport", "Server", "Last-Modified", "Content-Type"}
<1>1. \A n \in Names : n \in OpeningWord
  BY Zenon DEF OpeningWord
<1>2. ASSUME NEW n \in Names
      PROVE  /\ Line(n, v) \in Text /\ Line(n, v) # <<CRLF>>
             /\ Split(Line(n, v), ":").name = <<LowerWord(n)>>
             /\ Plain(v) => Split(Line(n, v), ":").value = v
  <2>1. n \in Opening /\ n # ":"
    BY <1>1, WordsOpen
  <2> HIDE DEF Names
  <2>2. ASSUME Plain(v)
        PROVE  Split(Line(n, v), ":").value = v
    BY <2>1, <2>2, LineIsSplit
  <2> QED BY <2>1, <2>2, NameOfLine
<1>3. /\ "Cseq" \in Names /\ "Session" \in Names /\ "Transport" \in Names /\ "Server" \in Names
      /\ "Last-Modified" \in Names /\ "Content-Type" \in Names
  OBVIOUS
<1>4. /\ LowerWord("Cseq") = "cseq" /\ LowerWord("Session") = "session"
      /\ LowerWord("Transport") = "transport"
  <2>1. LowerWord("Cseq") = "cseq"
    BY Zenon DEF LowerWord
  <2>2. LowerWord("Session") = "session"
    BY Zenon DEF LowerWord
  <2>3. LowerWord("Transport") = "transport"
    BY Zenon DEF LowerWord
  <2> QED BY <2>1, <2>2, <2>3
<1>5. /\ LowerWord("Server") = "Server" /\ LowerWord("Last-Modified") = "Last-Modified"
      /\ LowerWord("Content-Type") = "Content-Type"
  <2>1. "Server" \notin Capital /\ "Last-Modified" \notin Capital /\ "Content-Type" \notin Capital
    BY Zenon DEF Capital
  <2> QED BY <2>1, SmallStays
<1>6. \A n \in Names : Line(n, v) \in Text /\ Line(n, v) # <<CRLF>>
  BY <1>2
<1> HIDE DEF Names
<1>7. /\ Split(Line("Cseq", v), ":").name = <<"cseq">>
      /\ Split(Line("Session", v), ":").name = <<"session">>
      /\ Split(Line("Transport", v), ":").name = <<"transport">>
      /\ Split(Line("Server", v), ":").name = <<"Server">>
      /\ Split(Line("Last-Modified", v), ":").name = <<"Last-Modified">>
      /\ Split(Line("Content-Type", v), ":").name = <<"Content-Type">>
  BY <1>2, <1>3, <1>4, <1>5
<1>8. Plain(v) => /\ Split(Line("Session", v), ":").value = v
                  /\ Split(Line("Transport", v), ":").value = v
  BY <1>2, <1>3
<1> QED BY <1>6, <1>7, <1>8 DEF Names

LEMMA DecimalIsPlain ==
  ASSUME NEW n \in Nat
  PROVE  Decimal[n] \in Text /\ Plain(Decimal[n]) /\ Atoi(Decimal[n]) = n
<1> DEFINE d == Decimal[n]
           none == <<>>
<1>1. d \in Seq(DigitToken) /\ d # <<>>
  BY DecimalDef, DecimalNotEmpty
<1>2. d \in Text
  BY DecimalIsText
<1>3. d \o none = d /\ none = <<>> /\ none \in Seq(Token)
  BY <1>1, EmptySeq, ConcatEmptySeq
<1> HIDE DEF none
<1>4. Atoi(d \o none) = n
  BY <1>3, AtoiOfDecimal
<1> HIDE DEF d
<1>5. \A i \in 1 .. Len(d) : d[i] \in Opening
  BY <1>1, ElementOfSeq, DigitsOpen
<1>6. 1 \in 1 .. Len(d)
  <2>1. Len(d) \in Nat \ {0}
    BY <1>1, EmptySeq
  <2> QED BY <2>1
<1>7. Plain(d)
  BY <1>1, <1>5, <1>6 DEF Plain, Opening, Inner
<1> QED BY <1>2, <1>3, <1>4, <1>7 DEF d

(* What the client finds in an answer.                                     *)
LEMMA HeaderIsRead ==
  ASSUME NEW first \in Text, NEW lines \in Seq(Text), NEW rest \in Seq(Text),
         \A i \in 1 .. Len(lines) : lines[i] # <<CRLF>>
  PROVE  /\ HeaderOf(<<first>> \o lines) = Parsed(lines)
         /\ HeaderOf(<<first>> \o (lines \o Cons(<<CRLF>>, rest))) = Parsed(lines)
<1> DEFINE blank == <<CRLF>>
           Stop == {blank}
<1>1. blank \in Text
  BY WordsInner DEF Text
<1>2. blank \in Stop /\ \A i \in 1 .. Len(lines) : lines[i] \notin Stop
  OBVIOUS
<1>3. ASSUME NEW s \in Seq(Text)
      PROVE  HeaderOf(<<first>> \o s) = Parsed(Before(s, Stop))
  <2>1. Tail(<<first>> \o s) = s
    OBVIOUS
  <2> QED BY <2>1 DEF HeaderOf
<1> HIDE DEF blank, Stop
<1>4. Before(lines, Stop) = lines
  BY <1>2, NeverCut
<1> DEFINE t == lines \o Cons(blank, rest)
<1>5. Before(t, Stop) = lines
  BY <1>1, <1>2, CutAt
<1>6. t \in Seq(Text)
  <2> DEFINE r == Cons(blank, rest)
  <2>1. r \in Seq(Text)
    BY <1>1, OneBefore
  <2> HIDE DEF r
  <2> QED BY <2>1, ConcatProperties DEF r
<1> HIDE DEF t
<1>7. HeaderOf(<<first>> \o t) = Parsed(lines)
  BY <1>3, <1>5, <1>6
<1> QED BY <1>3, <1>4, <1>7 DEF t, blank

LEMMA SessionsAreNumbers == /\ \A i \in SessionId \cup {0} : i \in Nat
                            /\ 0 \notin SessionId
<1>1. BASIC_NUMBER \in Nat /\ BASIC_NUMBER > 0
  BY SMTT(30) DEF BASIC_NUMBER
<1>2. \A i \in RandomNumbers : i \in Nat /\ i # 0
  BY <1>1, SMTT(30) DEF RandomNumbers
<1> QED BY <1>2, DialogueAssumption

LEMMA NotEmpty ==
  ASSUME NEW S, NEW x, NEW t \in Seq(S)
  PROVE  <<x>> \o t # <<>>
<1>1. Len(t) \in Nat
  BY LenProperties
<1>2. (<<x>> \o t) \in Seq({x} \cup S) /\ Len(<<x>> \o t) = 1 + Len(t)
  BY <1>1
<1> QED BY <1>1, <1>2, EmptySeq

LEMMA AnswerWords ==
  ASSUME day \in DOMAIN DayLength
  PROVE  /\ <<"RTSP/1.0", " ", "200", " ", "OK", CRLF>> \in Text
         /\ <<"frame_number", "=", "2", CRLF>> \in Text /\ <<CRLF>> \in Text
         /\ <<"Networks", ":", Blank1, "server">> \in Text /\ <<"text/plain">> \in Text
         /\ ConvertTimeFormat(day, 1) \in Text
<1> DEFINE rtsp == "RTSP/1.0"
           code == "200"
           ok == "OK"
           frames == "frame_number"
           equal == "="
           two == "2"
           colon == ":"
           networks == "Networks"
           program == "server"
           plain == "text/plain"
           none == "uninitialised"
           format == "rfc1123"
<1>1. \A w \in {rtsp, code, ok, frames, equal, colon, networks, program, plain, none, format} :
        w \in Word
  BY ZenonT(60) DEF Word
<1>2. two \in DigitToken
  <2>1. Digit[3] = two /\ Digit[3] \in DigitToken
    BY DEF Digit, DigitToken, ToSet
  <2> QED BY <2>1
<1>3. /\ rtsp \in Token /\ code \in Token /\ ok \in Token /\ frames \in Token /\ equal \in Token
      /\ two \in Token /\ colon \in Token /\ networks \in Token /\ program \in Token
      /\ plain \in Token /\ none \in Token /\ format \in Token
      /\ CRLF \in Token /\ Blank1 \in Token /\ day \in Token
  BY <1>1, <1>2, WordsInner, Zenon DEF Token, Inner
<1> HIDE DEF rtsp, code, ok, frames, equal, two, colon, networks, program, plain, none, format
<1>4. <<rtsp, Blank1, code, Blank1, ok, CRLF>> \in Text
  BY <1>3 DEF Text
<1>5. <<frames, equal, two, CRLF>> \in Text /\ <<CRLF>> \in Text
  BY <1>3 DEF Text
<1>6. <<networks, colon, Blank1, program>> \in Text /\ <<plain>> \in Text
  BY <1>3 DEF Text
<1>7. <<none>> \in Text /\ <<format, day>> \in Text
  BY <1>3 DEF Text
<1>8. ConvertTimeFormat(day, 1) \in {<<none>>, <<format, day>>}
  <2>1. Formats[1] = format
    BY DEF Formats, format
  <2>2. ConvertTimeFormat(day, 1) \in {<<none>>, <<Formats[1], day>>}
    BY Zenon DEF ConvertTimeFormat, none
  <2> QED BY <2>1, <2>2
<1>9. <<"RTSP/1.0", " ", "200", " ", "OK", CRLF>> \in Text
  BY <1>4, Zenon DEF rtsp, code, ok, Blank1
<1> QED BY <1>5, <1>6, <1>7, <1>8, <1>9 DEF frames, equal, two, networks, colon, program, plain

LEMMA AnswerIsRead ==
  ASSUME day \in DOMAIN DayLength, NEW m, NEW s \in ServerType, NEW cseq \in Nat,
         s.protocol_type = PROTOCOL_TYPE, s.protocol_method = Compressed
  PROVE  LET a == Answer(m, s, cseq)
             h == HeaderOf(a)
         IN /\ a # <<>>
            /\ FieldExists(h, "session") /\ Atoi(Field(h, "session")) = s.session_id
            /\ FieldExists(h, "transport") <=> m = "SETUP"
            /\ m = "SETUP" => ServerPort(Field(h, "transport")) = SERVER_RTP_PORT
<1> DEFINE status == <<"RTSP/1.0", " ", "200", " ", "OK", CRLF>>
           text == TransportText(s.protocol_type, s.protocol_method, s.client_rtp_port, s.server_rtp_port)
           time == ConvertTimeFormat(day, 1)
           cl == Line("Cseq", Decimal[cseq])
           sl == Line("Session", Decimal[s.session_id])
           tl == Line("Transport", text)
           vl == Line("Server", <<"Networks", ":", Blank1, "server">>)
           ml == Line("Last-Modified", time)
           ct == Line("Content-Type", <<"text/plain">>)
           blank == <<CRLF>>
           fr == <<"frame_number", "=", "2", CRLF>>
           a == Answer(m, s, cseq)
           h == HeaderOf(a)
           four == <<cl, sl, vl, ml>>
           six == <<cl, sl, tl, vl, ml, ct>>
<1>1. a = <<status, cl, sl>> \o (IF m = "SETUP" THEN <<tl>> ELSE <<>>) \o <<vl, ml>>
            \o (IF m = "SETUP" THEN <<ct, blank, fr>> ELSE <<>>)
  BY Zenon DEF Answer, TransportText, Blank1
<1>2. /\ s.session_id \in Nat /\ s.client_rtp_port \in Nat
  BY SessionsAreNumbers DEF ServerType
<1>3. text = AnswerTransport(s.client_rtp_port)
  BY DEF ServerType, AnswerTransport
<1>4. text \in Text /\ Plain(text) /\ ServerPort(text) = SERVER_RTP_PORT
  BY <1>2, <1>3, AnswerTransportIsRead
<1>5. /\ status \in Text /\ fr \in Text /\ blank \in Text
      /\ <<"Networks", ":", Blank1, "server">> \in Text /\ <<"text/plain">> \in Text
      /\ time \in Text
  BY AnswerWords
<1>6. /\ Decimal[cseq] \in Text
      /\ Decimal[s.session_id] \in Text /\ Plain(Decimal[s.session_id])
      /\ Atoi(Decimal[s.session_id]) = s.session_id
  BY <1>2, DecimalIsPlain
<1>7. /\ cl \in Text /\ cl # blank /\ Split(cl, ":").name = <<"cseq">>
      /\ sl \in Text /\ sl # blank /\ Split(sl, ":").name = <<"session">>
      /\ Split(sl, ":").value = Decimal[s.session_id]
  BY <1>6, AnswerNames
<1>8. /\ tl \in Text /\ tl # blank /\ Split(tl, ":").name = <<"transport">>
      /\ Split(tl, ":").value = text
  <2> HIDE DEF text
  <2> QED BY <1>4, AnswerNames
<1>9. /\ vl \in Text /\ vl # blank /\ Split(vl, ":").name = <<"Server">>
      /\ ct \in Text /\ ct # blank /\ Split(ct, ":").name = <<"Content-Type">>
  BY <1>5, AnswerNames
<1>10. /\ ml \in Text /\ ml # blank /\ Split(ml, ":").name = <<"Last-Modified">>
  <2> HIDE DEF time
  <2> QED BY <1>5, AnswerNames
<1> HIDE DEF status, text, time, cl, sl, tl, vl, ml, ct, blank, fr, a
<1>11. \A x, y : <<x>> = <<y>> => x = y
  OBVIOUS
<1>12. CASE m = "SETUP"
  <2>1. a = <<status>> \o (six \o Cons(blank, <<fr>>))
    <3>1. Cons(blank, <<fr>>) = <<blank, fr>>
      BY OneAndOne
    <3>2. a = <<status, cl, sl>> \o <<tl>> \o <<vl, ml>> \o <<ct, blank, fr>>
      BY <1>1, <1>12, Zenon
    <3>3. <<status, cl, sl>> \o <<tl>> \o <<vl, ml>> \o <<ct, blank, fr>>
            = <<status>> \o (six \o <<blank, fr>>)
      BY SMTT(60)
    <3> QED BY <3>1, <3>2, <3>3, Zenon
  <2>2. <<fr>> \in Seq(Text) /\ six \in Seq(Text) /\ Len(six) = 6
    BY <1>5, <1>7, <1>8, <1>9, <1>10
  <2>3. /\ six[1] = cl /\ six[2] = sl /\ six[3] = tl /\ six[4] = vl /\ six[5] = ml /\ six[6] = ct
    OBVIOUS
  <2> HIDE DEF six
  <2>4. \A i \in 1 .. Len(six) : six[i] # blank
    BY <1>7, <1>8, <1>9, <1>10, <2>2, <2>3
  <2>5. h = Parsed(six)
    BY <1>5, <2>1, <2>2, <2>4, HeaderIsRead DEF blank
  <2> HIDE DEF h
  <2>6. /\ h \in Seq(Fields) /\ Len(h) = 6
        /\ h[1].name = <<"cseq">> /\ h[2].name = <<"session">> /\ h[3].name = <<"transport">>
        /\ h[4].name = <<"Server">> /\ h[5].name = <<"Last-Modified">>
        /\ h[6].name = <<"Content-Type">>
        /\ h[2].value = Decimal[s.session_id] /\ h[3].value = text
    <3>1. h \in Seq(Fields) /\ Len(h) = 6 /\ \A i \in 1 .. 6 : h[i] = Split(six[i], ":")
      BY <2>2, <2>5, ParsedLines
    <3> QED BY <1>7, <1>8, <1>9, <1>10, <2>3, <3>1
  <2>7. FieldExists(h, "session") /\ Field(h, "session") = h[2].value
    <3>1. \A i \in 1 .. Len(h) : h[i].name = <<"session">> => i = 2
      BY <1>11, <2>6
    <3>2. 2 \in 1 .. Len(h)
      BY <2>6
    <3> QED BY <2>6, <3>1, <3>2, OnlyField
  <2>8. FieldExists(h, "transport") /\ Field(h, "transport") = h[3].value
    <3>1. \A i \in 1 .. Len(h) : h[i].name = <<"transport">> => i = 3
      BY <1>11, <2>6
    <3>2. 3 \in 1 .. Len(h)
      BY <2>6
    <3> QED BY <2>6, <3>1, <3>2, OnlyField
  <2>9. a # <<>>
    <3> DEFINE t == six \o Cons(blank, <<fr>>)
    <3>1. Cons(blank, <<fr>>) \in Seq(Text)
      BY <1>5, <2>2, OneBefore
    <3> DEFINE r == Cons(blank, <<fr>>)
    <3> HIDE DEF r
    <3>2. six \o r \in Seq(Text)
      BY <2>2, <3>1, ConcatProperties DEF r
    <3> HIDE DEF t
    <3>3. <<status>> \o t # <<>>
      BY <3>2, NotEmpty DEF t, r
    <3> QED BY <2>1, <3>3 DEF t
  <2> QED BY <1>4, <1>6, <1>12, <2>6, <2>7, <2>8, <2>9 DEF h, a
<1>13. CASE m # "SETUP"
  <2>1. a = <<status>> \o four
    BY <1>1, <1>13
  <2>2. four \in Seq(Text) /\ Len(four) = 4
    BY <1>7, <1>9, <1>10
  <2>3. four[1] = cl /\ four[2] = sl /\ four[3] = vl /\ four[4] = ml
    OBVIOUS
  <2> HIDE DEF four
  <2>4. \A i \in 1 .. Len(four) : four[i] # blank
    BY <1>7, <1>9, <1>10, <2>2, <2>3
  <2>5. h = Parsed(four)
    BY <1>5, <2>1, <2>2, <2>4, HeaderIsRead DEF blank
  <2> HIDE DEF h
  <2>6. /\ h \in Seq(Fields) /\ Len(h) = 4
        /\ h[1].name = <<"cseq">> /\ h[2].name = <<"session">>
        /\ h[3].name = <<"Server">> /\ h[4].name = <<"Last-Modified">>
        /\ h[2].value = Decimal[s.session_id]
    <3>1. h \in Seq(Fields) /\ Len(h) = 4 /\ \A i \in 1 .. 4 : h[i] = Split(four[i], ":")
      BY <2>2, <2>5, ParsedLines
    <3> QED BY <1>7, <1>9, <1>10, <2>3, <3>1
  <2>7. FieldExists(h, "session") /\ Field(h, "session") = h[2].value
    <3>1. \A i \in 1 .. Len(h) : h[i].name = <<"session">> => i = 2
      BY <1>11, <2>6
    <3>2. 2 \in 1 .. Len(h)
      BY <2>6
    <3> QED BY <2>6, <3>1, <3>2, OnlyField
  <2>8. ~ FieldExists(h, "transport")
    <3>1. \A i \in 1 .. Len(h) : h[i].name # <<"transport">>
      BY <1>11, <2>6
    <3>2. DOMAIN h = 1 .. Len(h)
      BY <2>6, LenProperties
    <3> QED BY <3>1, <3>2 DEF FieldExists
  <2>9. a # <<>>
    BY <2>1, <2>2, NotEmpty
  <2> QED BY <1>6, <1>13, <2>6, <2>7, <2>8, <2>9 DEF h, a
<1> QED BY <1>12, <1>13

------------------------------------------------------------------------------
(* The inductive invariant.                                                *)

Methods == {"SETUP", "PLAY", "TEARDOWN"}

ClientType ==
  [status : {"INIT", "READY", "PLAYING"}, session_id : SessionId \cup {0},
   cseq_number : 0 .. MaxCseq, server_rtp_port : {0, SERVER_RTP_PORT}]

Types ==
  /\ <<port, video, day>> \in Cases
  /\ client \in ClientType
  /\ server \in ServerType
  /\ turn \in {"send", "serve", "receive"}

(* An open session has an id.                                              *)
Open(s) ==
  /\ TransportKnown(s)
  /\ s.status # "INIT" => s.session_id # 0

(* Both are in the same state, but when an answer is on its way.           *)
Agree(s) ==
  /\ client.status = s.status
  /\ s.status # "INIT" =>
       client.session_id = s.session_id /\ client.server_rtp_port = s.server_rtp_port

(* What the client will read in an answer, the server in state s.          *)
Tells(lines, m, s) ==
  LET h == HeaderOf(lines)
      id == Atoi(Field(h, "session"))
  IN /\ m \in Methods /\ s.status = StatusAfter(m)
     /\ FieldExists(h, "session") /\ id \in SessionId \cup {0}
     /\ m # "TEARDOWN" => id = s.session_id
     /\ FieldExists(h, "transport") <=> m = "SETUP"
     /\ m = "SETUP" => ServerPort(Field(h, "transport")) = SERVER_RTP_PORT
     /\ m = "PLAY" => client.server_rtp_port = SERVER_RTP_PORT

RequestRead == turn = "serve" => request.lines \in Seq(OKLines)

AnswerRead ==
  IF turn = "receive" /\ answer # <<>> THEN Tells(answer, request.method, server) ELSE Agree(server)

Inv == Types /\ Open(server) /\ RequestRead /\ AnswerRead

LEMMA CasesGood ==
  ASSUME Types
  PROVE  port \in Nat /\ day \in DOMAIN DayLength /\ port <= 65535
<1>1. port \in PortNumbers /\ day \in DOMAIN DayLength
  BY DialogueAssumption DEF Types
<1>2. \A n \in PortNumbers : n \in Nat /\ n <= 65535
  BY SMTT(30) DEF PortNumbers
<1> QED BY <1>1, <1>2, SMTT(30)

(* What depends on the port stays, as the port does.                       *)
LEMMA LinesStay ==
  ASSUME UNCHANGED port, NEW lines \in Seq(OKLines), request'.lines = lines
  PROVE  RequestRead'
<1>1. Udp' = Udp /\ Tcp' = Tcp
  BY Zenon DEF Udp, Tcp, Transport
<1>2. Asks' = Asks
  BY <1>1 DEF Asks
<1>3. OKLines' = OKLines
  BY <1>2 DEF OKLines, LineOK
<1> QED BY <1>3 DEF RequestRead

LEMMA TransportStays ==
  ASSUME UNCHANGED port, Open(server), UNCHANGED server
  PROVE  Open(server)'
BY DEF Open, TransportKnown, Asked

LEMMA TellsStays ==
  ASSUME NEW lines, lines # <<>>, NEW m, NEW s, Tells(lines, m, s), UNCHANGED client,
         turn' = "receive", answer' = lines, request'.method = m, server' = s
  PROVE  AnswerRead'
BY Zenon DEF AnswerRead, Tells

LEMMA OpenAfter ==
  ASSUME UNCHANGED port, NEW s, Open(s), server' = s
  PROVE  Open(server)'
BY DEF Open, TransportKnown, Asked

LEMMA TypesOfClient ==
  ASSUME Types
  PROVE  client.session_id \in Nat /\ client.cseq_number \in Nat
<1>1. client.session_id \in SessionId \cup {0} /\ client.cseq_number \in 0 .. MaxCseq
  BY DEF Types, ClientType
<1>2. MaxCseq \in Nat
  BY DialogueAssumption
<1>3. client.session_id \in Nat
  BY <1>1, SessionsAreNumbers
<1> QED BY <1>1, <1>2, <1>3

LEMMA InitInv == Init => Inv
<1> SUFFICES ASSUME Init PROVE Inv
  OBVIOUS
<1>1. <<port, video, day>> \in Cases
  <2>1. PICK c \in Cases : port = c[1] /\ video = c[2] /\ day = c[3]
    BY DEF Init
  <2>2. c \in PortNumbers \X Seq(STRING) \X DOMAIN DayLength
    BY <2>1, DialogueAssumption
  <2>3. c = <<c[1], c[2], c[3]>>
    BY <2>2
  <2> QED BY <2>1, <2>3
<1>2. Types
  <2>1. MaxCseq \in Nat
    BY DialogueAssumption
  <2>2. client \in ClientType
    BY <2>1 DEF Init, InitClient, ClientType
  <2>3. server \in ServerType
    BY DEF Init, InitServer, ServerType
  <2> QED BY <1>1, <2>2, <2>3 DEF Types, Init
<1>3. Open(server)
  BY DEF Init, InitServer, Open, TransportKnown
<1>4. RequestRead
  BY DEF Init, RequestRead
<1>5. AnswerRead
  BY DEF Init, InitServer, InitClient, AnswerRead, Agree
<1> QED BY <1>2, <1>3, <1>4, <1>5 DEF Inv

(* A request leaves the server alone.                                      *)
LEMMA AskInv ==
  ASSUME Inv, NEW kind, NEW m, NEW url, NEW lines \in Seq(OKLines),
         Ask(kind, m, url, lines),
         client' = client \/ client' = [client EXCEPT !.cseq_number = @ + 1],
         client' \in ClientType
  PROVE  Inv'
<1>1. /\ UNCHANGED <<port, video, day, server, answer>> /\ turn' = "serve" /\ turn = "send"
      /\ request'.lines = lines /\ request'.method = m
  BY DEF Ask, fixed
<1>2. Types'
  BY <1>1 DEF Inv, Types
<1>3. Open(server)'
  BY <1>1, TransportStays DEF Inv
<1>4. RequestRead'
  BY <1>1, LinesStay
<1>5. AnswerRead'
  <2>1. Agree(server)
    BY <1>1 DEF Inv, AnswerRead
  <2>2. /\ client'.status = client.status /\ client'.session_id = client.session_id
        /\ client'.server_rtp_port = client.server_rtp_port
    BY DEF Inv, Types, ClientType
  <2>3. Agree(server)'
    BY <1>1, <2>1, <2>2 DEF Agree
  <2> QED BY <1>1, <2>3 DEF AnswerRead
<1> QED BY <1>2, <1>3, <1>4, <1>5 DEF Inv

LEMMA NextRequestInv ==
  ASSUME Inv, NEW kind, NEW m, NEW url, NEW lines \in Seq(OKLines),
         NextRequest(kind, m, url, lines)
  PROVE  Inv'
<1>1. /\ Ask(kind, m, url, lines) /\ client.cseq_number < MaxCseq
      /\ client' = [client EXCEPT !.cseq_number = @ + 1]
  BY DEF NextRequest
<1>2. client' \in ClientType
  <2>1. client \in ClientType /\ MaxCseq \in Nat
    BY DialogueAssumption DEF Inv, Types
  <2>2. client.cseq_number + 1 \in 0 .. MaxCseq
    BY <1>1, <2>1 DEF ClientType
  <2> QED BY <1>1, <2>1, <2>2 DEF ClientType
<1> QED BY <1>1, <1>2, AskInv

LEMMA SendInv ==
  ASSUME Inv, NEW m, SendRequest(m) \/ SendVariant(m) \/ SendIfModified(m)
  PROVE  Inv'
<1>1. /\ port \in Nat /\ day \in DOMAIN DayLength
      /\ client.session_id \in Nat /\ client.cseq_number + 1 \in Nat
  BY CasesGood, TypesOfClient DEF Inv, Types
<1>2. NextLines(m) \in Seq(OKLines)
  BY <1>1, ClientLines DEF NextLines
<1>3. CASE SendRequest(m)
  BY <1>2, <1>3, NextRequestInv DEF SendRequest
<1>4. CASE SendVariant(m)
  <2> DEFINE url == [i \in DOMAIN Url |-> IF i > 5 /\ Url[i] = "/" THEN "%2F" ELSE Url[i]]
  <2>1. PICK r \in Ranges :
          NextRequest("good", m, url, Reverse(NextLines(m) \o <<Line("Range", r)>>))
    BY <1>4, Zenon DEF SendVariant
  <2> HIDE DEF url
  <2>2. Line("Range", r) \in OKLines
    BY RangeLines
  <2>3. NextLines(m) \o <<Line("Range", r)>> \in Seq(OKLines)
    BY <1>2, <2>2
  <2>4. Reverse(NextLines(m) \o <<Line("Range", r)>>) \in Seq(OKLines)
    BY <2>3, ReversedLines, Zenon
  <2> QED BY <2>1, <2>4, NextRequestInv
<1>5. CASE SendIfModified(m)
  <2>1. PICK i \in 1 .. 3, d \in {day, "Sunday"} :
          NextRequest(IF d = day THEN "unmodified" ELSE "good", m, Url,
                      Append(NextLines(m), Line("If-Modified-Since", <<Formats[i], d>>)))
    BY <1>5, Zenon DEF SendIfModified
  <2>2. d \in DOMAIN DayLength
    BY <1>1 DEF DayLength
  <2>3. Line("If-Modified-Since", <<Formats[i], d>>) \in OKLines
    BY <2>2, ModifiedLines
  <2>4. Append(NextLines(m), Line("If-Modified-Since", <<Formats[i], d>>)) \in Seq(OKLines)
    BY <1>2, <2>3, AppendProperties
  <2> QED BY <2>1, <2>4, NextRequestInv
<1> QED BY <1>3, <1>4, <1>5

LEMMA DefectiveInv ==
  ASSUME Inv, SendDefective
  PROVE  Inv'
<1>1. PICK d \in Defects : Ask("defective", d.method, d.url, d.lines) /\ UNCHANGED client
  BY DEF SendDefective
<1>2. d.lines \in Seq(OKLines)
  BY CasesGood, TypesOfClient, DefectLines DEF Inv, Types
<1>3. client' \in ClientType
  BY <1>1 DEF Inv, Types
<1> QED BY <1>1, <1>2, <1>3, AskInv

(* The four ways in which the server ends with a request.                  *)
LEMMA OutcomeIs ==
  ASSUME NEW q, NEW header, NEW info,
         NEW o, o = Outcome(q, header, info)
  PROVE  \/ o.answer = <<>> /\ o.server = server
         \/ o.answer = <<>> /\ o.server = info.server /\ ~ MethodIsNotValidInState(q.method)
         \/ /\ q.method \in Methods /\ ~ MethodIsNotValidInState(q.method)
            /\ info.server.protocol_type = PROTOCOL_TYPE
            /\ o.answer = Answer(q.method, info.server, info.cseq)
            /\ o.server = IF q.method = "TEARDOWN" THEN InitServer
                          ELSE [info.server EXCEPT !.status = StatusAfter(q.method)]
<1>1. CASE Refused(q, header)
  <2>1. o = [server |-> server, answer |-> <<>>]
    BY <1>1 DEF Outcome
  <2> QED BY <2>1
<1>2. CASE ~ Refused(q, header)
  <2>1. ~ MethodIsNotValidInState(q.method)
    BY <1>2, Zenon DEF Refused
  <2>2. CASE AlsoRefused(header, info)
    <3>1. o = [server |-> info.server, answer |-> <<>>]
      BY <1>2, <2>2 DEF Outcome
    <3> QED BY <2>1, <3>1
  <2>3. CASE ~ AlsoRefused(header, info)
    <3>1. o = SendOK(q.method, info.server, info.cseq)
      BY <1>2, <2>3 DEF Outcome
    <3>2. info.server.protocol_type = PROTOCOL_TYPE
      BY <2>3, Zenon DEF AlsoRefused
    <3> QED BY <2>1, <3>1, <3>2 DEF SendOK, Methods
  <2> QED BY <2>2, <2>3
<1> QED BY <1>1, <1>2

(* What a session and its request make of the server's variables.          *)
LEMMA ServerIsRead ==
  ASSUME Types, Open(server), NEW lines \in Seq(OKLines), NEW session \in Sessions
  PROVE  LET info == GetRTSPInfo(Parsed(lines), session)
             s == info.server
         IN /\ info.cseq \in Nat /\ s \in ServerType /\ TransportKnown(s)
            /\ s.status = server.status /\ s.server_rtp_port = server.server_rtp_port
            /\ s.session_id \in SessionId
            /\ server.session_id # 0 => s.session_id = server.session_id
            /\ ~ FieldExists(Parsed(lines), "transport") => SameTransport(server, s)
<1> DEFINE info == GetRTSPInfo(Parsed(lines), session)
           s == info.server
<1>1. /\ session \in SessionId /\ session \in SessionId \cup {0}
      /\ server.session_id # 0 => session = server.session_id
  <2>1. server.session_id \in SessionId \cup {0}
    BY DEF Types, ServerType
  <2> QED BY <2>1 DEF Sessions
<1>2. port \in Nat /\ server \in ServerType /\ TransportKnown(server)
  BY CasesGood DEF Types, Open
<1>3. /\ info.cseq \in Nat /\ s \in ServerType /\ TransportKnown(s)
      /\ s.status = server.status /\ s.session_id = session
      /\ s.server_rtp_port = server.server_rtp_port
      /\ ~ FieldExists(Parsed(lines), "transport") => SameTransport(server, s)
  BY <1>1, <1>2, InfoIsRead
<1> QED BY <1>1, <1>3

(* An answer, and what it says.                                            *)
LEMMA AnswerTells ==
  ASSUME Types, NEW m \in Methods, NEW s \in ServerType, NEW cseq \in Nat,
         TransportKnown(s), s.protocol_type = PROTOCOL_TYPE,
         m = "PLAY" => client.server_rtp_port = SERVER_RTP_PORT,
         NEW t, t = IF m = "TEARDOWN" THEN InitServer ELSE [s EXCEPT !.status = StatusAfter(m)]
  PROVE  Answer(m, s, cseq) # <<>> /\ Tells(Answer(m, s, cseq), m, t)
<1> DEFINE a == Answer(m, s, cseq)
           h == HeaderOf(a)
<1>1. s.protocol_method = Compressed
  BY EmptySeq DEF TransportKnown, Asked, PROTOCOL_TYPE
<1>2. day \in DOMAIN DayLength
  BY CasesGood DEF Types
<1>3. /\ a # <<>>
      /\ FieldExists(h, "session") /\ Atoi(Field(h, "session")) = s.session_id
      /\ FieldExists(h, "transport") <=> m = "SETUP"
      /\ m = "SETUP" => ServerPort(Field(h, "transport")) = SERVER_RTP_PORT
  BY <1>1, <1>2, AnswerIsRead
<1> HIDE DEF a
<1>4. t.status = StatusAfter(m) /\ (m # "TEARDOWN" => t.session_id = s.session_id)
  BY DEF InitServer, StatusAfter, ServerType, Methods
<1>5. s.session_id \in SessionId \cup {0}
  BY DEF ServerType
<1>6. Tells(a, m, t)
  BY <1>3, <1>4, <1>5, Zenon DEF Tells
<1> QED BY <1>3, <1>6 DEF a

LEMMA ServeInv ==
  ASSUME Inv, Serve
  PROVE  Inv'
<1> DEFINE m == request.method
           header == Parsed(request.lines)
<1>1. PICK session \in Sessions :
        LET response == Respond(request, header, session)
        IN server' = response.server /\ answer' = response.answer
  BY DEF Serve
<1> DEFINE info == GetRTSPInfo(header, session)
           s == info.server
           o == Outcome(request, header, info)
<1>2. server' = o.server /\ answer' = o.answer
  BY <1>1 DEF Respond
<1>3. UNCHANGED <<port, video, day, client, request>> /\ turn' = "receive"
  BY DEF Serve, fixed
<1>4. /\ Types /\ Open(server) /\ Agree(server) /\ request.lines \in Seq(OKLines)
  BY DEF Inv, RequestRead, AnswerRead, Serve
<1>5. /\ info.cseq \in Nat /\ s \in ServerType /\ TransportKnown(s)
      /\ s.status = server.status /\ s.server_rtp_port = server.server_rtp_port
      /\ s.session_id \in SessionId
      /\ server.session_id # 0 => s.session_id = server.session_id
  BY <1>4, ServerIsRead
<1>6. \/ o.answer = <<>> /\ o.server = server
      \/ o.answer = <<>> /\ o.server = s /\ ~ MethodIsNotValidInState(m)
      \/ /\ m \in Methods /\ ~ MethodIsNotValidInState(m)
         /\ s.protocol_type = PROTOCOL_TYPE
         /\ o.answer = Answer(m, s, info.cseq)
         /\ o.server = IF m = "TEARDOWN" THEN InitServer
                       ELSE [s EXCEPT !.status = StatusAfter(m)]
  BY OutcomeIs
<1> HIDE DEF m, header, info, o
<1>7. s.session_id # 0
  BY <1>5, SessionsAreNumbers
<1>8. SUFFICES /\ o.server \in ServerType /\ Open(o.server)
               /\ IF o.answer # <<>> THEN Tells(o.answer, m, o.server) ELSE Agree(o.server)
  <2>1. Types'
    BY <1>2, <1>3, <1>4, <1>8 DEF Types
  <2>2. Open(server)'
    BY <1>2, <1>3, <1>8, OpenAfter
  <2>3. RequestRead'
    BY <1>3 DEF RequestRead
  <2>4. AnswerRead'
    <3>1. CASE o.answer # <<>>
      <4>1. Tells(o.answer, m, o.server) /\ request'.method = m
        BY <1>3, <1>8, <3>1 DEF m
      <4> QED BY <1>2, <1>3, <3>1, <4>1, TellsStays
    <3>2. CASE o.answer = <<>>
      <4>1. Agree(o.server)
        BY <1>8, <3>2
      <4>2. Agree(server)'
        BY <1>2, <1>3, <4>1 DEF Agree
      <4> QED BY <1>2, <1>3, <3>2, <4>2 DEF AnswerRead
    <3> QED BY <3>1, <3>2
  <2> QED BY <2>1, <2>2, <2>3, <2>4 DEF Inv
<1>9. CASE o.answer = <<>> /\ o.server = server
  BY <1>4, <1>9 DEF Types
<1>10. CASE o.answer = <<>> /\ o.server = s /\ ~ MethodIsNotValidInState(m)
  <2>1. Open(s)
    BY <1>5, <1>7 DEF Open
  <2>2. Agree(s)
    BY <1>4, <1>5 DEF Agree, Open
  <2> QED BY <1>5, <1>10, <2>1, <2>2
<1>11. CASE /\ m \in Methods /\ ~ MethodIsNotValidInState(m)
            /\ s.protocol_type = PROTOCOL_TYPE
            /\ o.answer = Answer(m, s, info.cseq)
            /\ o.server = IF m = "TEARDOWN" THEN InitServer
                          ELSE [s EXCEPT !.status = StatusAfter(m)]
  <2>1. m = "PLAY" => client.server_rtp_port = SERVER_RTP_PORT
    <3>1. server.server_rtp_port = SERVER_RTP_PORT
      BY <1>4 DEF Types, ServerType
    <3>2. m = "PLAY" => server.status # "INIT"
      BY <1>11 DEF MethodIsNotValidInState
    <3> QED BY <1>4, <3>1, <3>2 DEF Agree
  <2>2. o.answer # <<>> /\ Tells(o.answer, m, o.server)
    BY <1>4, <1>5, <1>11, <2>1, AnswerTells
  <2>3. o.server \in ServerType /\ Open(o.server)
    <3>1. CASE m = "TEARDOWN"
      BY <1>11, <3>1 DEF InitServer, ServerType, Open, TransportKnown
    <3>2. CASE m # "TEARDOWN"
      <4>1. StatusAfter(m) \in {"READY", "PLAYING"}
        BY <1>11, <3>2 DEF StatusAfter, Methods
      <4>2. o.server = [s EXCEPT !.status = StatusAfter(m)]
        BY <1>11, <3>2
      <4>3. o.server \in ServerType
        BY <1>5, <4>1, <4>2 DEF ServerType
      <4>4. Open(o.server)
        BY <1>5, <1>7, <1>11, <4>2 DEF Open, TransportKnown, Asked, ServerType
      <4> QED BY <4>3, <4>4
    <3> QED BY <3>1, <3>2
  <2> QED BY <2>2, <2>3
<1> QED BY <1>6, <1>9, <1>10, <1>11

LEMMA ReceiveInv ==
  ASSUME Inv, Receive
  PROVE  Inv'
<1> DEFINE h == HeaderOf(answer)
           m == request.method
           id == Atoi(Field(h, "session"))
<1>1. /\ UNCHANGED <<port, video, day, server>> /\ turn = "receive" /\ turn' = "send"
      /\ client' = IF answer = <<>> THEN client ELSE
           [client EXCEPT
              !.status = StatusAfter(m),
              !.session_id = IF FieldExists(h, "session") THEN id ELSE @,
              !.server_rtp_port =
                 IF FieldExists(h, "transport") THEN ServerPort(Field(h, "transport")) ELSE @]
  BY Zenon DEF Receive, fixed
<1>2. client \in ClientType /\ server \in ServerType
  BY DEF Inv, Types
<1>3. client' \in ClientType /\ Agree(server)'
  <2>1. CASE answer = <<>>
    <3>1. client' = client
      BY <1>1, <2>1
    <3>2. Agree(server)
      BY <2>1 DEF Inv, AnswerRead
    <3> QED BY <1>1, <1>2, <3>1, <3>2 DEF Agree
  <2>2. CASE answer # <<>>
    <3>1. /\ m \in Methods /\ server.status = StatusAfter(m)
          /\ FieldExists(h, "session") /\ id \in SessionId \cup {0}
          /\ m # "TEARDOWN" => id = server.session_id
          /\ FieldExists(h, "transport") <=> m = "SETUP"
          /\ m = "SETUP" => ServerPort(Field(h, "transport")) = SERVER_RTP_PORT
          /\ m = "PLAY" => client.server_rtp_port = SERVER_RTP_PORT
      BY <1>1, <2>2, Zenon DEF Inv, AnswerRead, Tells
    <3> DEFINE to == IF m = "SETUP" THEN SERVER_RTP_PORT ELSE client.server_rtp_port
    <3>2. client' = [client EXCEPT !.status = server.status, !.session_id = id,
                                   !.server_rtp_port = to]
      BY <1>1, <2>2, <3>1
    <3> HIDE DEF h, id
    <3>3. to \in {0, SERVER_RTP_PORT} /\ server.status \in {"INIT", "READY", "PLAYING"}
      BY <1>2 DEF ClientType, ServerType
    <3>4. client' \in ClientType
      BY <1>2, <3>1, <3>2, <3>3 DEF ClientType
    <3>5. /\ client'.status = server.status /\ client'.session_id = id
          /\ client'.server_rtp_port = to
      BY <1>2, <3>2 DEF ClientType
    <3>6. server.status # "INIT" => m \in {"SETUP", "PLAY"}
      BY <3>1 DEF StatusAfter, Methods
    <3>7. server.server_rtp_port = SERVER_RTP_PORT
      BY <1>2 DEF ServerType
    <3> QED BY <1>1, <3>1, <3>4, <3>5, <3>6, <3>7 DEF Agree
  <2> QED BY <2>1, <2>2
<1>4. Types'
  BY <1>1, <1>2, <1>3 DEF Inv, Types
<1>5. Open(server)'
  BY <1>1, TransportStays DEF Inv
<1>6. RequestRead' /\ AnswerRead'
  BY <1>1, <1>3 DEF RequestRead, AnswerRead
<1> QED BY <1>4, <1>5, <1>6 DEF Inv

LEMMA InvIsInductive == Inv /\ [Next]_vars => Inv'
<1> SUFFICES ASSUME Inv, [Next]_vars PROVE Inv'
  OBVIOUS
<1>1. ASSUME NEW m \in {"SETUP", "PLAY", "TEARDOWN"},
             SendRequest(m) \/ SendVariant(m) \/ SendIfModified(m)
      PROVE  Inv'
  BY <1>1, SendInv
<1>2. CASE SendDefective
  BY <1>2, DefectiveInv
<1>3. CASE Serve
  BY <1>3, ServeInv
<1>4. CASE Receive
  BY <1>4, ReceiveInv
<1>5. CASE UNCHANGED vars
  <2>1. UNCHANGED <<port, video, day, client, server, request, answer, turn>>
    BY <1>5 DEF vars, fixed
  <2>2. Types' /\ RequestRead' /\ AnswerRead'
    <3>1. Types'
      BY <2>1 DEF Inv, Types
    <3>2. RequestRead'
      <4>1. CASE turn = "serve"
        <5>1. request.lines \in Seq(OKLines) /\ request'.lines = request.lines
          BY <2>1, <4>1 DEF Inv, RequestRead
        <5> QED BY <2>1, <5>1, LinesStay
      <4>2. CASE turn # "serve"
        BY <2>1, <4>2 DEF RequestRead
      <4> QED BY <4>1, <4>2
    <3>3. AnswerRead'
      BY <2>1, Zenon DEF Inv, AnswerRead, Agree, Tells
    <3> QED BY <3>1, <3>2, <3>3
  <2>3. Open(server)'
    BY <2>1, TransportStays DEF Inv
  <2> QED BY <2>2, <2>3 DEF Inv
<1> QED BY <1>1, <1>2, <1>3, <1>4, <1>5 DEF Next

LEMMA InvHolds == Spec => []Inv
<1>1. Init => Inv
  BY InitInv
<1>2. Inv /\ [Next]_vars => Inv'
  BY InvIsInductive
<1> QED BY <1>1, <1>2, PTL DEF Spec

------------------------------------------------------------------------------
(* Every value is of its kind.  The port in the server's variables is one  *)
(* that getRTSPInfo read in a Transport line, and the client's variables   *)
(* are what handleServerResponse read in an answer: this is a statement    *)
(* about the parsing of both.                                              *)
THEOREM TypeCorrect == Spec => []TypeOK
<1>1. ASSUME Inv PROVE TypeOK
  <2>1. port \in PortNumbers
    BY <1>1, DialogueAssumption DEF Inv, Types
  <2>2. server.client_rtp_port \in PortNumbers \cup {0}
    BY <1>1, <2>1 DEF Inv, Open, TransportKnown, Asked
  <2> QED BY <1>1, <2>2 DEF TypeOK, Inv, Types, ClientType, ServerType
<1> QED BY <1>1, InvHolds, PTL

(* The server sends to the port on which the client receives: while an     *)
(* open session has the protocol the server supports, its Transport line   *)
(* was understood, whichever port the client was given, and the server's   *)
(* itoa writes the port's digits into the buffer it has.                   *)
THEOREM PortIsUnderstood == Spec => []TransportUnderstood
<1>1. ASSUME Inv PROVE TransportUnderstood
  <2>1. port \in Nat /\ port <= 65535
    BY <1>1, CasesGood DEF Inv
  <2>2. Itoa(port) = Decimal[port] /\ Len(Itoa(port)) + 1 <= NUMBER_SIZE + 1
    BY <2>1, ItoaIsDecimal, PortsFit DEF NUMBER_SIZE
  <2>3. server.protocol_type = PROTOCOL_TYPE =>
          /\ server.protocol_method = Compressed
          /\ server.client_rtp_port = port /\ server.client_rtcp_port = port + 1
    BY <1>1, EmptySeq DEF Inv, Open, TransportKnown, Asked, PROTOCOL_TYPE
  <2> QED BY <2>2, <2>3 DEF TransportUnderstood, Locked, Compressed
<1> QED BY <1>1, InvHolds, PTL

(* When an answer was read, or a refused request was given up, the client  *)
(* shows the server's status and names its session and port: after every   *)
(* request that the client, or another program, may make.                  *)
THEOREM SameView == Spec => []ViewsAgree
<1>1. Inv => ViewsAgree
  BY DEF Inv, AnswerRead, Agree, ViewsAgree
<1> QED BY <1>1, InvHolds, PTL

(* A refused request leaves an open session its id, its status and the     *)
(* server's port.  It leaves the transport too, unless it is a PLAY or a   *)
(* TEARDOWN with a Transport line: getRTSPInfo writes what it reads into   *)
(* the server's variables before the request is refused.                   *)
THEOREM RefusalLeavesSession == Spec => RefusalIsHarmless
<1> DEFINE header == Parsed(request.lines)
           m == request.method
           P == turn = "serve" /\ server.status # "INIT" /\ answer' = <<>> =>
                  /\ \A v \in {"status", "session_id", "server_rtp_port"} : server'[v] = server[v]
                  /\ m = "SETUP" \/ ~ FieldExists(header, "transport") =>
                       \A v \in {"protocol_type", "protocol_method", "client_rtp_port",
                                "client_rtcp_port"} : server'[v] = server[v]
<1>1. ASSUME Inv, [Next]_vars PROVE [P]_vars
  <2> SUFFICES ASSUME turn = "serve", server.status # "INIT", answer' = <<>>
               PROVE  /\ SameSession(server', server)
                      /\ m = "SETUP" \/ ~ FieldExists(header, "transport") =>
                           SameTransport(server', server)
    BY DEF P, SameSession, SameTransport
  <2>1. CASE Serve
    <3>1. PICK session \in Sessions :
            LET response == Respond(request, header, session)
            IN server' = response.server /\ answer' = response.answer
      BY <2>1 DEF Serve
    <3> DEFINE info == GetRTSPInfo(header, session)
               s == info.server
               o == Outcome(request, header, info)
    <3>2. server' = o.server /\ answer' = o.answer
      BY <3>1 DEF Respond
    <3>3. Types /\ Open(server) /\ Agree(server) /\ request.lines \in Seq(OKLines)
      BY <1>1 DEF Inv, RequestRead, AnswerRead
    <3>4. /\ info.cseq \in Nat /\ s \in ServerType /\ TransportKnown(s)
          /\ s.status = server.status /\ s.server_rtp_port = server.server_rtp_port
          /\ server.session_id # 0 => s.session_id = server.session_id
          /\ ~ FieldExists(header, "transport") => SameTransport(server, s)
      BY <3>3, ServerIsRead
    <3>5. \/ o.answer = <<>> /\ o.server = server
          \/ o.answer = <<>> /\ o.server = s /\ ~ MethodIsNotValidInState(m)
          \/ /\ m \in Methods /\ ~ MethodIsNotValidInState(m)
             /\ s.protocol_type = PROTOCOL_TYPE
             /\ o.answer = Answer(m, s, info.cseq)
             /\ o.server = IF m = "TEARDOWN" THEN InitServer
                           ELSE [s EXCEPT !.status = StatusAfter(m)]
      BY OutcomeIs
    <3> HIDE DEF m, header, info, o
    <3>6. server.session_id # 0
      BY <3>3 DEF Open
    <3>7. MethodIsNotValidInState(m) \/ m # "SETUP"
      BY DEF MethodIsNotValidInState
    <3>8. m \in Methods /\ s.protocol_type = PROTOCOL_TYPE => Answer(m, s, info.cseq) # <<>>
      <4>1. s.protocol_type = PROTOCOL_TYPE => s.protocol_method = Compressed
        BY <3>4, EmptySeq DEF TransportKnown, Asked, PROTOCOL_TYPE
      <4>2. day \in DOMAIN DayLength
        BY <3>3, CasesGood
      <4> QED BY <3>4, <4>1, <4>2, AnswerIsRead
    <3>9. server' = server \/ (server' = s /\ m # "SETUP")
      BY <3>2, <3>5, <3>7, <3>8
    <3>10. CASE server' = server
      BY <3>10 DEF SameSession, SameTransport
    <3>11. CASE server' = s /\ m # "SETUP"
      BY <3>4, <3>6, <3>11 DEF SameSession, SameTransport
    <3> QED BY <3>9, <3>10, <3>11
  <2>2. CASE ~ Serve
    <3>1. server' = server
      BY <1>1, <2>2 DEF Next, SendRequest, SendVariant, SendIfModified, SendDefective, NextRequest,
                  Ask, Receive, vars
    <3> QED BY <3>1 DEF SameSession, SameTransport
  <2> QED BY <2>1, <2>2
<1> QED BY <1>1, InvHolds, PTL DEF Spec, RefusalIsHarmless
==============================================================================
