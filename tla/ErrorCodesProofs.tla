-------------------------- MODULE ErrorCodesProofs --------------------------
(***************************************************************************)
(* Error codes, for any value of the 39 payloads and whatever the           *)
(* unwritten halves of words hold.                                          *)
(*                                                                          *)
(* Known(T, a, s, f) computes the alignment, the size and the number of     *)
(* words of a type from those of its parts, up to the results and the       *)
(* futures that hold an error code. With them a code that an area holds is  *)
(* what the bindings read there (ErrorCodeRead, SitesRead), and the eight   *)
(* words set passes are taken as what it was given: Fills(words, m, P, x)   *)
(* says that they are those of case m with the payload x (PayloadFills,     *)
(* SetWritten).                                                             *)
(***************************************************************************)
EXTENDS WireValuesProofs, ErrorCodes

-----------------------------------------------------------------------------
(* The cases of an error code: the name and the payload of each number, and *)
(* the number that set writes for it.                                       *)
CodeCases == [i \in DOMAIN Cases |-> <<Cases[i], PayloadOf(Cases[i])>>]

LEMMA CaseNames ==
  /\ DOMAIN Cases = 1 .. 39
  /\ Cases[1] = "DnsTimeout"
  /\ Cases[2] = "DnsError"
  /\ Cases[3] = "DestinationNotFound"
  /\ Cases[4] = "DestinationUnavailable"
  /\ Cases[5] = "DestinationIpProhibited"
  /\ Cases[6] = "DestinationIpUnroutable"
  /\ Cases[7] = "ConnectionRefused"
  /\ Cases[8] = "ConnectionTerminated"
  /\ Cases[9] = "ConnectionTimeout"
  /\ Cases[10] = "ConnectionReadTimeout"
  /\ Cases[11] = "ConnectionWriteTimeout"
  /\ Cases[12] = "ConnectionLimitReached"
  /\ Cases[13] = "TlsProtocolError"
  /\ Cases[14] = "TlsCertificateError"
  /\ Cases[15] = "TlsAlertReceived"
  /\ Cases[16] = "HttpRequestDenied"
  /\ Cases[17] = "HttpRequestLengthRequired"
  /\ Cases[18] = "HttpRequestBodySize"
  /\ Cases[19] = "HttpRequestMethodInvalid"
  /\ Cases[20] = "HttpRequestUriInvalid"
  /\ Cases[21] = "HttpRequestUriTooLong"
  /\ Cases[22] = "HttpRequestHeaderSectionSize"
  /\ Cases[23] = "HttpRequestHeaderSize"
  /\ Cases[24] = "HttpRequestTrailerSectionSize"
  /\ Cases[25] = "HttpRequestTrailerSize"
  /\ Cases[26] = "HttpResponseIncomplete"
  /\ Cases[27] = "HttpResponseHeaderSectionSize"
  /\ Cases[28] = "HttpResponseHeaderSize"
  /\ Cases[29] = "HttpResponseBodySize"
  /\ Cases[30] = "HttpResponseTrailerSectionSize"
  /\ Cases[31] = "HttpResponseTrailerSize"
  /\ Cases[32] = "HttpResponseTransferCoding"
  /\ Cases[33] = "HttpResponseContentCoding"
  /\ Cases[34] = "HttpResponseTimeout"
  /\ Cases[35] = "HttpUpgradeFailed"
  /\ Cases[36] = "HttpProtocolError"
  /\ Cases[37] = "LoopDetected"
  /\ Cases[38] = "ConfigurationError"
  /\ Cases[39] = "InternalError"
BY DEF Cases

LEMMA CaseNumbers ==
  /\ CaseWritten.DnsTimeout = 0
  /\ CaseWritten.DnsError = 1
  /\ CaseWritten.DestinationNotFound = 2
  /\ CaseWritten.DestinationUnavailable = 3
  /\ CaseWritten.DestinationIpProhibited = 4
  /\ CaseWritten.DestinationIpUnroutable = 5
  /\ CaseWritten.ConnectionRefused = 6
  /\ CaseWritten.ConnectionTerminated = 7
  /\ CaseWritten.ConnectionTimeout = 8
  /\ CaseWritten.ConnectionReadTimeout = 9
  /\ CaseWritten.ConnectionWriteTimeout = 10
  /\ CaseWritten.ConnectionLimitReached = 11
  /\ CaseWritten.TlsProtocolError = 12
  /\ CaseWritten.TlsCertificateError = 13
  /\ CaseWritten.TlsAlertReceived = 14
  /\ CaseWritten.HttpRequestDenied = 15
  /\ CaseWritten.HttpRequestLengthRequired = 16
  /\ CaseWritten.HttpRequestBodySize = 17
  /\ CaseWritten.HttpRequestMethodInvalid = 18
  /\ CaseWritten.HttpRequestUriInvalid = 19
  /\ CaseWritten.HttpRequestUriTooLong = 20
  /\ CaseWritten.HttpRequestHeaderSectionSize = 21
  /\ CaseWritten.HttpRequestHeaderSize = 22
  /\ CaseWritten.HttpRequestTrailerSectionSize = 23
  /\ CaseWritten.HttpRequestTrailerSize = 24
  /\ CaseWritten.HttpResponseIncomplete = 25
  /\ CaseWritten.HttpResponseHeaderSectionSize = 26
  /\ CaseWritten.HttpResponseHeaderSize = 27
  /\ CaseWritten.HttpResponseBodySize = 28
  /\ CaseWritten.HttpResponseTrailerSectionSize = 29
  /\ CaseWritten.HttpResponseTrailerSize = 30
  /\ CaseWritten.HttpResponseTransferCoding = 31
  /\ CaseWritten.HttpResponseContentCoding = 32
  /\ CaseWritten.HttpResponseTimeout = 33
  /\ CaseWritten.HttpUpgradeFailed = 34
  /\ CaseWritten.HttpProtocolError = 35
  /\ CaseWritten.LoopDetected = 36
  /\ CaseWritten.ConfigurationError = 37
  /\ CaseWritten.InternalError = 38
BY DEF CaseWritten

LEMMA CaseOneOf ==
  ASSUME NEW i \in 1 .. 39
  PROVE  \/ i = 1 \/ i = 2 \/ i = 3 \/ i = 4 \/ i = 5 \/ i = 6 \/ i = 7 \/ i = 8
         \/ i = 9 \/ i = 10 \/ i = 11 \/ i = 12 \/ i = 13 \/ i = 14 \/ i = 15 \/ i = 16
         \/ i = 17 \/ i = 18 \/ i = 19 \/ i = 20 \/ i = 21 \/ i = 22 \/ i = 23 \/ i = 24
         \/ i = 25 \/ i = 26 \/ i = 27 \/ i = 28 \/ i = 29 \/ i = 30 \/ i = 31 \/ i = 32
         \/ i = 33 \/ i = 34 \/ i = 35 \/ i = 36 \/ i = 37 \/ i = 38 \/ i = 39
OBVIOUS

LEMMA WrittenIs ==
  ASSUME NEW i \in 1 .. 39
  PROVE  CaseWritten[Cases[i]] = i - 1
BY CaseNames, CaseNumbers, CaseOneOf

(* The payloads of each kind, by the places of their cases.                 *)
BodySizes == {18, 29}
SectionSizes == {22, 24, 27, 30}
FieldSizes == {25, 28, 31}
Remarks == {32, 33, 39}
WithPayload == {2, 15, 23} \cup BodySizes \cup SectionSizes \cup FieldSizes \cup Remarks

LEMMA PayloadNames ==
  /\ DOMAIN Payload =
       {"DnsError", "TlsAlertReceived", "HttpRequestBodySize", "HttpRequestHeaderSectionSize",
        "HttpRequestHeaderSize", "HttpRequestTrailerSectionSize", "HttpRequestTrailerSize",
        "HttpResponseHeaderSectionSize", "HttpResponseHeaderSize", "HttpResponseBodySize",
        "HttpResponseTrailerSectionSize", "HttpResponseTrailerSize",
        "HttpResponseTransferCoding", "HttpResponseContentCoding", "InternalError"}
  /\ Payload.DnsError = DnsErrorPayload
  /\ Payload.TlsAlertReceived = TlsAlertReceivedPayload
  /\ Payload.HttpRequestBodySize = OptionOf(Number(8))
  /\ Payload.HttpRequestHeaderSectionSize = OptionOf(Number(4))
  /\ Payload.HttpRequestHeaderSize = OptionOf(FieldSizePayload)
  /\ Payload.HttpRequestTrailerSectionSize = OptionOf(Number(4))
  /\ Payload.HttpRequestTrailerSize = FieldSizePayload
  /\ Payload.HttpResponseHeaderSectionSize = OptionOf(Number(4))
  /\ Payload.HttpResponseHeaderSize = FieldSizePayload
  /\ Payload.HttpResponseBodySize = OptionOf(Number(8))
  /\ Payload.HttpResponseTrailerSectionSize = OptionOf(Number(4))
  /\ Payload.HttpResponseTrailerSize = FieldSizePayload
  /\ Payload.HttpResponseTransferCoding = OptionOf(Text)
  /\ Payload.HttpResponseContentCoding = OptionOf(Text)
  /\ Payload.InternalError = OptionOf(Text)
BY DEF Payload

LEMMA PayloadIs ==
  ASSUME NEW i \in 1 .. 39
  PROVE  /\ i = 2 => PayloadOf(Cases[i]) = DnsErrorPayload
         /\ i = 15 => PayloadOf(Cases[i]) = TlsAlertReceivedPayload
         /\ i = 23 => PayloadOf(Cases[i]) = OptionOf(FieldSizePayload)
         /\ i \in BodySizes => PayloadOf(Cases[i]) = OptionOf(Number(8))
         /\ i \in SectionSizes => PayloadOf(Cases[i]) = OptionOf(Number(4))
         /\ i \in FieldSizes => PayloadOf(Cases[i]) = FieldSizePayload
         /\ i \in Remarks => PayloadOf(Cases[i]) = OptionOf(Text)
         /\ i \notin WithPayload => PayloadOf(Cases[i]) = Unit
<1>1. /\ i = 2 => PayloadOf(Cases[i]) = DnsErrorPayload
      /\ i = 15 => PayloadOf(Cases[i]) = TlsAlertReceivedPayload
      /\ i = 23 => PayloadOf(Cases[i]) = OptionOf(FieldSizePayload)
  BY CaseNames, PayloadNames DEF PayloadOf
<1>2. /\ i \in BodySizes => PayloadOf(Cases[i]) = OptionOf(Number(8))
      /\ i \in SectionSizes => PayloadOf(Cases[i]) = OptionOf(Number(4))
  BY CaseNames, PayloadNames DEF PayloadOf, BodySizes, SectionSizes
<1>3. /\ i \in FieldSizes => PayloadOf(Cases[i]) = FieldSizePayload
      /\ i \in Remarks => PayloadOf(Cases[i]) = OptionOf(Text)
  BY CaseNames, PayloadNames DEF PayloadOf, FieldSizes, Remarks
<1>4. i \notin WithPayload => Cases[i] \notin DOMAIN Payload
  <2>1. CaseWritten[Cases[i]] = i - 1
    BY WrittenIs
  <2>2. \A c \in DOMAIN Payload :
          CaseWritten[c] \in {1, 14, 17, 21, 22, 23, 24, 26, 27, 28, 29, 30, 31, 32, 38}
    BY PayloadNames, CaseNumbers
  <2>3. i \notin WithPayload
          => i - 1 \notin {1, 14, 17, 21, 22, 23, 24, 26, 27, 28, 29, 30, 31, 32, 38}
    BY DEF WithPayload, BodySizes, SectionSizes, FieldSizes, Remarks
  <2> QED
    BY <2>1, <2>2, <2>3
<1> QED
  BY <1>1, <1>2, <1>3, <1>4 DEF PayloadOf

-----------------------------------------------------------------------------
(* The alignment, the size and the number of words of a type.               *)
Known(T, a, s, f) ==
  IsLayout(T) /\ IsFlat(T) /\ T.align = a /\ T.size = s /\ T.flat = f

LEMMA KnownParts ==
  /\ Known(Unit, 1, 0, 0) /\ Known(Text, 4, 8, 2)
  /\ \A n \in {1, 2, 4, 8} : Known(Number(n), n, n, 1)
<1>1. Known(Unit, 1, 0, 0)
  BY UnitLayout, UnitTakes DEF Known, Unit
<1>2. Known(Text, 4, 8, 2)
  BY TextLayout, TextTakes DEF Known, Text
<1>3. ASSUME NEW n \in {1, 2, 4, 8}  PROVE Known(Number(n), n, n, 1)
  <2>1. Number(n).align = n /\ Number(n).size = n
    BY DEF Number
  <2> QED
    BY <2>1, NumberLayout, NumberTakes DEF Known
<1> QED
  BY <1>1, <1>2, <1>3

LEMMA KnownOption ==
  ASSUME NEW T, NEW a, NEW s, NEW f, Known(T, a, s, f)
  PROVE  Known(OptionOf(T), a, RoundUp(a + s, a), 1 + f)
BY OptionLayout, OptionTakes DEF Known

LEMMA KnownPair ==
  ASSUME NEW T, NEW a, NEW s, NEW f, Known(T, a, s, f),
         NEW U, NEW b, NEW t, NEW g, Known(U, b, t, g),
         NEW m \in {a, b}, a <= m, b <= m
  PROVE  /\ SecondAt(T, U) = RoundUp(s, b)
         /\ Known(Pair(T, U), m, RoundUp(RoundUp(s, b) + t, m), f + g)
<1>1. SecondAt(T, U) = RoundUp(s, b)
  BY DEF SecondAt, Known
<1>2. IsLayout(Pair(T, U)) /\ Pair(T, U).align = m
  <2>1. a \in {1, 2, 4, 8} /\ b \in {1, 2, 4, 8}
    BY DEF Known, IsLayout
  <2>2. m = IF a <= b THEN b ELSE a
    BY <2>1
  <2> QED
    BY <2>2, PairLayout DEF Known
<1>3. IsFlat(Pair(T, U)) /\ Pair(T, U).flat = f + g
  BY PairTakes DEF Known
<1>4. Pair(T, U).size = RoundUp(SecondAt(T, U) + U.size, Pair(T, U).align)
  BY DEF Pair
<1> QED
  BY <1>1, <1>2, <1>3, <1>4 DEF Known

LEMMA Rounded ==
  /\ RoundUp(4 + 8, 4) = 12 /\ RoundUp(1 + 1, 1) = 2 /\ RoundUp(2 + 2, 2) = 4
  /\ RoundUp(4 + 4, 4) = 8 /\ RoundUp(8 + 8, 8) = 16
  /\ RoundUp(12, 2) = 12 /\ RoundUp(12 + 4, 4) = 16
  /\ RoundUp(2, 4) = 4 /\ RoundUp(4 + 12, 4) = 16
  /\ RoundUp(12, 4) = 12 /\ RoundUp(12 + 8, 4) = 20
  /\ RoundUp(4 + 20, 4) = 24 /\ RoundUp(8 + 24, 8) = 32
BY DEF RoundUp

LEMMA KnownPayloads ==
  /\ Known(OptionOf(Text), 4, 12, 3)
  /\ Known(OptionOf(Number(1)), 1, 2, 2) /\ Known(OptionOf(Number(2)), 2, 4, 2)
  /\ Known(OptionOf(Number(4)), 4, 8, 2) /\ Known(OptionOf(Number(8)), 8, 16, 2)
  /\ Known(DnsErrorPayload, 4, 16, 5)
  /\ SecondAt(OptionOf(Text), OptionOf(Number(2))) = 12
  /\ Known(TlsAlertReceivedPayload, 4, 16, 5)
  /\ SecondAt(OptionOf(Number(1)), OptionOf(Text)) = 4
  /\ Known(FieldSizePayload, 4, 20, 5)
  /\ SecondAt(OptionOf(Text), OptionOf(Number(4))) = 12
  /\ Known(OptionOf(FieldSizePayload), 4, 24, 6)
<1>1. Known(OptionOf(Text), 4, 12, 3)
  <2>1. Known(OptionOf(Text), 4, RoundUp(4 + 8, 4), 1 + 2)
    BY KnownParts, KnownOption
  <2> QED
    BY <2>1, Rounded
<1>2. /\ Known(OptionOf(Number(1)), 1, 2, 2) /\ Known(OptionOf(Number(2)), 2, 4, 2)
      /\ Known(OptionOf(Number(4)), 4, 8, 2) /\ Known(OptionOf(Number(8)), 8, 16, 2)
  <2>1. \A n \in {1, 2, 4, 8} : Known(OptionOf(Number(n)), n, RoundUp(n + n, n), 1 + 1)
    BY KnownParts, KnownOption
  <2> QED
    BY <2>1, Rounded
<1>3. /\ SecondAt(OptionOf(Text), OptionOf(Number(2))) = RoundUp(12, 2)
      /\ Known(DnsErrorPayload, 4, RoundUp(RoundUp(12, 2) + 4, 4), 3 + 2)
  <2>1. PICK T, U : T = OptionOf(Text) /\ U = OptionOf(Number(2))
    OBVIOUS
  <2>2. Known(T, 4, 12, 3) /\ Known(U, 2, 4, 2)
    BY <1>1, <1>2, <2>1
  <2>3. 4 \in {4, 2} /\ 4 <= 4 /\ 2 <= 4
    OBVIOUS
  <2>4. /\ SecondAt(T, U) = RoundUp(12, 2)
        /\ Known(Pair(T, U), 4, RoundUp(RoundUp(12, 2) + 4, 4), 3 + 2)
    BY <2>2, <2>3, KnownPair, Zenon
  <2> QED
    BY <2>1, <2>4 DEF DnsErrorPayload
<1>4. /\ SecondAt(OptionOf(Number(1)), OptionOf(Text)) = RoundUp(2, 4)
      /\ Known(TlsAlertReceivedPayload, 4, RoundUp(RoundUp(2, 4) + 12, 4), 2 + 3)
  <2>1. PICK T, U : T = OptionOf(Number(1)) /\ U = OptionOf(Text)
    OBVIOUS
  <2>2. Known(T, 1, 2, 2) /\ Known(U, 4, 12, 3)
    BY <1>1, <1>2, <2>1
  <2>3. \A m \in {1, 4} : 1 <= m /\ 4 <= m
               => /\ SecondAt(T, U) = RoundUp(2, 4)
                  /\ Known(Pair(T, U), m, RoundUp(RoundUp(2, 4) + 12, m), 2 + 3)
    BY <2>2, KnownPair
  <2>4. /\ SecondAt(T, U) = RoundUp(2, 4)
        /\ Known(Pair(T, U), 4, RoundUp(RoundUp(2, 4) + 12, 4), 2 + 3)
    BY <2>3
  <2> QED
    BY <2>1, <2>4 DEF TlsAlertReceivedPayload
<1>5. /\ SecondAt(OptionOf(Text), OptionOf(Number(4))) = RoundUp(12, 4)
      /\ Known(FieldSizePayload, 4, RoundUp(RoundUp(12, 4) + 8, 4), 3 + 2)
  <2>1. PICK T, U : T = OptionOf(Text) /\ U = OptionOf(Number(4))
    OBVIOUS
  <2>2. Known(T, 4, 12, 3) /\ Known(U, 4, 8, 2)
    BY <1>1, <1>2, <2>1
  <2>3. \A m \in {4} : 4 <= m
               => /\ SecondAt(T, U) = RoundUp(12, 4)
                  /\ Known(Pair(T, U), m, RoundUp(RoundUp(12, 4) + 8, m), 3 + 2)
    BY <2>2, KnownPair
  <2>4. /\ SecondAt(T, U) = RoundUp(12, 4)
        /\ Known(Pair(T, U), 4, RoundUp(RoundUp(12, 4) + 8, 4), 3 + 2)
    BY <2>3
  <2> QED
    BY <2>1, <2>4 DEF FieldSizePayload
<1>6. Known(FieldSizePayload, 4, 20, 5)
  BY <1>5, Rounded
<1>7. Known(OptionOf(FieldSizePayload), 4, RoundUp(4 + 20, 4), 1 + 5)
  BY <1>6, KnownOption
<1> QED
  BY <1>1, <1>2, <1>3, <1>4, <1>5, <1>6, <1>7, Rounded

LEMMA PayloadFits ==
  ASSUME NEW i \in 1 .. 39, NEW P, P = PayloadOf(Cases[i])
  PROVE  /\ IsLayout(P) /\ IsFlat(P) /\ P.align <= 8 /\ P.size <= 24 /\ P.flat <= 6
         /\ i = 18 => P.align = 8
         /\ i = 23 => P.size = 24 /\ P.flat = 6
<1>1. \/ P = Unit \/ P = OptionOf(Text) \/ P = OptionOf(Number(4)) \/ P = OptionOf(Number(8))
      \/ P = DnsErrorPayload \/ P = TlsAlertReceivedPayload \/ P = FieldSizePayload
      \/ P = OptionOf(FieldSizePayload)
  BY PayloadIs DEF WithPayload
<1>2. /\ i = 18 => P = OptionOf(Number(8))
      /\ i = 23 => P = OptionOf(FieldSizePayload)
  BY PayloadIs DEF BodySizes
<1>3. /\ Known(Unit, 1, 0, 0) /\ Known(OptionOf(Text), 4, 12, 3)
      /\ Known(OptionOf(Number(4)), 4, 8, 2) /\ Known(OptionOf(Number(8)), 8, 16, 2)
      /\ Known(DnsErrorPayload, 4, 16, 5) /\ Known(TlsAlertReceivedPayload, 4, 16, 5)
      /\ Known(FieldSizePayload, 4, 20, 5) /\ Known(OptionOf(FieldSizePayload), 4, 24, 6)
  BY KnownParts, KnownPayloads
<1> QED
  BY <1>1, <1>2, <1>3 DEF Known

LEMMA CodeIs ==
  /\ ErrorCode = Variant(CodeCases) /\ DOMAIN CodeCases = 1 .. 39
  /\ \A i \in 1 .. 39 :
       CodeCases[i][1] = Cases[i] /\ CodeCases[i][2] = PayloadOf(Cases[i])
  /\ IsCases(CodeCases) /\ AreLargest(CodeCases, 8, 24) /\ Known(ErrorCode, 8, 32, 7)
<1>1. ErrorCode = Variant(CodeCases)
  BY DEF ErrorCode, CodeCases
<1>2. DOMAIN CodeCases = 1 .. 39
  BY CaseNames DEF CodeCases
<1>3. ASSUME NEW i \in 1 .. 39
      PROVE  CodeCases[i][1] = Cases[i] /\ CodeCases[i][2] = PayloadOf(Cases[i])
  BY CaseNames DEF CodeCases
<1>4. ASSUME NEW i \in 1 .. 39, NEW j \in 1 .. 39, Cases[i] = Cases[j]  PROVE i = j
  <2>1. CaseWritten[Cases[i]] = i - 1 /\ CaseWritten[Cases[j]] = j - 1
    BY WrittenIs
  <2> QED
    BY <1>4, <2>1
<1>p. ASSUME NEW i \in 1 .. 39
      PROVE  /\ IsLayout(CodeCases[i][2]) /\ IsFlat(CodeCases[i][2])
             /\ CodeCases[i][2].align <= 8 /\ CodeCases[i][2].size <= 24
             /\ CodeCases[i][2].flat <= 6
  <2>1. PICK P : P = PayloadOf(Cases[i])
    OBVIOUS
  <2>2. IsLayout(P) /\ IsFlat(P) /\ P.align <= 8 /\ P.size <= 24 /\ P.flat <= 6
    BY <2>1, PayloadFits
  <2> QED
    BY <1>3, <2>1, <2>2
<1>q. /\ CodeCases[18][2].align = 8
      /\ CodeCases[23][2].size = 24 /\ CodeCases[23][2].flat = 6
  <2>1. PICK i \in 1 .. 39, j \in 1 .. 39 : i = 18 /\ j = 23
    OBVIOUS
  <2>2. /\ PayloadOf(Cases[i]).align = 8
        /\ PayloadOf(Cases[j]).size = 24 /\ PayloadOf(Cases[j]).flat = 6
    BY <2>1, PayloadFits
  <2> QED
    BY <1>3, <2>1, <2>2
<1>5. IsCases(CodeCases)
  <2>1. \A i \in DOMAIN CodeCases : IsLayout(CodeCases[i][2])
    BY <1>2, <1>p
  <2>2. ASSUME NEW i \in DOMAIN CodeCases, NEW j \in DOMAIN CodeCases,
               CodeCases[i][1] = CodeCases[j][1]
        PROVE  i = j
    <3>1. i \in 1 .. 39 /\ j \in 1 .. 39
      BY <1>2
    <3>2. Cases[i] = Cases[j]
      BY <1>3, <2>2, <3>1
    <3> QED
      BY <1>4, <3>1, <3>2
  <2>3. \E n \in Nat : DOMAIN CodeCases = 1 .. n
    BY <1>2
  <2> QED
    BY <2>1, <2>2, <2>3 DEF IsCases
<1>6. AreLargest(CodeCases, 8, 24)
  <2>1. 18 \in DOMAIN CodeCases /\ CodeCases[18][2].align = 8
    <3>1. 18 \in DOMAIN CodeCases
      BY <1>2
    <3> QED
      BY <3>1, <1>q
  <2>2. 23 \in DOMAIN CodeCases /\ CodeCases[23][2].size = 24
    <3>1. 23 \in DOMAIN CodeCases
      BY <1>2
    <3> QED
      BY <3>1, <1>q
  <2>3. \A i \in DOMAIN CodeCases : CodeCases[i][2].align <= 8 /\ CodeCases[i][2].size <= 24
    BY <1>2, <1>p
  <2> QED
    BY <2>1, <2>2, <2>3 DEF AreLargest
<1>7. IsLayout(ErrorCode) /\ ErrorCode.align = 8 /\ ErrorCode.size = 32
  <2>1. Variant(CodeCases).align = 8 /\ Variant(CodeCases).size = RoundUp(8 + 24, 8)
    BY <1>5, <1>6, VariantSize
  <2>2. IsLayout(Variant(CodeCases))
    BY <1>5, <1>6, VariantLayout
  <2> QED
    BY <1>1, <2>1, <2>2, Rounded
<1>8. IsFlat(ErrorCode) /\ ErrorCode.flat = 7
  <2>1. 23 \in DOMAIN CodeCases /\ CodeCases[23][2].flat = 6
    <3>1. 23 \in DOMAIN CodeCases
      BY <1>2
    <3> QED
      BY <3>1, <1>q
  <2>2. \A i \in DOMAIN CodeCases : IsFlat(CodeCases[i][2]) /\ CodeCases[i][2].flat <= 6
    BY <1>2, <1>p
  <2>3. \E i \in DOMAIN CodeCases : CodeCases[i][2].flat = 6
    BY <2>1
  <2>4. IsFlat(Variant(CodeCases)) /\ Variant(CodeCases).flat = 1 + 6
    BY <1>5, <2>2, <2>3, VariantTakes
  <2> QED
    BY <1>1, <2>4
<1> QED
  BY <1>1, <1>2, <1>3, <1>5, <1>6, <1>7, <1>8 DEF Known

-----------------------------------------------------------------------------
(* Reading the parts of a payload.                                          *)
LEMMA OptionTextAt ==
  ASSUME NEW v \in OptionOf(Text).values, NEW area, NEW p \in Nat,
         Holds(area, OptionOf(Text), v, p)
  PROVE  read_option(Read(area, p, 1), read_string(area, p + 4)) = v
<1>1. IsLayout(Text) /\ Text.align = 4 /\ Text.values = Texts
  BY TextLayout DEF Text
<1>2. \A x \in Text.values : v = Some(x) /\ Holds(area, Text, x, p + Text.align)
        => read_string(area, p + 4) = x
  <2>1. p + 4 \in Nat
    OBVIOUS
  <2> QED
    BY <1>1, <2>1, HoldsText
<1> QED
  BY <1>1, <1>2, OptionRead

LEMMA OptionNumberAt ==
  ASSUME NEW n \in {1, 2, 4, 8}, NEW v \in OptionOf(Number(n)).values, NEW area,
         NEW p \in Nat, Holds(area, OptionOf(Number(n)), v, p)
  PROVE  read_option(Read(area, p, 1), Read(area, p + n, n)) = v
<1>1. /\ IsLayout(Number(n)) /\ Number(n).align = n /\ Number(n).values = Numbers(n)
      /\ p + n \in Nat
  <2>1. Number(n).align = n /\ Number(n).values = Numbers(n)
    BY DEF Number
  <2>2. p + n \in Nat
    OBVIOUS
  <2> QED
    BY <2>1, <2>2, NumberLayout
<1>2. \A x \in Number(n).values : v = Some(x) /\ Holds(area, Number(n), x, p + Number(n).align)
        => Read(area, p + n, n) = x
  BY <1>1, HoldsNumber
<1> QED
  BY <1>1, <1>2, OptionRead

LEMMA OptionLayouts ==
  /\ IsLayout(OptionOf(Text)) /\ \A n \in {1, 2, 4, 8} : IsLayout(OptionOf(Number(n)))
  /\ IsLayout(FieldSizePayload) /\ FieldSizePayload.align = 4
BY KnownPayloads DEF Known

LEMMA DnsErrorAt ==
  ASSUME NEW v \in DnsErrorPayload.values, NEW area, NEW b \in Nat,
         Holds(area, DnsErrorPayload, v, b + 8)
  PROVE  read_dns_error(area, b) = v
<1> DEFINE T == OptionOf(Text)
           U == OptionOf(Number(2))
<1>1. IsLayout(T) /\ IsLayout(U) /\ SecondAt(T, U) = 12 /\ DnsErrorPayload = Pair(T, U)
  BY OptionLayouts, KnownPayloads DEF DnsErrorPayload
<1>2. /\ b + 8 \in Nat /\ b + 20 \in Nat /\ (b + 8) + 12 = b + 20
      /\ (b + 8) + 4 = b + 12 /\ (b + 20) + 2 = b + 22
  OBVIOUS
<1> HIDE DEF T, U
<1>3. v = <<v[1], v[2]>> /\ v[1] \in T.values /\ v[2] \in U.values
  BY <1>1, PairParts
<1>4. Holds(area, T, v[1], b + 8) /\ Holds(area, U, v[2], b + 20)
  BY <1>1, <1>2, HoldsPair
<1>5. read_option(Read(area, b + 8, 1), read_string(area, b + 12)) = v[1]
  BY <1>2, <1>3, <1>4, OptionTextAt DEF T
<1>6. read_option(Read(area, b + 20, 1), Read(area, b + 22, 2)) = v[2]
  BY <1>2, <1>3, <1>4, OptionNumberAt DEF U
<1> QED
  BY <1>3, <1>5, <1>6 DEF read_dns_error

LEMMA TlsAlertAt ==
  ASSUME NEW v \in TlsAlertReceivedPayload.values, NEW area, NEW b \in Nat,
         Holds(area, TlsAlertReceivedPayload, v, b + 8)
  PROVE  read_tls_alert(area, b) = v
<1> DEFINE T == OptionOf(Number(1))
           U == OptionOf(Text)
<1>1. IsLayout(T) /\ IsLayout(U) /\ SecondAt(T, U) = 4 /\ TlsAlertReceivedPayload = Pair(T, U)
  BY OptionLayouts, KnownPayloads DEF TlsAlertReceivedPayload
<1>2. /\ b + 8 \in Nat /\ b + 12 \in Nat /\ (b + 8) + 4 = b + 12
      /\ (b + 8) + 1 = b + 9 /\ (b + 12) + 4 = b + 16
  OBVIOUS
<1> HIDE DEF T, U
<1>3. v = <<v[1], v[2]>> /\ v[1] \in T.values /\ v[2] \in U.values
  BY <1>1, PairParts
<1>4. Holds(area, T, v[1], b + 8) /\ Holds(area, U, v[2], b + 12)
  BY <1>1, <1>2, HoldsPair
<1>5. read_option(Read(area, b + 8, 1), Read(area, b + 9, 1)) = v[1]
  BY <1>2, <1>3, <1>4, OptionNumberAt DEF T
<1>6. read_option(Read(area, b + 12, 1), read_string(area, b + 16)) = v[2]
  BY <1>2, <1>3, <1>4, OptionTextAt DEF U
<1> QED
  BY <1>3, <1>5, <1>6 DEF read_tls_alert

LEMMA FieldSizeAt ==
  ASSUME NEW v \in FieldSizePayload.values, NEW area, NEW b \in Nat,
         Holds(area, FieldSizePayload, v, b + 8)
  PROVE  read_field_size(area, b) = v
<1> DEFINE T == OptionOf(Text)
           U == OptionOf(Number(4))
<1>1. IsLayout(T) /\ IsLayout(U) /\ SecondAt(T, U) = 12 /\ FieldSizePayload = Pair(T, U)
  BY OptionLayouts, KnownPayloads DEF FieldSizePayload
<1>2. /\ b + 8 \in Nat /\ b + 20 \in Nat /\ (b + 8) + 12 = b + 20
      /\ (b + 8) + 4 = b + 12 /\ (b + 20) + 4 = b + 24
  OBVIOUS
<1> HIDE DEF T, U
<1>3. v = <<v[1], v[2]>> /\ v[1] \in T.values /\ v[2] \in U.values
  BY <1>1, PairParts
<1>4. Holds(area, T, v[1], b + 8) /\ Holds(area, U, v[2], b + 20)
  BY <1>1, <1>2, HoldsPair
<1>5. read_option(Read(area, b + 8, 1), read_string(area, b + 12)) = v[1]
  BY <1>2, <1>3, <1>4, OptionTextAt DEF T
<1>6. read_option(Read(area, b + 20, 1), Read(area, b + 24, 4)) = v[2]
  BY <1>2, <1>3, <1>4, OptionNumberAt DEF U
<1> QED
  BY <1>3, <1>5, <1>6 DEF read_field_size

(* The payload of an error code, and the code.                              *)
LEMMA BodySizeWhere ==
  ASSUME NEW area, NEW b, NEW m, m = 17 \/ m = 28
  PROVE  read_payload(area, b, m) = read_option(Read(area, b + 8, 1), Read(area, b + 16, 8))
<1>1. CASE m = 17
  BY <1>1 DEF read_payload
<1>2. CASE m = 28
  BY <1>2 DEF read_payload
<1> QED
  BY <1>1, <1>2

LEMMA PayloadRead ==
  ASSUME NEW i \in 1 .. 39, NEW P, P = PayloadOf(Cases[i]), NEW x \in P.values,
         NEW area, NEW b \in Nat, Holds(area, P, x, b + 8)
  PROVE  read_payload(area, b, i - 1) = x
<1>1. b + 8 \in Nat /\ (b + 8) + 4 = b + 12 /\ (b + 8) + 8 = b + 16
  OBVIOUS
<1>n. ASSUME NEW n \in {1, 2, 4, 8}, P = OptionOf(Number(n))
      PROVE  read_option(Read(area, b + 8, 1), Read(area, (b + 8) + n, n)) = x
  BY <1>1, <1>n, OptionNumberAt
<1>m. 4 \in {1, 2, 4, 8} /\ 8 \in {1, 2, 4, 8}
  OBVIOUS
<1>2. CASE i = 2
  <2>1. P = DnsErrorPayload
    BY <1>2, PayloadIs
  <2>2. read_payload(area, b, i - 1) = read_dns_error(area, b)
    BY <1>2 DEF read_payload
  <2> QED
    BY <2>1, <2>2, DnsErrorAt
<1>3. CASE i = 15
  <2>1. P = TlsAlertReceivedPayload
    BY <1>3, PayloadIs
  <2>2. read_payload(area, b, i - 1) = read_tls_alert(area, b)
    BY <1>3 DEF read_payload
  <2> QED
    BY <2>1, <2>2, TlsAlertAt
<1>4. CASE i = 23
  <2>1. P = OptionOf(FieldSizePayload)
    BY <1>4, PayloadIs
  <2>2. read_payload(area, b, i - 1)
          = read_option(Read(area, b + 8, 1), read_field_size(area, b + 4))
    BY <1>4 DEF read_payload
  <2>3. b + 4 \in Nat /\ (b + 4) + 8 = (b + 8) + 4
    OBVIOUS
  <2>4. \A y \in FieldSizePayload.values :
          x = Some(y) /\ Holds(area, FieldSizePayload, y, (b + 8) + FieldSizePayload.align)
            => read_field_size(area, b + 4) = y
    BY <2>3, OptionLayouts, FieldSizeAt
  <2>5. read_option(Read(area, b + 8, 1), read_field_size(area, b + 4)) = x
    BY <1>1, <2>1, <2>4, OptionLayouts, OptionRead
  <2> QED
    BY <2>2, <2>5
<1>5. CASE i \in BodySizes
  <2>1. P = OptionOf(Number(8))
    BY <1>5, PayloadIs
  <2>2. read_payload(area, b, i - 1) = read_option(Read(area, b + 8, 1), Read(area, b + 16, 8))
    <3>1. ASSUME NEW m, m = 17 \/ m = 28
          PROVE  read_payload(area, b, m)
                   = read_option(Read(area, b + 8, 1), Read(area, b + 16, 8))
      BY <3>1, BodySizeWhere
    <3>2. i - 1 = 17 \/ i - 1 = 28
      BY <1>5 DEF BodySizes
    <3> QED
      BY <3>1, <3>2
  <2>3. read_option(Read(area, b + 8, 1), Read(area, (b + 8) + 8, 8)) = x
    BY <2>1, <1>n, <1>m, Zenon
  <2> QED
    BY <1>1, <2>2, <2>3
<1>6. CASE i \in SectionSizes
  <2>1. P = OptionOf(Number(4))
    BY <1>6, PayloadIs
  <2>2. read_payload(area, b, i - 1) = read_option(Read(area, b + 8, 1), Read(area, b + 12, 4))
    <3>1. ASSUME NEW m, m = 21 \/ m = 23 \/ m = 26 \/ m = 29
          PROVE  read_payload(area, b, m)
                   = read_option(Read(area, b + 8, 1), Read(area, b + 12, 4))
      <4>1. CASE m = 21
        BY <4>1 DEF read_payload
      <4>2. CASE m = 23
        BY <4>2 DEF read_payload
      <4>3. CASE m = 26
        BY <4>3 DEF read_payload
      <4>4. CASE m = 29
        BY <4>4 DEF read_payload
      <4> QED
        BY <3>1, <4>1, <4>2, <4>3, <4>4
    <3>2. i - 1 = 21 \/ i - 1 = 23 \/ i - 1 = 26 \/ i - 1 = 29
      BY <1>6 DEF SectionSizes
    <3> QED
      BY <3>1, <3>2
  <2>3. read_option(Read(area, b + 8, 1), Read(area, (b + 8) + 4, 4)) = x
    BY <2>1, <1>n, <1>m, Zenon
  <2> QED
    BY <1>1, <2>2, <2>3
<1>7. CASE i \in FieldSizes
  <2>1. P = FieldSizePayload
    BY <1>7, PayloadIs
  <2>2. read_payload(area, b, i - 1) = read_field_size(area, b)
    <3>1. ASSUME NEW m, m = 24 \/ m = 27 \/ m = 30
          PROVE  read_payload(area, b, m) = read_field_size(area, b)
      <4>1. CASE m = 24
        BY <4>1 DEF read_payload
      <4>2. CASE m = 27
        BY <4>2 DEF read_payload
      <4>3. CASE m = 30
        BY <4>3 DEF read_payload
      <4> QED
        BY <3>1, <4>1, <4>2, <4>3
    <3>2. i - 1 = 24 \/ i - 1 = 27 \/ i - 1 = 30
      BY <1>7 DEF FieldSizes
    <3> QED
      BY <3>1, <3>2
  <2> QED
    BY <2>1, <2>2, FieldSizeAt
<1>8. CASE i \in Remarks
  <2>1. P = OptionOf(Text)
    BY <1>8, PayloadIs
  <2>2. read_payload(area, b, i - 1)
          = read_option(Read(area, b + 8, 1), read_string(area, b + 12))
    <3>1. ASSUME NEW m, m = 31 \/ m = 32 \/ m = 38
          PROVE  read_payload(area, b, m)
                   = read_option(Read(area, b + 8, 1), read_string(area, b + 12))
      <4>1. CASE m = 31
        BY <4>1 DEF read_payload
      <4>2. CASE m = 32
        BY <4>2 DEF read_payload
      <4>3. CASE m = 38
        BY <4>3 DEF read_payload
      <4> QED
        BY <3>1, <4>1, <4>2, <4>3
    <3>2. i - 1 = 31 \/ i - 1 = 32 \/ i - 1 = 38
      BY <1>8 DEF Remarks
    <3> QED
      BY <3>1, <3>2
  <2> QED
    BY <1>1, <2>1, <2>2, OptionTextAt
<1>9. CASE i \notin WithPayload
  <2>1. P = Unit
    BY <1>9, PayloadIs
  <2>2. x = <<>>
    BY <2>1, UnitTakes
  <2>3. i - 1 \notin {1, 14, 17, 21, 22, 23, 24, 26, 27, 28, 29, 30, 31, 32} /\ ~(i - 1 >= 38)
    BY <1>9 DEF WithPayload, BodySizes, SectionSizes, FieldSizes, Remarks
  <2>4. read_payload(area, b, i - 1) = <<>>
    BY <2>3 DEF read_payload
  <2> QED
    BY <2>2, <2>4
<1> QED
  BY <1>2, <1>3, <1>4, <1>5, <1>6, <1>7, <1>8, <1>9 DEF WithPayload

LEMMA ErrorCodeRead ==
  ASSUME NEW e \in ErrorCode.values, NEW area, NEW b \in Nat, Holds(area, ErrorCode, e, b)
  PROVE  read_error_code(area, b) = e
<1>1. PICK i \in 1 .. 39 : \E x \in PayloadOf(Cases[i]).values : e = <<Cases[i], x>>
  <2>1. PICK i \in DOMAIN CodeCases : \E x \in CodeCases[i][2].values : e = <<CodeCases[i][1], x>>
    BY CodeIs, VariantValue
  <2>2. i \in 1 .. 39
    BY <2>1, CodeIs
  <2>3. CodeCases[i][1] = Cases[i] /\ CodeCases[i][2] = PayloadOf(Cases[i])
    BY <2>2, CodeIs
  <2> QED
    BY <2>1, <2>2, <2>3
<1>2. PICK x \in PayloadOf(Cases[i]).values : e = <<Cases[i], x>>
  BY <1>1
<1>3. Read(area, b, 1) = i - 1 /\ Holds(area, PayloadOf(Cases[i]), x, b + 8)
  <2>1. /\ i \in DOMAIN CodeCases /\ CodeCases[i][1] = Cases[i]
        /\ CodeCases[i][2] = PayloadOf(Cases[i])
    BY CodeIs
  <2>2. e = <<CodeCases[i][1], x>> /\ x \in CodeCases[i][2].values
    BY <1>2, <2>1
  <2>3. Read(area, b, 1) = i - 1 /\ Holds(area, CodeCases[i][2], x, b + 8)
    BY <2>1, <2>2, CodeIs, HoldsVariant
  <2> QED
    BY <2>1, <2>3
<1>4. read_payload(area, b, i - 1) = x
  BY <1>3, PayloadRead
<1>5. CaseRead[IF i - 1 < 38 THEN (i - 1) + 1 ELSE 39] = Cases[i]
  <2>1. CaseRead = Cases
    BY DEF CaseRead, Cases
  <2>2. (IF i - 1 < 38 THEN (i - 1) + 1 ELSE 39) = i
    OBVIOUS
  <2> QED
    BY <2>1, <2>2
<1> QED
  BY <1>2, <1>3, <1>4, <1>5 DEF read_error_code

-----------------------------------------------------------------------------
(* The types of the results.                                                *)
LEMMA ResultTakes ==
  ASSUME NEW T, IsLayout(T), IsFlat(T), NEW E, IsLayout(E), IsFlat(E),
         NEW f \in {T.flat, E.flat}, T.flat <= f, E.flat <= f
  PROVE  /\ IsFlat(ResultOf(T, E)) /\ ResultOf(T, E).flat = 1 + f
         /\ \A x \in T.values : \A k \in Nat : \A words :
              TakesAt(ResultOf(T, E), Ok(x), words, k)
                <=> words[k + 1] % W32 = 0 /\ TakesAt(T, x, words, k + 1)
         /\ \A x \in E.values : \A k \in Nat : \A words :
              TakesAt(ResultOf(T, E), Err(x), words, k)
                <=> words[k + 1] % W32 = 1 /\ TakesAt(E, x, words, k + 1)
<1> DEFINE Cs == Two("Ok", T, "Err", E)
<1>1. ResultOf(T, E) = Variant(Cs) /\ IsCases(Cs)
  BY ResultCases
<1>2. /\ DOMAIN Cs = {1, 2} /\ Cs[1][1] = "Ok" /\ Cs[1][2] = T
      /\ Cs[2][1] = "Err" /\ Cs[2][2] = E
  BY DEF Two
<1> HIDE DEF Cs
<1>3. /\ \A i \in DOMAIN Cs : IsFlat(Cs[i][2]) /\ Cs[i][2].flat <= f
      /\ \E i \in DOMAIN Cs : Cs[i][2].flat = f
  BY <1>2
<1>4. /\ IsFlat(Variant(Cs)) /\ Variant(Cs).flat = 1 + f
      /\ \A i \in DOMAIN Cs : \A x \in Cs[i][2].values : \A k \in Nat : \A words :
           TakesAt(Variant(Cs), <<Cs[i][1], x>>, words, k)
             <=> words[k + 1] % W32 = i - 1 /\ TakesAt(Cs[i][2], x, words, k + 1)
  BY <1>1, <1>3, VariantTakes
<1>5. ASSUME NEW x \in T.values, NEW k \in Nat, NEW words
      PROVE  TakesAt(ResultOf(T, E), Ok(x), words, k)
                <=> words[k + 1] % W32 = 0 /\ TakesAt(T, x, words, k + 1)
  <2>1. Ok(x) = <<Cs[1][1], x>> /\ 1 \in DOMAIN Cs /\ x \in Cs[1][2].values
    BY <1>2 DEF Ok
  <2>2. TakesAt(ResultOf(T, E), Ok(x), words, k)
          <=> words[k + 1] % W32 = 1 - 1 /\ TakesAt(T, x, words, k + 1)
    BY <1>1, <1>2, <1>4, <2>1
  <2> QED
    BY <2>2
<1>6. ASSUME NEW x \in E.values, NEW k \in Nat, NEW words
      PROVE  TakesAt(ResultOf(T, E), Err(x), words, k)
                <=> words[k + 1] % W32 = 1 /\ TakesAt(E, x, words, k + 1)
  <2>1. Err(x) = <<Cs[2][1], x>> /\ 2 \in DOMAIN Cs /\ x \in Cs[2][2].values
    BY <1>2 DEF Err
  <2>2. TakesAt(ResultOf(T, E), Err(x), words, k)
          <=> words[k + 1] % W32 = 2 - 1 /\ TakesAt(E, x, words, k + 1)
    BY <1>1, <1>2, <1>4, <2>1
  <2> QED
    BY <2>2
<1> QED
  BY <1>1, <1>4, <1>5, <1>6

LEMMA KnownResult ==
  ASSUME NEW T, NEW a, NEW s, NEW f, Known(T, a, s, f),
         NEW E, NEW b, NEW t, NEW g, Known(E, b, t, g),
         NEW m \in {a, b}, a <= m, b <= m, NEW n \in {s, t}, s <= n, t <= n,
         NEW h \in {f, g}, f <= h, g <= h
  PROVE  ResultAlign(T, E) = m /\ Known(ResultOf(T, E), m, RoundUp(m + n, m), 1 + h)
<1>1. a \in {1, 2, 4, 8} /\ b \in {1, 2, 4, 8} /\ s \in Nat /\ t \in Nat
  BY DEF Known, IsLayout
<1>2. ResultAlign(T, E) = m
  BY <1>1 DEF Known, ResultAlign
<1>3. n = IF s <= t THEN t ELSE s
  BY <1>1
<1>4. IsLayout(ResultOf(T, E)) /\ ResultOf(T, E).align = m
  BY <1>2, ResultLayout DEF Known
<1>5. ResultOf(T, E).size = RoundUp(m + n, m)
  <2>1. n = IF T.size <= E.size THEN E.size ELSE T.size
    BY <1>3 DEF Known
  <2> QED
    BY <1>2, <2>1, ResultLayout DEF Known
<1>6. IsFlat(ResultOf(T, E)) /\ ResultOf(T, E).flat = 1 + h
  BY ResultTakes DEF Known
<1> QED
  BY <1>2, <1>4, <1>5, <1>6 DEF Known

(* A type that takes no more room than an error code, as those of the       *)
(* results are.                                                             *)
IsSmall(T) ==
  \E a \in {1, 2, 4, 8} : \E s \in 0 .. 32 : \E f \in 0 .. 7 : Known(T, a, s, f)

(* A future's result of type T is at 24, after an option and two results.   *)
Ended(T) == ResultOf(ResultOf(T, ErrorCode), Unit)

LEMMA KnownResults ==
  ASSUME NEW T, IsSmall(T)
  PROVE  /\ Known(ResultOf(T, ErrorCode), 8, 40, 8) /\ ResultAlign(T, ErrorCode) = 8
         /\ Known(Ended(T), 8, 48, 9) /\ ResultAlign(ResultOf(T, ErrorCode), Unit) = 8
         /\ Known(Future(T), 8, 56, 10)
         /\ Known(OptionOf(ErrorCode), 8, 40, 8)
<1>0. PICK a \in {1, 2, 4, 8}, s \in 0 .. 32, f \in 0 .. 7 : Known(T, a, s, f)
  BY DEF IsSmall
<1>1. Known(ErrorCode, 8, 32, 7) /\ Known(Unit, 1, 0, 0)
  BY CodeIs, KnownParts
<1>2. /\ RoundUp(8 + 32, 8) = 40 /\ RoundUp(8 + 40, 8) = 48 /\ RoundUp(8 + 48, 8) = 56
      /\ 1 + 7 = 8 /\ 1 + 8 = 9 /\ 1 + 9 = 10
  BY DEF RoundUp
<1>3. /\ 8 \in {a, 8} /\ a <= 8 /\ 8 <= 8 /\ 32 \in {s, 32} /\ s <= 32 /\ 32 <= 32
      /\ 7 \in {f, 7} /\ f <= 7 /\ 7 <= 7
  OBVIOUS
<1>5. /\ ResultAlign(T, ErrorCode) = 8
      /\ Known(ResultOf(T, ErrorCode), 8, RoundUp(8 + 32, 8), 1 + 7)
  <2>1. PICK m, n, h : m = 8 /\ n = 32 /\ h = 7
    OBVIOUS
  <2>2. /\ m \in {a, m} /\ a <= m /\ m <= m /\ n \in {s, n} /\ s <= n /\ n <= n
        /\ h \in {f, h} /\ f <= h /\ h <= h
    BY <1>3, <2>1
  <2>3. Known(ErrorCode, m, n, h)
    BY <1>1, <2>1
  <2>4. /\ ResultAlign(T, ErrorCode) = m
        /\ Known(ResultOf(T, ErrorCode), m, RoundUp(m + n, m), 1 + h)
    BY <1>0, <2>2, <2>3, KnownResult
  <2> QED
    BY <2>1, <2>4
<1>6. Known(ResultOf(T, ErrorCode), 8, 40, 8)
  BY <1>2, <1>5
<1>7. /\ ResultAlign(ResultOf(T, ErrorCode), Unit) = 8
      /\ Known(ResultOf(ResultOf(T, ErrorCode), Unit), 8, RoundUp(8 + 40, 8), 1 + 8)
  <2>1. PICK R, m, n, h, b, t : /\ R = ResultOf(T, ErrorCode) /\ m = 8 /\ n = 40 /\ h = 8
                                /\ b = 1 /\ t = 0
    OBVIOUS
  <2>2. /\ m \in {m, b} /\ b <= m /\ m <= m /\ n \in {n, t} /\ t <= n /\ n <= n
        /\ h \in {h, t} /\ t <= h /\ h <= h
    BY <2>1
  <2>3. Known(R, m, n, h) /\ Known(Unit, b, t, t)
    BY <1>1, <1>6, <2>1
  <2>4. ResultAlign(R, Unit) = m /\ Known(ResultOf(R, Unit), m, RoundUp(m + n, m), 1 + h)
    BY <2>2, <2>3, KnownResult
  <2> QED
    BY <2>1, <2>4
<1>8. Known(Ended(T), 8, 48, 9)
  BY <1>2, <1>7 DEF Ended
<1>9. Known(OptionOf(Ended(T)), 8, RoundUp(8 + 48, 8), 1 + 9)
  BY <1>8, KnownOption, Zenon
<1>10. Known(OptionOf(ErrorCode), 8, RoundUp(8 + 32, 8), 1 + 7)
  BY <1>1, KnownOption, Zenon
<1> QED
  BY <1>2, <1>5, <1>6, <1>7, <1>8, <1>9, <1>10 DEF Future, Ended

LEMMA StoredIn ==
  ASSUME NEW T, NEW a, NEW s, NEW f, Known(T, a, s, f), NEW v \in T.values,
         NEW area, area = Store(T, v, 0)
  PROVE  Holds(area, T, v, 0) /\ \A c \in area : c.at + c.bytes <= s
<1>1. IsLayout(T) /\ T.size = s /\ s \in Nat /\ Within(T.cells[v], s)
  BY DEF Known, IsLayout
<1>2. PICK b \in Nat : b = 0
  OBVIOUS
<1>3. Holds(area, T, v, b)
  BY <1>1, <1>2, StoreHolds
<1>4. ASSUME NEW c \in Moved(T.cells[v], b)  PROVE c.at + c.bytes <= b + s
  BY <1>1, MovedIn
<1> QED
  BY <1>1, <1>2, <1>3, <1>4 DEF Store

(* Each site reads what the host stored.                                    *)
LEMMA CodeRead ==
  ASSUME NEW T, IsSmall(T),
         NEW v \in ResultOf(T, ErrorCode).values, NEW area, NEW b \in Nat,
         Holds(area, ResultOf(T, ErrorCode), v, b),
         NEW r, \A x \in T.values : Holds(area, T, x, b + 8) => r = x
  PROVE  read_result(Read(area, b, 1), r, read_error_code(area, b + 8)) = v
<1>1. /\ IsLayout(T) /\ IsLayout(ErrorCode) /\ ResultAlign(T, ErrorCode) = 8
      /\ b + 8 \in Nat
  <2>1. ResultAlign(T, ErrorCode) = 8
    BY KnownResults
  <2>2. IsLayout(T) /\ IsLayout(ErrorCode)
    BY CodeIs DEF IsSmall, Known
  <2> QED
    BY <2>1, <2>2
<1>2. \A x \in ErrorCode.values :
        Holds(area, ErrorCode, x, b + 8) => read_error_code(area, b + 8) = x
  BY <1>1, ErrorCodeRead
<1> QED
  BY <1>1, <1>2, ResultRead

LEMMA FutureRead ==
  ASSUME NEW T, IsSmall(T),
         NEW v \in Future(T).values, NEW area, Holds(area, Future(T), v, 0),
         NEW r, \A x \in T.values : Holds(area, T, x, 24) => r = x
  PROVE  read_option(Read(area, 0, 1),
           read_result(Read(area, 8, 1),
             read_result(Read(area, 16, 1), r, read_error_code(area, 24)), <<>>)) = v
<1> DEFINE code == read_result(Read(area, 16, 1), r, read_error_code(area, 24))
           end == read_result(Read(area, 8, 1), code, <<>>)
           R == ResultOf(T, ErrorCode)
<1>1. PICK p, q, u : p = 0 /\ q = 8 /\ u = 16
  OBVIOUS
<1>2. p \in Nat /\ q \in Nat /\ u \in Nat /\ p + 8 = q /\ q + 8 = u /\ u + 8 = 24
  BY <1>1
<1>3. /\ IsLayout(R) /\ IsLayout(Unit) /\ ResultAlign(R, Unit) = 8
      /\ IsLayout(Ended(T)) /\ Ended(T).align = 8
      /\ Ended(T) = ResultOf(R, Unit) /\ Future(T) = OptionOf(Ended(T))
  <2>1. /\ Known(R, 8, 40, 8) /\ ResultAlign(R, Unit) = 8 /\ Known(Ended(T), 8, 48, 9)
    BY KnownResults
  <2>2. IsLayout(R) /\ IsLayout(Ended(T)) /\ Ended(T).align = 8
    BY <2>1 DEF Known
  <2> QED
    BY <2>1, <2>2, UnitLayout DEF Ended, Future
<1> HIDE DEF R, code
<1>4. ASSUME NEW x \in R.values, Holds(area, R, x, u)  PROVE code = x
  <2>1. \A y \in T.values : Holds(area, T, y, u + 8) => r = y
    BY <1>2
  <2>2. read_result(Read(area, u, 1), r, read_error_code(area, u + 8)) = x
    <3>1. x \in ResultOf(T, ErrorCode).values /\ Holds(area, ResultOf(T, ErrorCode), x, u)
      BY <1>4 DEF R
    <3> QED
      BY <1>2, <2>1, <3>1, CodeRead
  <2> QED
    BY <1>1, <1>2, <2>2 DEF code
<1>5. ASSUME NEW x \in Ended(T).values, Holds(area, Ended(T), x, q)  PROVE end = x
  <2>1. \A y \in R.values : x = Ok(y) /\ Holds(area, R, y, q + ResultAlign(R, Unit)) => code = y
    BY <1>2, <1>3, <1>4
  <2>2. \A y \in Unit.values :
          x = Err(y) /\ Holds(area, Unit, y, q + ResultAlign(R, Unit)) => <<>> = y
    BY UnitTakes
  <2>3. read_result(Read(area, q, 1), code, <<>>) = x
    BY <1>2, <1>3, <1>5, <2>1, <2>2, ResultRead
  <2> QED
    BY <1>1, <2>3
<1> HIDE DEF end
<1>6. \A x \in Ended(T).values :
        v = Some(x) /\ Holds(area, Ended(T), x, p + Ended(T).align) => end = x
  BY <1>2, <1>3, <1>5
<1>7. read_option(Read(area, p, 1), end) = v
  BY <1>1, <1>2, <1>3, <1>6, OptionRead
<1> QED
  BY <1>1, <1>7 DEF end, code

LEMMA KnownHandles ==
  /\ Known(Handle, 4, 4, 1) /\ Handle = Number(4) /\ Handle.values = Numbers(4)
  /\ Known(OptionOf(Handle), 4, 8, 2)
<1>1. Handle = Number(4)
  BY DEF Handle
<1>2. Known(Number(4), 4, 4, 1)
  BY KnownParts
<1>3. Number(4).values = Numbers(4)
  BY DEF Number
<1> QED
  BY <1>1, <1>2, <1>3, KnownPayloads

LEMMA SmallOnes == IsSmall(Unit) /\ IsSmall(Handle) /\ IsSmall(OptionOf(Handle))
<1>1. Known(Unit, 1, 0, 0) /\ Known(Handle, 4, 4, 1) /\ Known(OptionOf(Handle), 4, 8, 2)
  BY KnownParts, KnownHandles
<1>2. /\ 1 \in {1, 2, 4, 8} /\ 4 \in {1, 2, 4, 8}
      /\ 0 \in 0 .. 32 /\ 4 \in 0 .. 32 /\ 8 \in 0 .. 32
      /\ 0 \in 0 .. 7 /\ 1 \in 0 .. 7 /\ 2 \in 0 .. 7
  OBVIOUS
<1>3. IsSmall(Unit)
  BY <1>1, <1>2, Zenon DEF IsSmall
<1>4. IsSmall(Handle)
  BY <1>1, <1>2, Zenon DEF IsSmall
<1>5. IsSmall(OptionOf(Handle))
  BY <1>1, <1>2, Zenon DEF IsSmall
<1> QED
  BY <1>3, <1>4, <1>5

LEMMA SitesRead ==
  /\ \A v \in OptionOf(ErrorCode).values :
       http_error_code(Store(OptionOf(ErrorCode), v, 0)) = v
  /\ \A v \in ResultOf(Unit, ErrorCode).values :
       OutgoingBody_finish(Store(ResultOf(Unit, ErrorCode), v, 0)) = v
  /\ \A v \in ResultOf(Handle, ErrorCode).values :
       handle(Store(ResultOf(Handle, ErrorCode), v, 0)) = v
  /\ \A v \in Future(OptionOf(Handle)).values :
       FutureTrailers_get(Store(Future(OptionOf(Handle)), v, 0)) = v
  /\ \A v \in Future(Handle).values :
       FutureIncomingResponse_get(Store(Future(Handle), v, 0)) = v
<1>1. PICK p : p = 0
  OBVIOUS
<1>2. p \in Nat /\ p + 8 = 8 /\ 8 \in Nat /\ 24 \in Nat /\ 24 + 4 = 28
  BY <1>1
<1>3. ASSUME NEW v \in OptionOf(ErrorCode).values, NEW area,
             area = Store(OptionOf(ErrorCode), v, 0)
      PROVE  http_error_code(area) = v
  <2>1. Known(OptionOf(ErrorCode), 8, 40, 8) /\ IsLayout(ErrorCode) /\ ErrorCode.align = 8
    <3>1. Known(OptionOf(ErrorCode), 8, 40, 8)
      BY SmallOnes, KnownResults
    <3> QED
      BY <3>1, CodeIs DEF Known
  <2>2. Holds(area, OptionOf(ErrorCode), v, p)
    BY <1>1, <1>3, <2>1, StoredIn
  <2>3. \A x \in ErrorCode.values :
          v = Some(x) /\ Holds(area, ErrorCode, x, p + ErrorCode.align)
            => read_error_code(area, 8) = x
    BY <1>2, <2>1, ErrorCodeRead
  <2>4. read_option(Read(area, p, 1), read_error_code(area, 8)) = v
    BY <1>2, <2>1, <2>2, <2>3, OptionRead
  <2> QED
    BY <1>1, <2>4 DEF http_error_code
<1>4. ASSUME NEW v \in ResultOf(Unit, ErrorCode).values, NEW area,
             area = Store(ResultOf(Unit, ErrorCode), v, 0)
      PROVE  OutgoingBody_finish(area) = v
  <2>1. IsSmall(Unit) /\ Known(ResultOf(Unit, ErrorCode), 8, 40, 8)
    BY SmallOnes, KnownResults
  <2>2. Holds(area, ResultOf(Unit, ErrorCode), v, p)
    BY <1>1, <1>4, <2>1, StoredIn
  <2>3. \A x \in Unit.values : <<>> = x
    BY UnitTakes
  <2>4. read_result(Read(area, p, 1), <<>>, read_error_code(area, p + 8)) = v
    BY <1>2, <2>1, <2>2, <2>3, CodeRead
  <2> QED
    BY <1>1, <1>2, <2>4 DEF OutgoingBody_finish
<1>5. ASSUME NEW v \in ResultOf(Handle, ErrorCode).values, NEW area,
             area = Store(ResultOf(Handle, ErrorCode), v, 0)
      PROVE  handle(area) = v
  <2>1. IsSmall(Handle) /\ Known(ResultOf(Handle, ErrorCode), 8, 40, 8)
    BY SmallOnes, KnownResults
  <2>2. Holds(area, ResultOf(Handle, ErrorCode), v, p)
    BY <1>1, <1>5, <2>1, StoredIn
  <2>3. \A x \in Handle.values : Holds(area, Handle, x, p + 8) => Read(area, 8, 4) = x
    BY <1>2, KnownHandles, HoldsNumber
  <2>4. read_result(Read(area, p, 1), Read(area, 8, 4), read_error_code(area, p + 8)) = v
    BY <1>2, <2>1, <2>2, <2>3, CodeRead
  <2> QED
    BY <1>1, <1>2, <2>4 DEF handle
<1>6. ASSUME NEW v \in Future(OptionOf(Handle)).values, NEW area,
             area = Store(Future(OptionOf(Handle)), v, 0)
      PROVE  FutureTrailers_get(area) = v
  <2>1. IsSmall(OptionOf(Handle)) /\ Known(Future(OptionOf(Handle)), 8, 56, 10)
    BY SmallOnes, KnownResults
  <2>2. Holds(area, Future(OptionOf(Handle)), v, 0)
    BY <1>6, <2>1, StoredIn
  <2>3. \A x \in OptionOf(Handle).values : Holds(area, OptionOf(Handle), x, 24)
          => read_option(Read(area, 24, 1), Read(area, 28, 4)) = x
    BY <1>2, KnownHandles, OptionNumberAt
  <2> QED
    BY <2>1, <2>2, <2>3, FutureRead DEF FutureTrailers_get
<1>7. ASSUME NEW v \in Future(Handle).values, NEW area, area = Store(Future(Handle), v, 0)
      PROVE  FutureIncomingResponse_get(area) = v
  <2>1. IsSmall(Handle) /\ Known(Future(Handle), 8, 56, 10)
    BY SmallOnes, KnownResults
  <2>2. Holds(area, Future(Handle), v, 0)
    BY <1>7, <2>1, StoredIn
  <2>3. \A x \in Handle.values : Holds(area, Handle, x, 24) => Read(area, 24, 4) = x
    BY <1>2, KnownHandles, HoldsNumber
  <2> QED
    BY <2>1, <2>2, <2>3, FutureRead DEF FutureIncomingResponse_get
<1> QED
  BY <1>3, <1>4, <1>5, <1>6, <1>7

-----------------------------------------------------------------------------
(* Writing. The words of an option of a text and of a number, before any    *)
(* cast.                                                                    *)
TextWords(v, a, b, c) ==
  /\ a \in {0, 1} /\ b \in Nat /\ b < W32 /\ c \in Nat /\ c < W32
  /\ \A k \in Nat : \A words :
       words[k + 1] % W32 = a /\ words[k + 2] % W32 = b /\ words[k + 3] % W32 = c
         => TakesAt(OptionOf(Text), v, words, k)

NumberWords(n, v, d, e) ==
  /\ d \in {0, 1} /\ e \in Nat /\ e < Values(n)
  /\ \A k \in Nat : \A words :
       words[k + 1] % W32 = d /\ words[k + 2] % Values(n) = e
         => TakesAt(OptionOf(Number(n)), v, words, k)

LEMMA TextWritten ==
  ASSUME NEW v \in OptionOf(Text).values
  PROVE  \E a, b, c : write_option_string(v) = <<a, b, c>> /\ TextWords(v, a, b, c)
<1>1. CASE v = None
  <2>1. write_option_string(v) = <<0, 0, 0>>
    BY <1>1 DEF write_option_string
  <2>2. TextWords(v, 0, 0, 0)
    <3>1. 0 \in {0, 1} /\ 0 \in Nat /\ 0 < W32
      BY Widths
    <3>2. ASSUME NEW k \in Nat, NEW words, words[k + 1] % W32 = 0
          PROVE  TakesAt(OptionOf(Text), v, words, k)
      BY <1>1, <3>2, OptionTextTakes
    <3> QED
      BY <3>1, <3>2 DEF TextWords
  <2> QED
    BY <2>1, <2>2
<1>2. ASSUME NEW t \in Texts, v = Some(t)
      PROVE  \E a, b, c : write_option_string(v) = <<a, b, c>> /\ TextWords(v, a, b, c)
  <2>1. v # None /\ v[2] = t
    BY <1>2 DEF None, Some
  <2>2. write_option_string(v) = <<1, t, TextLen(t)>>
    BY <2>1 DEF write_option_string
  <2>3. /\ 1 \in {0, 1} /\ t \in Nat /\ t < W32
        /\ TextLen(t) \in Nat /\ TextLen(t) < W32
    BY TextIs
  <2>4. ASSUME NEW k \in Nat, NEW words, words[k + 1] % W32 = 1,
               words[k + 2] % W32 = t, words[k + 3] % W32 = TextLen(t)
        PROVE  TakesAt(OptionOf(Text), v, words, k)
    BY <1>2, <2>4, OptionTextTakes
  <2>5. TextWords(v, 1, t, TextLen(t))
    BY <2>3, <2>4 DEF TextWords
  <2> QED
    BY <2>2, <2>5
<1>3. Text.values = Texts
  BY DEF Text
<1> QED
  BY <1>1, <1>2, <1>3, OptionValue

LEMMA NumberWritten ==
  ASSUME NEW n \in {1, 2, 4, 8}, NEW v \in OptionOf(Number(n)).values
  PROVE  \E d, e :
           /\ NumberWords(n, v, d, e)
           /\ (IF v = None THEN <<0, 0>> ELSE <<1, v[2]>>) = <<d, e>>
           /\ (IF v = None THEN <<0, 0>> ELSE <<1, as_i32(v[2])>>) = <<d, as_i32(e)>>
           /\ (IF v = None THEN <<0, 0>> ELSE <<1, as_i64(v[2])>>) = <<d, as_i64(e)>>
<1>1. CASE v = None
  <2>1. as_i32(0) = 0 /\ as_i64(0) = 0
    BY Widths DEF as_i32, as_i64
  <2>2. NumberWords(n, v, 0, 0)
    <3>1. 0 \in {0, 1} /\ 0 \in Nat /\ 0 < Values(n)
      BY Widths DEF Values
    <3>2. ASSUME NEW k \in Nat, NEW words, words[k + 1] % W32 = 0
          PROVE  TakesAt(OptionOf(Number(n)), v, words, k)
      BY <1>1, <3>2, OptionNumberTakes
    <3> QED
      BY <3>1, <3>2 DEF NumberWords
  <2> QED
    BY <1>1, <2>1, <2>2
<1>2. ASSUME NEW x \in Numbers(n), v = Some(x)
      PROVE  /\ NumberWords(n, v, 1, x)
             /\ (IF v = None THEN <<0, 0>> ELSE <<1, v[2]>>) = <<1, x>>
             /\ (IF v = None THEN <<0, 0>> ELSE <<1, as_i32(v[2])>>) = <<1, as_i32(x)>>
             /\ (IF v = None THEN <<0, 0>> ELSE <<1, as_i64(v[2])>>) = <<1, as_i64(x)>>
  <2>1. v # None /\ v[2] = x
    BY <1>2 DEF None, Some
  <2>2. 1 \in {0, 1} /\ x \in Nat /\ x < Values(n)
    BY NumberIs
  <2>3. ASSUME NEW k \in Nat, NEW words, words[k + 1] % W32 = 1, words[k + 2] % Values(n) = x
        PROVE  TakesAt(OptionOf(Number(n)), v, words, k)
    BY <1>2, <2>3, OptionNumberTakes
  <2>4. NumberWords(n, v, 1, x)
    BY <2>2, <2>3 DEF NumberWords
  <2> QED
    BY <2>1, <2>4
<1>3. Number(n).values = Numbers(n)
  BY DEF Number
<1>4. v = None \/ \E x \in Numbers(n) : v = Some(x)
  BY <1>3, OptionValue
<1> QED
  BY <1>1, <1>2, <1>4

(* The eight words of an error, of which the last six are those of x.       *)
Fills(words, m, P, x) ==
  Len(words) = 8 /\ words[1] = 1 /\ words[2] = m /\ TakesAt(P, x, words, 2)

Eight(words, m, a, b, c, d, e, f) ==
  /\ Len(words) = 8 /\ words[1] = 1 /\ words[2] = m /\ words[3] = a /\ words[4] = b
  /\ words[5] = c /\ words[6] = d /\ words[7] = e /\ words[8] = f

LEMMA Glued ==
  ASSUME NEW m, NEW a, NEW b, NEW c, NEW d, NEW e, NEW f, NEW words
  PROVE  /\ words = <<1, m>> \o (<<a, b, c>> \o <<d, e, f>>) => Eight(words, m, a, b, c, d, e, f)
         /\ words = <<1, m>> \o (<<a, b>> \o <<c, d, e, f>>) => Eight(words, m, a, b, c, d, e, f)
         /\ words = <<1, m>> \o (<<a, b, c>> \o <<d, e>> \o <<f>>)
              => Eight(words, m, a, b, c, d, e, f)
         /\ words = <<1, m>> \o (<<a, b>> \o <<c, d, e>> \o <<f>>)
              => Eight(words, m, a, b, c, d, e, f)
         /\ words = <<1, m>> \o (<<a>> \o (<<b, c, d>> \o <<e, f>>))
              => Eight(words, m, a, b, c, d, e, f)
         /\ words = <<1, m>> \o <<a, b, c, d, e, f>> => Eight(words, m, a, b, c, d, e, f)
<1>1. words = <<1, m>> \o (<<a, b, c>> \o <<d, e, f>>) => Eight(words, m, a, b, c, d, e, f)
  BY DEF Eight
<1>2. words = <<1, m>> \o (<<a, b>> \o <<c, d, e, f>>) => Eight(words, m, a, b, c, d, e, f)
  BY DEF Eight
<1>3. words = <<1, m>> \o (<<a, b, c>> \o <<d, e>> \o <<f>>) => Eight(words, m, a, b, c, d, e, f)
  BY DEF Eight
<1>4. words = <<1, m>> \o (<<a, b>> \o <<c, d, e>> \o <<f>>) => Eight(words, m, a, b, c, d, e, f)
  BY DEF Eight
<1>5. words = <<1, m>> \o (<<a>> \o (<<b, c, d>> \o <<e, f>>)) => Eight(words, m, a, b, c, d, e, f)
  BY DEF Eight
<1>6. words = <<1, m>> \o <<a, b, c, d, e, f>> => Eight(words, m, a, b, c, d, e, f)
  BY DEF Eight
<1> QED
  BY <1>1, <1>2, <1>3, <1>4, <1>5, <1>6

LEMMA TextCasts ==
  ASSUME NEW v, NEW a, NEW b, NEW c, TextWords(v, a, b, c), NEW high \in Nat
  PROVE  /\ spread(<<a, b, c>>, high) = <<a, half_written(b, high), c>>
         /\ half_written(b, high) % W32 = b
         /\ narrow(<<a, b, c>>, 1) = <<as_u64(a), b, c>> /\ as_u64(a) % W32 = a
         /\ a % W32 = a /\ b % W32 = b /\ c % W32 = c
<1>1. /\ a \in Nat /\ a < 65536 /\ b \in Nat /\ b < W32 /\ c \in Nat /\ c < W32
  BY DEF TextWords
<1>2. spread(<<a, b, c>>, high) = <<a, half_written(b, high), c>>
  BY DEF spread
<1>3. narrow(<<a, b, c>>, 1) = <<as_u64(a), b, c>>
  BY DEF narrow
<1>4. half_written(b, high) % W32 = b
  BY <1>1, HalfWritten
<1>5. a % W32 = a /\ as_u64(a) % W32 = a
  BY <1>1, SmallFits
<1>6. b % W32 = b /\ c % W32 = c
  BY <1>1, ModSmall, Widths
<1> QED
  BY <1>2, <1>3, <1>4, <1>5, <1>6

LEMMA TextLands ==
  ASSUME NEW v, NEW a, NEW b, NEW c, TextWords(v, a, b, c), NEW words, NEW k \in Nat,
         words[k + 1] % W32 = a, words[k + 2] % W32 = b, words[k + 3] % W32 = c
  PROVE  TakesAt(OptionOf(Text), v, words, k)
BY DEF TextWords

LEMMA NumberLands ==
  ASSUME NEW n, NEW v, NEW d, NEW e, NumberWords(n, v, d, e), NEW words, NEW k \in Nat,
         words[k + 1] % W32 = d, words[k + 2] % Values(n) = e
  PROVE  TakesAt(OptionOf(Number(n)), v, words, k)
BY DEF NumberWords

LEMMA RemarkFills ==
  ASSUME NEW c \in {"HttpResponseTransferCoding", "HttpResponseContentCoding", "InternalError"},
         NEW x \in OptionOf(Text).values, NEW high \in Nat, NEW m, NEW words,
         words = <<1, m>> \o write_payload(c, x, high)
  PROVE  Fills(words, m, OptionOf(Text), x)
<1>1. PICK a, b, d : write_option_string(x) = <<a, b, d>> /\ TextWords(x, a, b, d)
  BY TextWritten
<1>2. write_payload(c, x, high) = spread(write_option_string(x), high) \o <<0, 0, 0>>
  BY DEF write_payload
<1>3. PICK h : h = half_written(b, high)
  OBVIOUS
<1>4. /\ spread(<<a, b, d>>, high) = <<a, h, d>>
      /\ a % W32 = a /\ h % W32 = b /\ d % W32 = d
  BY <1>1, <1>3, TextCasts
<1>z. PICK z : z = 0
  OBVIOUS
<1>5. words = <<1, m>> \o (<<a, h, d>> \o <<z, z, z>>)
  BY <1>1, <1>2, <1>4, <1>z
<1>6. Eight(words, m, a, h, d, z, z, z)
  BY <1>5, Glued
<1>7. PICK k \in Nat : k = 2
  OBVIOUS
<1>8. words[k + 1] = a /\ words[k + 2] = h /\ words[k + 3] = d
  BY <1>6, <1>7 DEF Eight
<1>9. TakesAt(OptionOf(Text), x, words, k)
  BY <1>1, <1>4, <1>8, TextLands
<1>10. Len(words) = 8 /\ words[1] = 1 /\ words[2] = m
  BY <1>6 DEF Eight
<1> QED
  BY <1>7, <1>9, <1>10 DEF Fills

LEMMA BodySizeFills ==
  ASSUME NEW c \in {"HttpRequestBodySize", "HttpResponseBodySize"},
         NEW n \in {1, 2, 4, 8}, n = 8, NEW x \in OptionOf(Number(n)).values,
         NEW high \in Nat, NEW m, NEW words,
         words = <<1, m>> \o write_payload(c, x, high)
  PROVE  Fills(words, m, OptionOf(Number(n)), x)
<1>1. PICK d, e :
        /\ NumberWords(n, x, d, e)
        /\ (IF x = None THEN <<0, 0>> ELSE <<1, x[2]>>) = <<d, e>>
        /\ (IF x = None THEN <<0, 0>> ELSE <<1, as_i32(x[2])>>) = <<d, as_i32(e)>>
        /\ (IF x = None THEN <<0, 0>> ELSE <<1, as_i64(x[2])>>) = <<d, as_i64(e)>>
  BY NumberWritten
<1>2. NumberWords(n, x, d, e)
  BY <1>1
<1>3. write_payload(c, x, high) = narrow(write_option(x, as_i64), 2) \o <<0, 0, 0, 0>>
  BY DEF write_payload
<1>4. write_option(x, as_i64) = <<d, as_i64(e)>>
  BY <1>1 DEF write_option
<1>5. PICK w : w = as_u64(as_i64(e))
  OBVIOUS
<1>6. narrow(<<d, as_i64(e)>>, 2) = <<d, w>>
  BY <1>5 DEF narrow
<1>7. d \in Nat /\ d < 65536 /\ e \in Nat /\ e < W64
  BY <1>2 DEF NumberWords, Values
<1>8. d % W32 = d /\ w % W64 = e
  <2>1. w = e
    BY <1>5, <1>7, Cast64
  <2>2. e % W64 = e
    <3>1. W64 \in Nat
      BY Widths
    <3> QED
      BY <1>7, <3>1, ModSmall
  <2> QED
    BY <1>7, <2>1, <2>2, SmallFits
<1>z. PICK z : z = 0
  OBVIOUS
<1>9. words = <<1, m>> \o (<<d, w>> \o <<z, z, z, z>>)
  BY <1>3, <1>4, <1>6, <1>z
<1>10. Eight(words, m, d, w, z, z, z, z)
  BY <1>9, Glued
<1>11. PICK k \in Nat : k = 2
  OBVIOUS
<1>12. words[k + 1] = d /\ words[k + 2] = w
  BY <1>10, <1>11 DEF Eight
<1>13. Values(n) = W64
  BY DEF Values
<1>14. TakesAt(OptionOf(Number(n)), x, words, k)
  BY <1>2, <1>8, <1>12, <1>13, NumberLands
<1>15. Len(words) = 8 /\ words[1] = 1 /\ words[2] = m
  BY <1>10 DEF Eight
<1> QED
  BY <1>11, <1>14, <1>15 DEF Fills

LEMMA SectionSizeFills ==
  ASSUME NEW c \in {"HttpRequestHeaderSectionSize", "HttpRequestTrailerSectionSize",
                    "HttpResponseHeaderSectionSize", "HttpResponseTrailerSectionSize"},
         NEW n \in {1, 2, 4, 8}, n = 4, NEW x \in OptionOf(Number(n)).values,
         NEW high \in Nat, NEW m, NEW words,
         words = <<1, m>> \o write_payload(c, x, high)
  PROVE  Fills(words, m, OptionOf(Number(n)), x)
<1>1. PICK d, e :
        /\ NumberWords(n, x, d, e)
        /\ (IF x = None THEN <<0, 0>> ELSE <<1, x[2]>>) = <<d, e>>
        /\ (IF x = None THEN <<0, 0>> ELSE <<1, as_i32(x[2])>>) = <<d, as_i32(e)>>
        /\ (IF x = None THEN <<0, 0>> ELSE <<1, as_i64(x[2])>>) = <<d, as_i64(e)>>
  BY NumberWritten
<1>2. NumberWords(n, x, d, e)
  BY <1>1
<1>3. write_payload(c, x, high) = narrow(write_option(x, as_i32), 2) \o <<0, 0, 0, 0>>
  BY DEF write_payload
<1>4. write_option(x, as_i32) = <<d, as_i32(e)>>
  BY <1>1 DEF write_option
<1>5. PICK w : w = as_u64(as_i32(e))
  OBVIOUS
<1>6. narrow(<<d, as_i32(e)>>, 2) = <<d, w>>
  BY <1>5 DEF narrow
<1>7. d \in Nat /\ d < 65536 /\ e \in Nat /\ e < W32
  BY <1>2 DEF NumberWords, Values
<1>8. d % W32 = d /\ w % W32 = e
  BY <1>5, <1>7, SmallFits, Cast32
<1>z. PICK z : z = 0
  OBVIOUS
<1>9. words = <<1, m>> \o (<<d, w>> \o <<z, z, z, z>>)
  BY <1>3, <1>4, <1>6, <1>z
<1>10. Eight(words, m, d, w, z, z, z, z)
  BY <1>9, Glued
<1>11. PICK k \in Nat : k = 2
  OBVIOUS
<1>12. words[k + 1] = d /\ words[k + 2] = w
  BY <1>10, <1>11 DEF Eight
<1>13. Values(n) = W32
  BY DEF Values
<1>14. TakesAt(OptionOf(Number(n)), x, words, k)
  BY <1>2, <1>8, <1>12, <1>13, NumberLands
<1>15. Len(words) = 8 /\ words[1] = 1 /\ words[2] = m
  BY <1>10 DEF Eight
<1> QED
  BY <1>11, <1>14, <1>15 DEF Fills

(* Without a payload no word but the first two is looked at.                *)
LEMMA UnitFills ==
  ASSUME NEW m, NEW words, words = <<1, m>> \o <<0, 0, 0, 0, 0, 0>>
  PROVE  Fills(words, m, Unit, <<>>)
<1>1. PICK z : z = 0
  OBVIOUS
<1>2. words = <<1, m>> \o <<z, z, z, z, z, z>>
  BY <1>1
<1>3. Eight(words, m, z, z, z, z, z, z)
  BY <1>2, Glued
<1>4. Len(words) = 8 /\ words[1] = 1 /\ words[2] = m
  BY <1>3 DEF Eight
<1> QED
  BY <1>4, UnitTakes DEF Fills

(* A pair of a text and of a number: the words of both, wherever they are.  *)
LEMMA PairLands ==
  ASSUME NEW T, NEW U, IsLayout(T), IsFlat(T), IsLayout(U), IsFlat(U), NEW v \in Pair(T, U).values,
         NEW words, NEW k \in Nat, TakesAt(T, v[1], words, k), TakesAt(U, v[2], words, k + T.flat)
  PROVE  TakesAt(Pair(T, U), v, words, k)
BY PairTakes

LEMMA DnsErrorFills ==
  ASSUME NEW x \in DnsErrorPayload.values, NEW high \in Nat, NEW m, NEW words,
         words = <<1, m>> \o write_payload("DnsError", x, high)
  PROVE  Fills(words, m, DnsErrorPayload, x)
<1> DEFINE T == OptionOf(Text)
<1>1. PICK n \in {1, 2, 4, 8} : n = 2
  OBVIOUS
<1> DEFINE U == OptionOf(Number(n))
<1>2. /\ IsLayout(T) /\ IsFlat(T) /\ T.flat = 3 /\ IsLayout(U) /\ IsFlat(U)
      /\ DnsErrorPayload = Pair(T, U)
  <2>1. Known(OptionOf(Text), 4, 12, 3) /\ Known(OptionOf(Number(2)), 2, 4, 2)
    BY KnownPayloads
  <2> QED
    BY <1>1, <2>1 DEF Known, DnsErrorPayload
<1> HIDE DEF T, U
<1>3. x[1] \in T.values /\ x[2] \in U.values
  BY <1>2, PairParts
<1>4. PICK a, b, c : write_option_string(x[1]) = <<a, b, c>> /\ TextWords(x[1], a, b, c)
  BY <1>3, TextWritten DEF T
<1>5. PICK d, e :
        /\ NumberWords(n, x[2], d, e)
        /\ (IF x[2] = None THEN <<0, 0>> ELSE <<1, x[2][2]>>) = <<d, e>>
        /\ (IF x[2] = None THEN <<0, 0>> ELSE <<1, as_i32(x[2][2])>>) = <<d, as_i32(e)>>
        /\ (IF x[2] = None THEN <<0, 0>> ELSE <<1, as_i64(x[2][2])>>) = <<d, as_i64(e)>>
  BY <1>3, NumberWritten DEF U
<1>6. write_payload("DnsError", x, high)
        = spread(write_option_string(x[1]), high)
            \o (IF x[2] = None THEN <<0, 0>> ELSE <<1, x[2][2]>>) \o <<0>>
  BY DEF write_payload, write_option
<1>7. PICK h, z : h = half_written(b, high) /\ z = 0
  OBVIOUS
<1>8. /\ spread(<<a, b, c>>, high) = <<a, h, c>>
      /\ a % W32 = a /\ h % W32 = b /\ c % W32 = c
  BY <1>4, <1>7, TextCasts
<1>9. words = <<1, m>> \o (<<a, h, c>> \o <<d, e>> \o <<z>>)
  BY <1>4, <1>5, <1>6, <1>7, <1>8
<1>10. Eight(words, m, a, h, c, d, e, z)
  BY <1>9, Glued
<1>11. PICK k \in Nat : k = 2
  OBVIOUS
<1>12. /\ words[k + 1] = a /\ words[k + 2] = h /\ words[k + 3] = c
       /\ words[(k + 3) + 1] = d /\ words[(k + 3) + 2] = e
  BY <1>10, <1>11 DEF Eight
<1>13. d \in Nat /\ d < 65536 /\ e \in Nat /\ e < Values(n) /\ Values(n) = 65536
  BY <1>1, <1>5 DEF NumberWords, Values
<1>14. d % W32 = d /\ e % Values(n) = e
  <2>1. d % W32 = d
    BY <1>13, SmallFits
  <2>2. PICK w \in Nat : w = Values(n)
    BY <1>13
  <2>3. e % w = e
    BY <1>13, <2>2, ModSmall
  <2> QED
    BY <2>1, <2>2, <2>3
<1>15. TakesAt(T, x[1], words, k)
  BY <1>4, <1>8, <1>12, TextLands DEF T
<1>16. k + 3 \in Nat /\ TakesAt(U, x[2], words, k + 3)
  <2>1. NumberWords(n, x[2], d, e)
    BY <1>5
  <2>2. k + 3 \in Nat
    OBVIOUS
  <2> QED
    BY <1>12, <1>14, <2>1, <2>2, NumberLands DEF U
<1>17. TakesAt(DnsErrorPayload, x, words, k)
  BY <1>2, <1>15, <1>16, PairLands
<1>18. Len(words) = 8 /\ words[1] = 1 /\ words[2] = m
  BY <1>10 DEF Eight
<1> QED
  BY <1>11, <1>17, <1>18 DEF Fills

LEMMA TlsAlertFills ==
  ASSUME NEW x \in TlsAlertReceivedPayload.values, NEW high \in Nat, NEW m, NEW words,
         words = <<1, m>> \o write_payload("TlsAlertReceived", x, high)
  PROVE  Fills(words, m, TlsAlertReceivedPayload, x)
<1> DEFINE U == OptionOf(Text)
<1>1. PICK n \in {1, 2, 4, 8} : n = 1
  OBVIOUS
<1> DEFINE T == OptionOf(Number(n))
<1>2. /\ IsLayout(T) /\ IsFlat(T) /\ T.flat = 2 /\ IsLayout(U) /\ IsFlat(U)
      /\ TlsAlertReceivedPayload = Pair(T, U)
  <2>1. Known(OptionOf(Text), 4, 12, 3) /\ Known(OptionOf(Number(1)), 1, 2, 2)
    BY KnownPayloads
  <2> QED
    BY <1>1, <2>1 DEF Known, TlsAlertReceivedPayload
<1> HIDE DEF T, U
<1>3. x[1] \in T.values /\ x[2] \in U.values
  BY <1>2, PairParts
<1>4. PICK a, b, c : write_option_string(x[2]) = <<a, b, c>> /\ TextWords(x[2], a, b, c)
  BY <1>3, TextWritten DEF U
<1>5. PICK d, e :
        /\ NumberWords(n, x[1], d, e)
        /\ (IF x[1] = None THEN <<0, 0>> ELSE <<1, x[1][2]>>) = <<d, e>>
        /\ (IF x[1] = None THEN <<0, 0>> ELSE <<1, as_i32(x[1][2])>>) = <<d, as_i32(e)>>
        /\ (IF x[1] = None THEN <<0, 0>> ELSE <<1, as_i64(x[1][2])>>) = <<d, as_i64(e)>>
  BY <1>3, NumberWritten DEF T
<1>6. write_payload("TlsAlertReceived", x, high)
        = narrow(IF x[1] = None THEN <<0, 0>> ELSE <<1, x[1][2]>>, 2)
            \o write_option_string(x[2]) \o <<0>>
  BY DEF write_payload, write_option
<1>7. PICK w, z : w = as_u64(e) /\ z = 0
  OBVIOUS
<1>8. narrow(<<d, e>>, 2) = <<d, w>>
  BY <1>7 DEF narrow
<1>9. words = <<1, m>> \o (<<d, w>> \o <<a, b, c>> \o <<z>>)
  BY <1>4, <1>5, <1>6, <1>7, <1>8
<1>10. Eight(words, m, d, w, a, b, c, z)
  BY <1>9, Glued
<1>11. PICK k \in Nat : k = 2
  OBVIOUS
<1>12. /\ words[k + 1] = d /\ words[k + 2] = w
       /\ words[(k + 2) + 1] = a /\ words[(k + 2) + 2] = b /\ words[(k + 2) + 3] = c
  BY <1>10, <1>11 DEF Eight
<1>13. d \in Nat /\ d < 65536 /\ e \in Nat /\ e < Values(n) /\ Values(n) = 256
  BY <1>1, <1>5 DEF NumberWords, Values
<1>14. d % W32 = d /\ w % Values(n) = e
  <2>1. d % W32 = d
    BY <1>13, SmallFits
  <2>2. PICK q \in Nat : q = W64
    BY Widths
  <2>3. e < q
    BY <1>13, <2>2, Widths
  <2>4. w = e
    BY <1>7, <1>13, <2>2, <2>3, ModSmall DEF as_u64
  <2>5. PICK p \in Nat : p = Values(n)
    BY <1>13
  <2>6. e % p = e
    BY <1>13, <2>5, ModSmall
  <2> QED
    BY <2>1, <2>4, <2>5, <2>6
<1>15. TakesAt(T, x[1], words, k)
  <2>1. NumberWords(n, x[1], d, e)
    BY <1>5
  <2> QED
    BY <1>12, <1>14, <2>1, NumberLands DEF T
<1>16. k + 2 \in Nat /\ TakesAt(U, x[2], words, k + 2)
  <2>1. k + 2 \in Nat
    OBVIOUS
  <2>2. a % W32 = a /\ b % W32 = b /\ c % W32 = c
    BY <1>4, TextCasts
  <2> QED
    BY <1>4, <1>12, <2>1, <2>2, TextLands DEF U
<1>17. TakesAt(TlsAlertReceivedPayload, x, words, k)
  BY <1>2, <1>15, <1>16, PairLands
<1>18. Len(words) = 8 /\ words[1] = 1 /\ words[2] = m
  BY <1>10 DEF Eight
<1> QED
  BY <1>11, <1>17, <1>18 DEF Fills

(* The words of a field size, its text before any cast.                     *)
SizeWords(x, a, b, c, d, e) ==
  /\ write_option_string(x[1]) = <<a, b, c>> /\ TextWords(x[1], a, b, c)
  /\ \A text : write_field_size(text, x) = text \o <<d, e>>
  /\ \A k \in Nat : \A words :
       /\ words[k + 1] % W32 = a /\ words[k + 2] % W32 = b /\ words[k + 3] % W32 = c
       /\ words[k + 4] = d /\ words[k + 5] = e
       => TakesAt(FieldSizePayload, x, words, k)

LEMMA FieldSizeWritten ==
  ASSUME NEW x \in FieldSizePayload.values
  PROVE  \E a, b, c, d, e : SizeWords(x, a, b, c, d, e)
<1> DEFINE T == OptionOf(Text)
<1>1. PICK n \in {1, 2, 4, 8} : n = 4
  OBVIOUS
<1> DEFINE U == OptionOf(Number(n))
<1>2. /\ IsLayout(T) /\ IsFlat(T) /\ T.flat = 3 /\ IsLayout(U) /\ IsFlat(U)
      /\ FieldSizePayload = Pair(T, U)
  <2>1. Known(OptionOf(Text), 4, 12, 3) /\ Known(OptionOf(Number(4)), 4, 8, 2)
    BY KnownPayloads
  <2> QED
    BY <1>1, <2>1 DEF Known, FieldSizePayload
<1> HIDE DEF T, U
<1>3. x[1] \in T.values /\ x[2] \in U.values
  BY <1>2, PairParts
<1>4. PICK a, b, c : write_option_string(x[1]) = <<a, b, c>> /\ TextWords(x[1], a, b, c)
  BY <1>3, TextWritten DEF T
<1>5. PICK d, f :
        /\ NumberWords(n, x[2], d, f)
        /\ (IF x[2] = None THEN <<0, 0>> ELSE <<1, x[2][2]>>) = <<d, f>>
        /\ (IF x[2] = None THEN <<0, 0>> ELSE <<1, as_i32(x[2][2])>>) = <<d, as_i32(f)>>
        /\ (IF x[2] = None THEN <<0, 0>> ELSE <<1, as_i64(x[2][2])>>) = <<d, as_i64(f)>>
  BY <1>3, NumberWritten DEF U
<1>6. PICK e : e = as_i32(f)
  OBVIOUS
<1>7. ASSUME NEW text  PROVE write_field_size(text, x) = text \o <<d, e>>
  <2>1. write_option(x[2], as_i32) = <<d, e>>
    BY <1>5, <1>6 DEF write_option
  <2> QED
    BY <2>1 DEF write_field_size
<1>8. d \in Nat /\ d < 65536 /\ f \in Nat /\ f < W32 /\ Values(n) = W32
  BY <1>1, <1>5 DEF NumberWords, Values
<1>9. d % W32 = d /\ e % W32 = f
  BY <1>6, <1>8, SmallFits, Cast32
<1>10. ASSUME NEW k \in Nat, NEW words,
              words[k + 1] % W32 = a, words[k + 2] % W32 = b, words[k + 3] % W32 = c,
              words[k + 4] = d, words[k + 5] = e
       PROVE  TakesAt(FieldSizePayload, x, words, k)
  <2>1. TakesAt(T, x[1], words, k)
    BY <1>4, <1>10, TextLands DEF T
  <2>2. k + 3 \in Nat /\ (k + 3) + 1 = k + 4 /\ (k + 3) + 2 = k + 5
    OBVIOUS
  <2>3. words[(k + 3) + 1] % W32 = d /\ words[(k + 3) + 2] % Values(n) = f
    BY <1>8, <1>9, <1>10, <2>2
  <2>4. NumberWords(n, x[2], d, f)
    BY <1>5
  <2>5. TakesAt(U, x[2], words, k + 3)
    BY <2>2, <2>3, <2>4, NumberLands DEF U
  <2> QED
    BY <1>2, <2>1, <2>5, PairLands
<1>11. SizeWords(x, a, b, c, d, e)
  BY <1>4, <1>7, <1>10 DEF SizeWords
<1> QED
  BY <1>11

LEMMA SizeLands ==
  ASSUME NEW x, NEW a, NEW b, NEW c, NEW d, NEW e, SizeWords(x, a, b, c, d, e),
         NEW words, NEW k \in Nat, words[k + 1] % W32 = a, words[k + 2] % W32 = b,
         words[k + 3] % W32 = c, words[k + 4] = d, words[k + 5] = e
  PROVE  TakesAt(FieldSizePayload, x, words, k)
BY DEF SizeWords

LEMMA FieldSizeFills ==
  ASSUME NEW t \in {"HttpRequestTrailerSize", "HttpResponseHeaderSize", "HttpResponseTrailerSize"},
         NEW x \in FieldSizePayload.values, NEW high \in Nat, NEW m, NEW words,
         words = <<1, m>> \o write_payload(t, x, high)
  PROVE  Fills(words, m, FieldSizePayload, x)
<1>1. PICK a, b, c, d, e : SizeWords(x, a, b, c, d, e)
  BY FieldSizeWritten
<1>2. write_option_string(x[1]) = <<a, b, c>> /\ TextWords(x[1], a, b, c)
  BY <1>1 DEF SizeWords
<1>3. write_payload(t, x, high)
        = write_field_size(spread(write_option_string(x[1]), high), x) \o <<0>>
  BY DEF write_payload
<1>4. PICK h, z : h = half_written(b, high) /\ z = 0
  OBVIOUS
<1>5. /\ spread(<<a, b, c>>, high) = <<a, h, c>>
      /\ a % W32 = a /\ h % W32 = b /\ c % W32 = c
  BY <1>2, <1>4, TextCasts
<1>6. write_field_size(<<a, h, c>>, x) = <<a, h, c>> \o <<d, e>>
  BY <1>1 DEF SizeWords
<1>7. words = <<1, m>> \o (<<a, h, c>> \o <<d, e>> \o <<z>>)
  BY <1>2, <1>3, <1>4, <1>5, <1>6
<1>8. Eight(words, m, a, h, c, d, e, z)
  BY <1>7, Glued
<1>9. PICK k \in Nat : k = 2
  OBVIOUS
<1>10. /\ words[k + 1] = a /\ words[k + 2] = h /\ words[k + 3] = c
       /\ words[k + 4] = d /\ words[k + 5] = e
  BY <1>8, <1>9 DEF Eight
<1>11. TakesAt(FieldSizePayload, x, words, k)
  BY <1>1, <1>5, <1>10, SizeLands
<1>12. Len(words) = 8 /\ words[1] = 1 /\ words[2] = m
  BY <1>8 DEF Eight
<1> QED
  BY <1>9, <1>11, <1>12 DEF Fills

LEMMA HeaderSizeFills ==
  ASSUME NEW x \in OptionOf(FieldSizePayload).values, NEW high \in Nat, NEW m, NEW words,
         words = <<1, m>> \o write_payload("HttpRequestHeaderSize", x, high)
  PROVE  Fills(words, m, OptionOf(FieldSizePayload), x)
<1>1. IsLayout(FieldSizePayload) /\ IsFlat(FieldSizePayload)
  BY KnownPayloads DEF Known
<1>2. PICK k \in Nat : k = 2
  OBVIOUS
<1>3. CASE x = None
  <2>1. PICK z : z = 0
    OBVIOUS
  <2>2. words = <<1, m>> \o <<z, z, z, z, z, z>>
    BY <1>3, <2>1 DEF write_payload
  <2>3. Eight(words, m, z, z, z, z, z, z)
    BY <2>2, Glued
  <2>4. words[k + 1] = 0 /\ Len(words) = 8 /\ words[1] = 1 /\ words[2] = m
    BY <1>2, <2>1, <2>3 DEF Eight
  <2>5. words[k + 1] % W32 = 0
    <3>1. words[k + 1] = z
      BY <2>1, <2>4
    <3>2. z % W32 = z
      BY <2>1, SmallFits
    <3> QED
      BY <2>1, <3>1, <3>2
  <2>6. TakesAt(OptionOf(FieldSizePayload), x, words, k)
    BY <1>1, <1>3, <2>5, OptionTakes
  <2> QED
    BY <1>2, <2>4, <2>6 DEF Fills
<1>4. ASSUME NEW y \in FieldSizePayload.values, x = Some(y)
      PROVE  Fills(words, m, OptionOf(FieldSizePayload), x)
  <2>1. x # None /\ x[2] = y
    BY <1>4 DEF None, Some
  <2>2. PICK a, b, c, d, e : SizeWords(y, a, b, c, d, e)
    BY FieldSizeWritten
  <2>3. write_option_string(y[1]) = <<a, b, c>> /\ TextWords(y[1], a, b, c)
    BY <2>2 DEF SizeWords
  <2>4. write_payload("HttpRequestHeaderSize", x, high)
          = <<1>> \o write_field_size(narrow(write_option_string(y[1]), 1), y)
    BY <2>1 DEF write_payload
  <2>5. PICK f, o : f = as_u64(a) /\ o = 1
    OBVIOUS
  <2>6. /\ narrow(<<a, b, c>>, 1) = <<f, b, c>>
        /\ f % W32 = a /\ b % W32 = b /\ c % W32 = c
    <3>1. PICK high0 \in Nat : high0 = 0
      OBVIOUS
    <3> QED
      BY <2>3, <2>5, TextCasts
  <2>7. write_field_size(<<f, b, c>>, y) = <<f, b, c>> \o <<d, e>>
    BY <2>2 DEF SizeWords
  <2>8. words = <<1, m>> \o (<<o>> \o (<<f, b, c>> \o <<d, e>>))
    BY <2>3, <2>4, <2>5, <2>6, <2>7
  <2>9. Eight(words, m, o, f, b, c, d, e)
    BY <2>8, Glued
  <2>10. /\ words[k + 1] = 1 /\ words[(k + 1) + 1] = f /\ words[(k + 1) + 2] = b
         /\ words[(k + 1) + 3] = c /\ words[(k + 1) + 4] = d /\ words[(k + 1) + 5] = e
    BY <1>2, <2>5, <2>9 DEF Eight
  <2>11. k + 1 \in Nat /\ TakesAt(FieldSizePayload, y, words, k + 1)
    <3>1. k + 1 \in Nat
      OBVIOUS
    <3> QED
      BY <2>2, <2>6, <2>10, <3>1, SizeLands
  <2>12. words[k + 1] % W32 = 1
    <3>1. words[k + 1] = o
      BY <2>5, <2>10
    <3>2. o % W32 = o
      BY <2>5, SmallFits
    <3> QED
      BY <2>5, <3>1, <3>2
  <2>13. TakesAt(OptionOf(FieldSizePayload), x, words, k)
    BY <1>1, <1>4, <2>11, <2>12, OptionTakes
  <2>14. Len(words) = 8 /\ words[1] = 1 /\ words[2] = m
    BY <2>9 DEF Eight
  <2> QED
    BY <1>2, <2>13, <2>14 DEF Fills
<1> QED
  BY <1>3, <1>4, OptionValue

LEMMA NoPayload ==
  ASSUME NEW i \in 1 .. 39, i \notin WithPayload, NEW x, NEW high
  PROVE  write_payload(Cases[i], x, high) = <<0, 0, 0, 0, 0, 0>>
<1> DEFINE c == Cases[i]
<1>1. /\ c # "DnsError" /\ c # "TlsAlertReceived"
      /\ c \notin {"HttpRequestBodySize", "HttpResponseBodySize"}
      /\ c \notin {"HttpRequestHeaderSectionSize", "HttpRequestTrailerSectionSize",
                   "HttpResponseHeaderSectionSize", "HttpResponseTrailerSectionSize"}
      /\ c # "HttpRequestHeaderSize"
      /\ c \notin {"HttpRequestTrailerSize", "HttpResponseHeaderSize",
                   "HttpResponseTrailerSize"}
      /\ c \notin {"HttpResponseTransferCoding", "HttpResponseContentCoding", "InternalError"}
  <2>1. CaseWritten[c] = i - 1
    BY WrittenIs
  <2>2. i - 1 \notin {1, 14, 17, 21, 22, 23, 24, 26, 27, 28, 29, 30, 31, 32, 38}
    BY DEF WithPayload, BodySizes, SectionSizes, FieldSizes, Remarks
  <2> HIDE DEF c
  <2> QED
    BY <2>1, <2>2, CaseNumbers
<1> HIDE DEF c
<1>2. write_payload(c, x, high) = <<0, 0, 0, 0, 0, 0>>
  BY <1>1 DEF write_payload
<1> QED
  BY <1>2 DEF c

(* The words of an error code end with those of its payload.                *)
LEMMA PayloadFills ==
  ASSUME NEW i \in 1 .. 39, NEW P, P = PayloadOf(Cases[i]), NEW x \in P.values,
         NEW high \in Nat, NEW m, NEW words,
         words = <<1, m>> \o write_payload(Cases[i], x, high)
  PROVE  Fills(words, m, P, x)
<1>1. CASE i = 2
  <2>1. Cases[i] = "DnsError" /\ P = DnsErrorPayload
    BY <1>1, CaseNames, PayloadIs
  <2> QED
    BY <2>1, DnsErrorFills
<1>2. CASE i = 15
  <2>1. Cases[i] = "TlsAlertReceived" /\ P = TlsAlertReceivedPayload
    BY <1>2, CaseNames, PayloadIs
  <2> QED
    BY <2>1, TlsAlertFills
<1>3. CASE i = 23
  <2>1. Cases[i] = "HttpRequestHeaderSize" /\ P = OptionOf(FieldSizePayload)
    BY <1>3, CaseNames, PayloadIs
  <2> QED
    BY <2>1, HeaderSizeFills
<1>4. CASE i \in BodySizes
  <2>1. PICK n \in {1, 2, 4, 8} : n = 8
    OBVIOUS
  <2>2. Cases[i] \in {"HttpRequestBodySize", "HttpResponseBodySize"}
    <3>1. i = 18 \/ i = 29
      BY <1>4 DEF BodySizes
    <3>2. Cases[18] = "HttpRequestBodySize" /\ Cases[29] = "HttpResponseBodySize"
      BY CaseNames
    <3> QED
      BY <3>1, <3>2
  <2>3. P = OptionOf(Number(n))
    BY <1>4, <2>1, PayloadIs
  <2> QED
    BY <2>1, <2>2, <2>3, BodySizeFills
<1>5. CASE i \in SectionSizes
  <2>1. PICK n \in {1, 2, 4, 8} : n = 4
    OBVIOUS
  <2>2. Cases[i] \in {"HttpRequestHeaderSectionSize", "HttpRequestTrailerSectionSize",
                      "HttpResponseHeaderSectionSize", "HttpResponseTrailerSectionSize"}
    <3>1. i = 22 \/ i = 24 \/ i = 27 \/ i = 30
      BY <1>5 DEF SectionSizes
    <3>2. /\ Cases[22] = "HttpRequestHeaderSectionSize"
          /\ Cases[24] = "HttpRequestTrailerSectionSize"
          /\ Cases[27] = "HttpResponseHeaderSectionSize"
          /\ Cases[30] = "HttpResponseTrailerSectionSize"
      BY CaseNames
    <3> QED
      BY <3>1, <3>2
  <2>3. P = OptionOf(Number(n))
    BY <1>5, <2>1, PayloadIs
  <2> QED
    BY <2>1, <2>2, <2>3, SectionSizeFills
<1>6. CASE i \in FieldSizes
  <2>1. Cases[i] \in {"HttpRequestTrailerSize", "HttpResponseHeaderSize",
                      "HttpResponseTrailerSize"}
    <3>1. i = 25 \/ i = 28 \/ i = 31
      BY <1>6 DEF FieldSizes
    <3>2. /\ Cases[25] = "HttpRequestTrailerSize"
          /\ Cases[28] = "HttpResponseHeaderSize"
          /\ Cases[31] = "HttpResponseTrailerSize"
      BY CaseNames
    <3> QED
      BY <3>1, <3>2
  <2>2. P = FieldSizePayload
    BY <1>6, PayloadIs
  <2> QED
    BY <2>1, <2>2, FieldSizeFills
<1>7. CASE i \in Remarks
  <2>1. Cases[i] \in {"HttpResponseTransferCoding", "HttpResponseContentCoding",
                      "InternalError"}
    <3>1. i = 32 \/ i = 33 \/ i = 39
      BY <1>7 DEF Remarks
    <3>2. /\ Cases[32] = "HttpResponseTransferCoding"
          /\ Cases[33] = "HttpResponseContentCoding"
          /\ Cases[39] = "InternalError"
      BY CaseNames
    <3> QED
      BY <3>1, <3>2
  <2>2. P = OptionOf(Text)
    BY <1>7, PayloadIs
  <2> QED
    BY <2>1, <2>2, RemarkFills
<1>8. CASE i \notin WithPayload
  <2>1. P = Unit /\ x = <<>>
    BY <1>8, PayloadIs, UnitTakes
  <2>2. words = <<1, m>> \o <<0, 0, 0, 0, 0, 0>>
    BY <1>8, NoPayload
  <2> QED
    BY <2>1, <2>2, UnitFills
<1> QED
  BY <1>1, <1>2, <1>3, <1>4, <1>5, <1>6, <1>7, <1>8 DEF WithPayload

(* The flat words that an error code is taken from.                         *)
LEMMA CodeTakes ==
  ASSUME NEW i \in 1 .. 39, NEW P, P = PayloadOf(Cases[i]), NEW x \in P.values,
         NEW words, NEW k \in Nat, words[k + 1] % W32 = i - 1, TakesAt(P, x, words, k + 1)
  PROVE  <<Cases[i], x>> \in ErrorCode.values /\ TakesAt(ErrorCode, <<Cases[i], x>>, words, k)
<1>1. /\ ErrorCode = Variant(CodeCases) /\ DOMAIN CodeCases = 1 .. 39
      /\ CodeCases[i][1] = Cases[i] /\ CodeCases[i][2] = P
      /\ IsCases(CodeCases) /\ AreLargest(CodeCases, 8, 24)
  BY CodeIs
<1>2. PICK f : f = 6
  OBVIOUS
<1>3. /\ \A j \in DOMAIN CodeCases : IsFlat(CodeCases[j][2]) /\ CodeCases[j][2].flat <= f
      /\ \E j \in DOMAIN CodeCases : CodeCases[j][2].flat = f
  <2>1. \A j \in 1 .. 39 : /\ CodeCases[j][2] = PayloadOf(Cases[j])
                           /\ IsFlat(PayloadOf(Cases[j])) /\ PayloadOf(Cases[j]).flat <= 6
                           /\ j = 23 => PayloadOf(Cases[j]).flat = 6
    BY CodeIs, PayloadFits
  <2>2. 23 \in 1 .. 39
    OBVIOUS
  <2> QED
    BY <1>1, <1>2, <2>1, <2>2
<1>4. \A j \in DOMAIN CodeCases : IsFlat(CodeCases[j][2])
  BY <1>3
<1>5. \A j \in DOMAIN CodeCases : \A y \in CodeCases[j][2].values : \A l \in Nat : \A w :
        TakesAt(Variant(CodeCases), <<CodeCases[j][1], y>>, w, l)
          <=> w[l + 1] % W32 = j - 1 /\ TakesAt(CodeCases[j][2], y, w, l + 1)
  BY <1>1, <1>3, <1>4, VariantTakes
<1>6. TakesAt(Variant(CodeCases), <<Cases[i], x>>, words, k)
  BY <1>1, <1>5
<1>7. <<Cases[i], x>> \in Variant(CodeCases).values
  <2>1. Variant(CodeCases).values = CaseValues(CodeCases)
    BY DEF Variant
  <2>2. <<CodeCases[i][1], x>> \in CaseValues(CodeCases)
    <3>1. <<CodeCases[i][1], x>> \in {<<CodeCases[i][1], y>> : y \in CodeCases[i][2].values}
      BY <1>1
    <3> QED
      BY <1>1, <3>1 DEF CaseValues
  <2> QED
    BY <1>1, <2>1, <2>2
<1> QED
  BY <1>1, <1>6, <1>7

LEMMA CodeValue ==
  ASSUME NEW e \in ErrorCode.values
  PROVE  \E i \in 1 .. 39 : \E x \in PayloadOf(Cases[i]).values : e = <<Cases[i], x>>
<1>1. /\ ErrorCode = Variant(CodeCases) /\ DOMAIN CodeCases = 1 .. 39
      /\ \A i \in 1 .. 39 :
           CodeCases[i][1] = Cases[i] /\ CodeCases[i][2] = PayloadOf(Cases[i])
  BY CodeIs
<1>2. PICK i \in DOMAIN CodeCases : \E x \in CodeCases[i][2].values : e = <<CodeCases[i][1], x>>
  BY <1>1, VariantValue
<1>3. PICK x \in CodeCases[i][2].values : e = <<CodeCases[i][1], x>>
  BY <1>2
<1>4. i \in 1 .. 39 /\ CodeCases[i][1] = Cases[i] /\ CodeCases[i][2] = PayloadOf(Cases[i])
  BY <1>1
<1>5. x \in PayloadOf(Cases[i]).values /\ e = <<Cases[i], x>>
  BY <1>3, <1>4
<1> QED
  BY <1>4, <1>5

(* What set passes is taken as what it was given.                           *)
LEMMA CodeSet ==
  ASSUME NEW e \in ErrorCode.values, NEW high \in Nat, NEW words, words = set(Err(e), high)
  PROVE  Len(words) = 8 /\ words[1] = 1 /\ TakesAt(ErrorCode, e, words, 1)
<1>1. PICK i \in 1 .. 39 : \E x \in PayloadOf(Cases[i]).values : e = <<Cases[i], x>>
  BY CodeValue, Zenon
<1>2. PICK x \in PayloadOf(Cases[i]).values : e = <<Cases[i], x>>
  BY <1>1
<1>3. PICK n \in Nat : n = i - 1 /\ n < 65536
  OBVIOUS
<1>4. words = <<1, n>> \o write_payload(Cases[i], x, high)
  <2>1. set(Err(e), high) = <<1, CaseWritten[e[1]]>> \o write_payload(e[1], e[2], high)
    BY DEF set, Err
  <2>2. e[1] = Cases[i] /\ e[2] = x
    BY <1>2
  <2>3. CaseWritten[Cases[i]] = n
    BY <1>3, WrittenIs
  <2> QED
    BY <2>1, <2>2, <2>3
<1>5. Fills(words, n, PayloadOf(Cases[i]), x)
  BY <1>4, PayloadFills
<1>6. PICK k \in Nat : k = 1 /\ k + 1 = 2
  OBVIOUS
<1>7. Len(words) = 8 /\ words[1] = 1 /\ words[2] = n /\ TakesAt(PayloadOf(Cases[i]), x, words, 2)
  BY <1>5 DEF Fills
<1>8. words[k + 1] % W32 = i - 1
  <2>1. n % W32 = n
    BY <1>3, SmallFits
  <2> QED
    BY <1>3, <1>6, <1>7, <2>1
<1>9. TakesAt(ErrorCode, <<Cases[i], x>>, words, k)
  BY <1>6, <1>7, <1>8, CodeTakes
<1> QED
  BY <1>2, <1>6, <1>7, <1>9

LEMMA HandleSet ==
  ASSUME NEW h \in Handle.values, NEW high, NEW words, words = set(Ok(h), high)
  PROVE  Len(words) = 8 /\ words[1] = 0 /\ TakesAt(Handle, h, words, 1)
<1>1. words = <<0, h, 0, 0, 0, 0, 0, 0>>
  BY DEF set, Ok
<1>2. Len(words) = 8 /\ words[1] = 0 /\ words[2] = h
  BY <1>1
<1>3. PICK n \in {1, 2, 4, 8} : n = 4
  OBVIOUS
<1>4. PICK k \in Nat : k = 1 /\ k + 1 = 2
  OBVIOUS
<1>5. Handle = Number(n) /\ h \in Numbers(n)
  BY <1>3, KnownHandles
<1>6. h % Values(n) = h
  BY <1>5, NumberIs
<1>7. TakesAt(Number(n), h, words, k)
  BY <1>2, <1>4, <1>5, <1>6, NumberTakes
<1> QED
  BY <1>2, <1>4, <1>5, <1>7

LEMMA SetWritten ==
  ASSUME NEW v \in ResultOf(Handle, ErrorCode).values, NEW high \in Nat,
         NEW words, words = set(v, high)
  PROVE  /\ LiftFlat(ResultOf(Handle, ErrorCode), words) = v
         /\ Len(words) = ResultOf(Handle, ErrorCode).flat
<1> DEFINE R == ResultOf(Handle, ErrorCode)
<1>1. Known(Handle, 4, 4, 1) /\ Known(ErrorCode, 8, 32, 7) /\ Known(R, 8, 40, 8)
  BY SmallOnes, KnownHandles, KnownResults, CodeIs
<1>2. PICK z \in Nat, o \in Nat : z = 0 /\ o = 1 /\ z < 65536 /\ o < 65536 /\ z + 1 = o
  OBVIOUS
<1>3. z % W32 = z /\ o % W32 = o
  BY <1>2, SmallFits
<1>4. /\ \A x \in Handle.values : \A k \in Nat : \A w :
           TakesAt(R, Ok(x), w, k) <=> w[k + 1] % W32 = 0 /\ TakesAt(Handle, x, w, k + 1)
      /\ \A x \in ErrorCode.values : \A k \in Nat : \A w :
           TakesAt(R, Err(x), w, k) <=> w[k + 1] % W32 = 1 /\ TakesAt(ErrorCode, x, w, k + 1)
  <2>1. PICK f : f = 7
    OBVIOUS
  <2>2. /\ IsLayout(Handle) /\ IsFlat(Handle) /\ IsLayout(ErrorCode) /\ IsFlat(ErrorCode)
        /\ f \in {Handle.flat, ErrorCode.flat} /\ Handle.flat <= f /\ ErrorCode.flat <= f
    BY <1>1, <2>1 DEF Known
  <2> QED
    BY <2>2, ResultTakes
<1>5. Len(words) = 8 /\ TakesAt(R, v, words, 0)
  <2>1. ASSUME NEW x \in Handle.values, v = Ok(x)
        PROVE  Len(words) = 8 /\ TakesAt(R, v, words, 0)
    <3>1. Len(words) = 8 /\ words[1] = 0 /\ TakesAt(Handle, x, words, 1)
      BY <2>1, HandleSet
    <3>2. words[z + 1] % W32 = 0 /\ TakesAt(Handle, x, words, z + 1)
      BY <1>2, <1>3, <3>1
    <3>3. TakesAt(R, Ok(x), words, z)
      BY <1>4, <3>2
    <3> QED
      BY <1>2, <2>1, <3>1, <3>3
  <2>2. ASSUME NEW x \in ErrorCode.values, v = Err(x)
        PROVE  Len(words) = 8 /\ TakesAt(R, v, words, 0)
    <3>1. Len(words) = 8 /\ words[1] = 1 /\ TakesAt(ErrorCode, x, words, 1)
      BY <2>2, CodeSet
    <3>2. words[z + 1] % W32 = 1 /\ TakesAt(ErrorCode, x, words, z + 1)
      BY <1>2, <1>3, <3>1
    <3>3. TakesAt(R, Err(x), words, z)
      BY <1>4, <3>2
    <3> QED
      BY <1>2, <2>2, <3>1, <3>3
  <2> QED
    BY <2>1, <2>2, ResultValue
<1>6. IsFlat(R) /\ R.flat = 8
  BY <1>1 DEF Known
<1> HIDE DEF R
<1>7. LiftFlat(R, words) = v
  BY <1>5, <1>6, Lifted DEF R
<1> QED
  BY <1>5, <1>6, <1>7 DEF R
-----------------------------------------------------------------------------
(* One call of a wrapper, or none yet.                                      *)
CodesInv == site # "none" => arrived = [value |-> sent, within |-> TRUE]

LEMMA ResultArrives ==
  ASSUME NEW T, NEW a, NEW s, NEW f, Known(T, a, s, f), NEW r, sent' \in T.values,
         r = sent',
         arrived' = [value |-> r, within |-> \A c \in Store(T, sent', 0) : c.at + c.bytes <= s]
  PROVE  CodesInv'
<1>1. PICK v \in T.values : v = sent'
  OBVIOUS
<1>2. PICK area : area = Store(T, v, 0)
  OBVIOUS
<1>3. \A c \in area : c.at + c.bytes <= s
  BY <1>2, StoredIn
<1>4. PICK within \in BOOLEAN : within = (\A c \in area : c.at + c.bytes <= s)
  OBVIOUS
<1>5. within = TRUE
  BY <1>3, <1>4
<1>6. arrived' = [value |-> r, within |-> within]
  BY <1>1, <1>2, <1>4
<1> QED
  BY <1>5, <1>6 DEF CodesInv

LEMMA SetArrives == SetOutparam => CodesInv'
<1> SUFFICES ASSUME SetOutparam  PROVE CodesInv'
  OBVIOUS
<1> DEFINE R == ResultOf(Handle, ErrorCode)
<1>1. PICK high \in Leftovers :
        arrived' = [value |-> LiftFlat(R, set(sent', high)),
                    within |-> Len(set(sent', high)) = R.flat]
  BY DEF SetOutparam
<1>2. PICK v \in R.values : v = sent'
  BY DEF SetOutparam
<1>3. PICK words : words = set(v, high)
  OBVIOUS
<1>4. LiftFlat(R, words) = v /\ Len(words) = R.flat
  BY <1>3, LeftoversAssumption, SetWritten
<1> HIDE DEF R
<1>5. arrived' = [value |-> v, within |-> Len(words) = R.flat]
  BY <1>1, <1>2, <1>3, <1>4
<1>6. PICK within \in BOOLEAN : within = (Len(words) = R.flat)
  OBVIOUS
<1>7. within = TRUE
  BY <1>4, <1>6
<1> QED
  BY <1>2, <1>5, <1>6, <1>7 DEF CodesInv

LEMMA CodesNextInv == CodesInv /\ [CodesNext]_codesVars => CodesInv'
<1> SUFFICES ASSUME CodesInv, [CodesNext]_codesVars  PROVE CodesInv'
  OBVIOUS
<1>1. CASE GetHttpErrorCode
  <2> DEFINE T == OptionOf(ErrorCode)
  <2>1. /\ sent' \in T.values
        /\ arrived' = [value |-> http_error_code(Store(T, sent', 0)),
                       within |-> \A c \in Store(T, sent', 0) : c.at + c.bytes <= 40]
    BY <1>1 DEF GetHttpErrorCode, Result
  <2>2. http_error_code(Store(T, sent', 0)) = sent'
    BY <2>1, SitesRead
  <2>3. Known(T, 8, 40, 8)
    BY SmallOnes, KnownResults
  <2> QED
    BY <2>1, <2>2, <2>3, ResultArrives
<1>2. CASE FinishBody
  <2> DEFINE T == ResultOf(Unit, ErrorCode)
  <2>1. /\ sent' \in T.values
        /\ arrived' = [value |-> OutgoingBody_finish(Store(T, sent', 0)),
                       within |-> \A c \in Store(T, sent', 0) : c.at + c.bytes <= 40]
    BY <1>2 DEF FinishBody, Result
  <2>2. OutgoingBody_finish(Store(T, sent', 0)) = sent'
    BY <2>1, SitesRead
  <2>3. Known(T, 8, 40, 8)
    BY SmallOnes, KnownResults
  <2> QED
    BY <2>1, <2>2, <2>3, ResultArrives
<1>3. CASE SendRequest
  <2> DEFINE T == ResultOf(Handle, ErrorCode)
  <2>1. /\ sent' \in T.values
        /\ arrived' = [value |-> handle(Store(T, sent', 0)),
                       within |-> \A c \in Store(T, sent', 0) : c.at + c.bytes <= 40]
    BY <1>3 DEF SendRequest, Result
  <2>2. handle(Store(T, sent', 0)) = sent'
    BY <2>1, SitesRead
  <2>3. Known(T, 8, 40, 8)
    BY SmallOnes, KnownResults
  <2> QED
    BY <2>1, <2>2, <2>3, ResultArrives
<1>4. CASE GetTrailers
  <2> DEFINE T == Future(OptionOf(Handle))
  <2>1. /\ sent' \in T.values
        /\ arrived' = [value |-> FutureTrailers_get(Store(T, sent', 0)),
                       within |-> \A c \in Store(T, sent', 0) : c.at + c.bytes <= 56]
    BY <1>4 DEF GetTrailers, Result
  <2>2. FutureTrailers_get(Store(T, sent', 0)) = sent'
    BY <2>1, SitesRead
  <2>3. Known(T, 8, 56, 10)
    BY SmallOnes, KnownResults
  <2> QED
    BY <2>1, <2>2, <2>3, ResultArrives
<1>5. CASE GetResponse
  <2> DEFINE T == Future(Handle)
  <2>1. /\ sent' \in T.values
        /\ arrived' = [value |-> FutureIncomingResponse_get(Store(T, sent', 0)),
                       within |-> \A c \in Store(T, sent', 0) : c.at + c.bytes <= 56]
    BY <1>5 DEF GetResponse, Result
  <2>2. FutureIncomingResponse_get(Store(T, sent', 0)) = sent'
    BY <2>1, SitesRead
  <2>3. Known(T, 8, 56, 10)
    BY SmallOnes, KnownResults
  <2> QED
    BY <2>1, <2>2, <2>3, ResultArrives
<1>6. CASE SetOutparam
  BY <1>6, SetArrives
<1>7. CASE UNCHANGED codesVars
  BY <1>7 DEF CodesInv, codesVars
<1> QED
  BY <1>1, <1>2, <1>3, <1>4, <1>5, <1>6, <1>7 DEF CodesNext

LEMMA CodesInvariant == CodesSpec => []CodesInv
<1>1. CodesInit => CodesInv
  BY DEF CodesInit, CodesInv
<1> QED
  BY <1>1, CodesNextInv, PTL DEF CodesSpec

(* Every error code arrives as it was sent at the five places that read one *)
(* and at ResponseOutparam::set, with any number, text and length of its    *)
(* type and anything in the halves of words that set leaves unwritten.      *)
THEOREM CodesArriveAlways == CodesSpec => []CodesArrive
<1>1. CodesInv => CodesArrive
  BY DEF CodesInv, CodesArrive
<1> QED
  BY <1>1, CodesInvariant, PTL

(* The 40 and the 56 bytes that the wrappers set aside hold every result,   *)
(* and set passes as many words as its import takes.                        *)
THEOREM AreasHoldAlways == CodesSpec => []AreasHoldResults
<1>1. CodesInv => AreasHoldResults
  BY DEF CodesInv, AreasHoldResults
<1> QED
  BY <1>1, CodesInvariant, PTL
=============================================================================
