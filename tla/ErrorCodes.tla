----------------------------- MODULE ErrorCodes -----------------------------
(***************************************************************************)
(* The error codes of wasi:http on their way between the host and the       *)
(* program. The bindings read one at five places, each with the addresses   *)
(* and the numbers of its 39 cases as literals, and write one in            *)
(* ResponseOutparam::set, flattened into words that the cases share.        *)
(* The reference is the layout CanonicalABI computes from the type.         *)
(***************************************************************************)
EXTENDS CanonicalABI

CONSTANT Leftovers   \* what the unwritten half of a word may hold

ASSUME LeftoversAssumption == Leftovers \subseteq Nat

VARIABLES
  site,   \* the wrapper called last
  sent,   \* the value one side passed
  arrived \* the value the other side has, and whether the area was enough

codesVars == <<site, sent, arrived>>

DnsErrorPayload == Pair(OptionOf(Text), OptionOf(Number(2)))
TlsAlertReceivedPayload == Pair(OptionOf(Number(1)), OptionOf(Text))
FieldSizePayload == Pair(OptionOf(Text), OptionOf(Number(4)))

(* The cases with a payload; every other case has none.                     *)
Payload ==
  [DnsError                      |-> DnsErrorPayload,
   TlsAlertReceived              |-> TlsAlertReceivedPayload,
   HttpRequestBodySize           |-> OptionOf(Number(8)),
   HttpRequestHeaderSectionSize  |-> OptionOf(Number(4)),
   HttpRequestHeaderSize         |-> OptionOf(FieldSizePayload),
   HttpRequestTrailerSectionSize |-> OptionOf(Number(4)),
   HttpRequestTrailerSize        |-> FieldSizePayload,
   HttpResponseHeaderSectionSize |-> OptionOf(Number(4)),
   HttpResponseHeaderSize        |-> FieldSizePayload,
   HttpResponseBodySize          |-> OptionOf(Number(8)),
   HttpResponseTrailerSectionSize |-> OptionOf(Number(4)),
   HttpResponseTrailerSize       |-> FieldSizePayload,
   HttpResponseTransferCoding    |-> OptionOf(Text),
   HttpResponseContentCoding     |-> OptionOf(Text),
   InternalError                 |-> OptionOf(Text)]

Cases ==
  <<"DnsTimeout", "DnsError", "DestinationNotFound", "DestinationUnavailable",
    "DestinationIpProhibited", "DestinationIpUnroutable", "ConnectionRefused",
    "ConnectionTerminated", "ConnectionTimeout", "ConnectionReadTimeout",
    "ConnectionWriteTimeout", "ConnectionLimitReached", "TlsProtocolError",
    "TlsCertificateError", "TlsAlertReceived", "HttpRequestDenied",
    "HttpRequestLengthRequired", "HttpRequestBodySize", "HttpRequestMethodInvalid",
    "HttpRequestUriInvalid", "HttpRequestUriTooLong", "HttpRequestHeaderSectionSize",
    "HttpRequestHeaderSize", "HttpRequestTrailerSectionSize",
    "HttpRequestTrailerSize", "HttpResponseIncomplete",
    "HttpResponseHeaderSectionSize", "HttpResponseHeaderSize",
    "HttpResponseBodySize", "HttpResponseTrailerSectionSize",
    "HttpResponseTrailerSize", "HttpResponseTransferCoding",
    "HttpResponseContentCoding", "HttpResponseTimeout", "HttpUpgradeFailed",
    "HttpProtocolError", "LoopDetected", "ConfigurationError", "InternalError">>

PayloadOf(c) == IF c \in DOMAIN Payload THEN Payload[c] ELSE Unit

ErrorCode == Variant([i \in DOMAIN Cases |-> <<Cases[i], PayloadOf(Cases[i])>>])

-----------------------------------------------------------------------------
(* Reading. The case of each number, 0 first. Numbers from 38 on are the    *)
(* last case.                                                               *)
CaseRead ==
  <<"DnsTimeout", "DnsError", "DestinationNotFound", "DestinationUnavailable",
    "DestinationIpProhibited", "DestinationIpUnroutable", "ConnectionRefused",
    "ConnectionTerminated", "ConnectionTimeout", "ConnectionReadTimeout",
    "ConnectionWriteTimeout", "ConnectionLimitReached", "TlsProtocolError",
    "TlsCertificateError", "TlsAlertReceived", "HttpRequestDenied",
    "HttpRequestLengthRequired", "HttpRequestBodySize",
    "HttpRequestMethodInvalid", "HttpRequestUriInvalid",
    "HttpRequestUriTooLong", "HttpRequestHeaderSectionSize",
    "HttpRequestHeaderSize", "HttpRequestTrailerSectionSize",
    "HttpRequestTrailerSize", "HttpResponseIncomplete",
    "HttpResponseHeaderSectionSize", "HttpResponseHeaderSize",
    "HttpResponseBodySize", "HttpResponseTrailerSectionSize",
    "HttpResponseTrailerSize", "HttpResponseTransferCoding",
    "HttpResponseContentCoding", "HttpResponseTimeout", "HttpUpgradeFailed",
    "HttpProtocolError", "LoopDetected", "ConfigurationError", "InternalError">>

(* The parts, at the distance from the code that every site has them at.    *)
read_dns_error(area, b) ==
  <<read_option(Read(area, b + 8, 1), read_string(area, b + 12)),
    read_option(Read(area, b + 20, 1), Read(area, b + 22, 2))>>

(* Mutant: the option of the alert's message aligned like a u64.            *)
read_tls_alert_padded(area, b) ==
  <<read_option(Read(area, b + 8, 1), Read(area, b + 9, 1)),
    read_option(Read(area, b + 16, 1), read_string(area, b + 20))>>

read_tls_alert(area, b) ==
  <<read_option(Read(area, b + 8, 1), Read(area, b + 9, 1)),
    read_option(Read(area, b + 12, 1), read_string(area, b + 16))>>

(* A field size is four bytes further on inside an option.                  *)
read_field_size(area, b) ==
  <<read_option(Read(area, b + 8, 1), read_string(area, b + 12)),
    read_option(Read(area, b + 20, 1), Read(area, b + 24, 4))>>

read_payload(area, b, n) ==
  CASE n = 1 -> read_dns_error(area, b)
    [] n = 14 -> read_tls_alert(area, b)
    [] n \in {17, 28} -> read_option(Read(area, b + 8, 1), Read(area, b + 16, 8))
    [] n \in {21, 23, 26, 29} ->
         read_option(Read(area, b + 8, 1), Read(area, b + 12, 4))
    [] n = 22 -> read_option(Read(area, b + 8, 1), read_field_size(area, b + 4))
    [] n \in {24, 27, 30} -> read_field_size(area, b)
    [] n \in {31, 32} \/ n >= 38 ->
         read_option(Read(area, b + 8, 1), read_string(area, b + 12))
    [] OTHER -> <<>>

read_error_code(area, b) ==
  LET n == Read(area, b, 1)
  IN  <<CaseRead[IF n < 38 THEN n + 1 ELSE 39], read_payload(area, b, n)>>

(* The five sites.                                                          *)
http_error_code(area) ==
  read_option(Read(area, 0, 1), read_error_code(area, 8))

OutgoingBody_finish(area) ==
  read_result(Read(area, 0, 1), <<>>, read_error_code(area, 8))

handle(area) ==
  read_result(Read(area, 0, 1), Read(area, 8, 4), read_error_code(area, 8))

FutureTrailers_get(area) ==
  read_option(Read(area, 0, 1),
    read_result(Read(area, 8, 1),
      read_result(Read(area, 16, 1),
        read_option(Read(area, 24, 1), Read(area, 28, 4)),
        read_error_code(area, 24)),
      <<>>))

FutureIncomingResponse_get(area) ==
  read_option(Read(area, 0, 1),
    read_result(Read(area, 8, 1),
      read_result(Read(area, 16, 1), Read(area, 24, 4), read_error_code(area, 24)),
      <<>>))
-----------------------------------------------------------------------------
(* Writing. The number of each case.                                        *)
CaseWritten ==
  [DnsTimeout |-> 0, DnsError |-> 1, DestinationNotFound |-> 2,
   DestinationUnavailable |-> 3, DestinationIpProhibited |-> 4,
   DestinationIpUnroutable |-> 5, ConnectionRefused |-> 6,
   ConnectionTerminated |-> 7, ConnectionTimeout |-> 8,
   ConnectionReadTimeout |-> 9, ConnectionWriteTimeout |-> 10,
   ConnectionLimitReached |-> 11, TlsProtocolError |-> 12,
   TlsCertificateError |-> 13, TlsAlertReceived |-> 14,
   HttpRequestDenied |-> 15, HttpRequestLengthRequired |-> 16,
   HttpRequestBodySize |-> 17, HttpRequestMethodInvalid |-> 18,
   HttpRequestUriInvalid |-> 19, HttpRequestUriTooLong |-> 20,
   HttpRequestHeaderSectionSize |-> 21, HttpRequestHeaderSize |-> 22,
   HttpRequestTrailerSectionSize |-> 23, HttpRequestTrailerSize |-> 24,
   HttpResponseIncomplete |-> 25, HttpResponseHeaderSectionSize |-> 26,
   HttpResponseHeaderSize |-> 27, HttpResponseBodySize |-> 28,
   HttpResponseTrailerSectionSize |-> 29, HttpResponseTrailerSize |-> 30,
   HttpResponseTransferCoding |-> 31, HttpResponseContentCoding |-> 32,
   HttpResponseTimeout |-> 33, HttpUpgradeFailed |-> 34,
   HttpProtocolError |-> 35, LoopDetected |-> 36, ConfigurationError |-> 37,
   InternalError |-> 38]

(* The words of an option of a number.                                      *)
write_option(v, as(_)) == IF v = None THEN <<0, 0>> ELSE <<1, as(v[2])>>

(* The six words the cases share, `high` in the part that is not written:   *)
(* a pointer in the second word leaves half of it, a number in the first    *)
(* two is widened.                                                          *)
spread(w, high) == [w EXCEPT ![2] = half_written(w[2], high)]
narrow(w, n) == [w EXCEPT ![n] = as_u64(w[n])]
write_field_size(text, v) == text \o write_option(v[2], as_i32)

write_payload(c, v, high) ==
  LET same(n) == n
  IN  CASE c = "DnsError" ->
             spread(write_option_string(v[1]), high) \o write_option(v[2], same) \o <<0>>
        [] c = "TlsAlertReceived" ->
             narrow(write_option(v[1], same), 2) \o write_option_string(v[2]) \o <<0>>
        [] c \in {"HttpRequestBodySize", "HttpResponseBodySize"} ->
             narrow(write_option(v, as_i64), 2) \o <<0, 0, 0, 0>>
        [] c \in {"HttpRequestHeaderSectionSize", "HttpRequestTrailerSectionSize",
                  "HttpResponseHeaderSectionSize", "HttpResponseTrailerSectionSize"} ->
             narrow(write_option(v, as_i32), 2) \o <<0, 0, 0, 0>>
        [] c = "HttpRequestHeaderSize" ->
             IF v = None THEN <<0, 0, 0, 0, 0, 0>>
             ELSE <<1>> \o write_field_size(narrow(write_option_string(v[2][1]), 1), v[2])
        [] c \in {"HttpRequestTrailerSize", "HttpResponseHeaderSize",
                  "HttpResponseTrailerSize"} ->
             write_field_size(spread(write_option_string(v[1]), high), v) \o <<0>>
        [] c \in {"HttpResponseTransferCoding", "HttpResponseContentCoding",
                  "InternalError"} ->
             spread(write_option_string(v), high) \o <<0, 0, 0>>
        [] OTHER -> <<0, 0, 0, 0, 0, 0>>

(* ResponseOutparam::set: the handle of a response, or an error code.       *)
set(response, high) ==
  IF response[1] = "Ok" THEN <<0, response[2], 0, 0, 0, 0, 0, 0>>
  ELSE <<1, CaseWritten[response[2][1]]>>
         \o write_payload(response[2][1], response[2][2], high)

-----------------------------------------------------------------------------
(* One call, with any result the host may return or any argument of set.    *)
Handle == Number(4)
Future(T) == OptionOf(ResultOf(ResultOf(T, ErrorCode), Unit))

CodesInit == site = "none" /\ sent = <<>> /\ arrived = <<>>

Result(w, T, read(_), size) ==
  /\ site = "none"
  /\ site' = w
  /\ sent' \in T.values
  /\ LET area == Store(T, sent', 0)
     IN  arrived' = [value |-> read(area),
                     within |-> \A c \in area : c.at + c.bytes <= size]

GetHttpErrorCode == Result("http_error_code", OptionOf(ErrorCode), http_error_code, 40)
FinishBody == Result("OutgoingBody_finish", ResultOf(Unit, ErrorCode),
                     OutgoingBody_finish, 40)
SendRequest == Result("handle", ResultOf(Handle, ErrorCode), handle, 40)
(* Mutant: the area of a plain result for one of a future.                  *)
GetTrailersInSmallArea ==
  Result("FutureTrailers_get", Future(OptionOf(Handle)), FutureTrailers_get, 40)

GetTrailers == Result("FutureTrailers_get", Future(OptionOf(Handle)),
                      FutureTrailers_get, 56)
GetResponse == Result("FutureIncomingResponse_get", Future(Handle),
                      FutureIncomingResponse_get, 56)

SetOutparam ==
  /\ site = "none"
  /\ site' = "set"
  /\ sent' \in ResultOf(Handle, ErrorCode).values
  /\ \E high \in Leftovers :
       LET words == set(sent', high)
       IN  arrived' = [value |-> LiftFlat(ResultOf(Handle, ErrorCode), words),
                       within |-> Len(words) = ResultOf(Handle, ErrorCode).flat]

CodesNext ==
  \/ GetHttpErrorCode \/ FinishBody \/ SendRequest
  \/ GetTrailers \/ GetResponse \/ SetOutparam

CodesSpec == CodesInit /\ [][CodesNext]_codesVars

-----------------------------------------------------------------------------
(* Every error code arrives as the code it was sent as, with its payload,   *)
(* at every site and in both directions: no literal is off, no cast loses   *)
(* or adds bits, and what an uninitialised half of a word holds is nowhere  *)
(* part of a value.                                                         *)
CodesArrive == site # "none" => arrived.value = sent

(* The host writes nothing outside of the area a wrapper sets aside for its  *)
(* result, and takes as many words as set passes.                           *)
AreasHoldResults == site # "none" => arrived.within
=============================================================================
