-------------------------- MODULE RequestAttributes --------------------------
(***************************************************************************)
(* Method, path, scheme, authority, status and timeouts: the attributes of  *)
(* requests and responses that the program sets and gets through the        *)
(* bindings, and the numbers of the clocks and of the random source. A      *)
(* setter flattens its argument into words, a getter reads the host's       *)
(* answer at literal addresses; CanonicalABI is what the host does. The     *)
(* handler of proxy/lib.rs copies attributes from one message to another.   *)
(***************************************************************************)
EXTENDS CanonicalABI

CONSTANTS
  Heads,             \* heads of incoming messages
  Accepts(_, _),     \* whether the host takes the value for the attribute
  MaxAttributeCalls  \* bound: calls of one behaviour

VARIABLES
  head,    \* of the incoming request and response, in the host
  attrs,   \* of the outgoing request, response and options, in the host
  asked,   \* the values the program set last, or copied
  answer,  \* what the last getter returned, and what the host meant
  attributeCalls

attributesVars == <<head, attrs, asked, answer, attributeCalls>>

Method ==
  Variant(<< <<"Get", Unit>>, <<"Head", Unit>>, <<"Post", Unit>>, <<"Put", Unit>>,
             <<"Delete", Unit>>, <<"Connect", Unit>>, <<"Options", Unit>>,
             <<"Trace", Unit>>, <<"Patch", Unit>>, <<"Other", Text>> >>)
Scheme == Variant(<< <<"Http", Unit>>, <<"Https", Unit>>, <<"Other", Text>> >>)
Duration == Number(8)
StatusCode == Number(2)
Datetime == Pair(Number(8), Number(4))

TypeOf ==
  [method |-> Method, path_with_query |-> OptionOf(Text), scheme |-> OptionOf(Scheme),
   authority |-> OptionOf(Text), status_code |-> StatusCode,
   connect_timeout |-> OptionOf(Duration), first_byte_timeout |-> OptionOf(Duration),
   between_bytes_timeout |-> OptionOf(Duration)]

ASSUME HeadsAssumption ==
  \A h \in Heads :
    \A a \in {"method", "path_with_query", "scheme", "authority", "status_code"} :
      h[a] \in TypeOf[a].values

(* What new() of a request, a response and options starts with.             *)
Fresh ==
  [a \in DOMAIN TypeOf |->
     CASE a = "method" -> <<"Get", <<>>>> [] a = "status_code" -> 200 [] OTHER -> None]

NoAnswer == [value |-> <<>>, meant |-> <<>>]

AttributesInit ==
  /\ head \in Heads
  /\ attrs = Fresh /\ asked = Fresh
  /\ answer = NoAnswer
  /\ attributeCalls = 0

-----------------------------------------------------------------------------
(* Reading a result.                                                        *)

read_method(area) ==
  LET n == Read(area, 0, 1)
  IN  CASE n = 0 -> <<"Get", <<>>>> [] n = 1 -> <<"Head", <<>>>>
        [] n = 2 -> <<"Post", <<>>>> [] n = 3 -> <<"Put", <<>>>>
        [] n = 4 -> <<"Delete", <<>>>> [] n = 5 -> <<"Connect", <<>>>>
        [] n = 6 -> <<"Options", <<>>>> [] n = 7 -> <<"Trace", <<>>>>
        [] n = 8 -> <<"Patch", <<>>>> [] OTHER -> <<"Other", read_string(area, 4)>>

read_option_string(area) == read_option(Read(area, 0, 1), read_string(area, 4))

(* Mutant: the string of an option where that of a plain scheme would be.   *)
read_option_scheme_packed(area) ==
  LET n == Read(area, 4, 1)
  IN  read_option(Read(area, 0, 1),
        CASE n = 0 -> <<"Http", <<>>>> [] n = 1 -> <<"Https", <<>>>>
          [] OTHER -> <<"Other", read_string(area, 4)>>)

read_option_scheme(area) ==
  LET n == Read(area, 4, 1)
  IN  read_option(Read(area, 0, 1),
        CASE n = 0 -> <<"Http", <<>>>> [] n = 1 -> <<"Https", <<>>>>
          [] OTHER -> <<"Other", read_string(area, 8)>>)

(* The host's u64 is read as an i64 and cast back.                          *)
read_duration(area) == read_option(Read(area, 0, 1), as_u64(as_i64(Read(area, 8, 8))))

read_datetime(area) ==
  <<as_u64(as_i64(Read(area, 0, 8))), as_i32(Read(area, 8, 4)) % W32>>

(* A number that is the result itself: ret as u16, ret as u64.              *)
as_u16(ret) == ret % 65536

(* Writing arguments.                                                       *)

write_method(m) ==
  CASE m[1] = "Get" -> <<0, 0, 0>> [] m[1] = "Head" -> <<1, 0, 0>>
    [] m[1] = "Post" -> <<2, 0, 0>> [] m[1] = "Put" -> <<3, 0, 0>>
    [] m[1] = "Delete" -> <<4, 0, 0>> [] m[1] = "Connect" -> <<5, 0, 0>>
    [] m[1] = "Options" -> <<6, 0, 0>> [] m[1] = "Trace" -> <<7, 0, 0>>
    [] m[1] = "Patch" -> <<8, 0, 0>> [] OTHER -> <<9, m[2], TextLen(m[2])>>

write_scheme(s) ==
  CASE s[1] = "Http" -> <<0, 0, 0>> [] s[1] = "Https" -> <<1, 0, 0>>
    [] OTHER -> <<2, s[2], TextLen(s[2])>>

write_option_scheme(s) ==
  IF s = None THEN <<0, 0, 0, 0>> ELSE <<1>> \o write_scheme(s[2])

(* Mutant: a duration that has to fit in an i32.                            *)
write_duration_narrow(d) == IF d = None THEN <<0, 0>> ELSE <<1, as_i32(d[2] % W32)>>

write_duration(d) == IF d = None THEN <<0, 0>> ELSE <<1, as_i64(d[2])>>

-----------------------------------------------------------------------------
(* A getter of attribute a of `from`, and a setter: the host keeps what it   *)
(* takes the words for, or refuses it with Err and keeps what it had.       *)

Get(from, a, read(_)) ==
  /\ answer' = [value |-> read(Store(TypeOf[a], from[a], 0)), meant |-> from[a]]
  /\ UNCHANGED <<head, attrs, asked>>

Set(a, v, words) ==
  LET received == LiftFlat(TypeOf[a], words)
  IN  /\ IF Accepts(a, received)
           THEN attrs' = [attrs EXCEPT ![a] = received] /\ asked' = [asked EXCEPT ![a] = v]
           ELSE UNCHANGED <<attrs, asked>>
      /\ answer' = NoAnswer
      /\ UNCHANGED head

Arguments(a) == TypeOf[a].values

IncomingRequest_method == Get(head, "method", read_method)
IncomingRequest_path_with_query == Get(head, "path_with_query", read_option_string)
IncomingRequest_scheme == Get(head, "scheme", read_option_scheme)
IncomingRequest_authority == Get(head, "authority", read_option_string)

OutgoingRequest_method == Get(attrs, "method", read_method)
OutgoingRequest_set_method ==
  \E m \in Arguments("method") : Set("method", m, write_method(m))
OutgoingRequest_path_with_query == Get(attrs, "path_with_query", read_option_string)
OutgoingRequest_set_path_with_query ==
  \E p \in Arguments("path_with_query") :
    Set("path_with_query", p, write_option_string(p))
OutgoingRequest_scheme == Get(attrs, "scheme", read_option_scheme)
OutgoingRequest_set_scheme ==
  \E s \in Arguments("scheme") : Set("scheme", s, write_option_scheme(s))
OutgoingRequest_authority == Get(attrs, "authority", read_option_string)
OutgoingRequest_set_authority ==
  \E t \in Arguments("authority") : Set("authority", t, write_option_string(t))

RequestOptions_connect_timeout == Get(attrs, "connect_timeout", read_duration)
RequestOptions_set_connect_timeout ==
  \E d \in Arguments("connect_timeout") : Set("connect_timeout", d, write_duration(d))
RequestOptions_first_byte_timeout == Get(attrs, "first_byte_timeout", read_duration)
RequestOptions_set_first_byte_timeout ==
  \E d \in Arguments("first_byte_timeout") :
    Set("first_byte_timeout", d, write_duration(d))
RequestOptions_between_bytes_timeout ==
  Get(attrs, "between_bytes_timeout", read_duration)
RequestOptions_set_between_bytes_timeout ==
  \E d \in Arguments("between_bytes_timeout") :
    Set("between_bytes_timeout", d, write_duration(d))

(* A u16 is passed as an i32 and returned as one.                           *)
IncomingResponse_status ==
  /\ answer' = [value |-> as_u16(head.status_code), meant |-> head.status_code]
  /\ UNCHANGED <<head, attrs, asked>>
OutgoingResponse_status_code ==
  /\ answer' = [value |-> as_u16(attrs.status_code), meant |-> attrs.status_code]
  /\ UNCHANGED <<head, attrs, asked>>
OutgoingResponse_set_status_code ==
  \E c \in Arguments("status_code") : Set("status_code", c, <<as_i32(c)>>)

(* The handler's copies of what the incoming head says.                      *)
copy_method ==
  Set("method", head.method, write_method(read_method(Store(Method, head.method, 0))))
copy_path_with_query ==
  Set("path_with_query", head.path_with_query,
      write_option_string(read_option_string(
        Store(OptionOf(Text), head.path_with_query, 0))))
copy_scheme ==
  Set("scheme", head.scheme,
      write_option_scheme(read_option_scheme(Store(OptionOf(Scheme), head.scheme, 0))))
copy_status ==
  Set("status_code", head.status_code, <<as_i32(as_u16(head.status_code))>>)

(* Clocks and the random source: any number.                                *)
Returned(T, read(_)) ==
  /\ \E n \in T.values : answer' = [value |-> read(n), meant |-> n]
  /\ UNCHANGED <<head, attrs, asked>>
u64_of_i64(n) == as_u64(as_i64(n))
datetime_at(d) == read_datetime(Store(Datetime, d, 0))
string_at(s) == read_string(Store(Text, s, 0), 0)

monotonic_clock_now == Returned(Number(8), u64_of_i64)
monotonic_clock_resolution == Returned(Number(8), u64_of_i64)
wall_clock_now == Returned(Datetime, datetime_at)
wall_clock_resolution == Returned(Datetime, datetime_at)
get_random_u64 == Returned(Number(8), u64_of_i64)
get_random_bytes == Returned(Text, string_at)
Error_to_debug_string == Returned(Text, string_at)

-----------------------------------------------------------------------------
Getter ==
  \/ IncomingRequest_method \/ IncomingRequest_path_with_query
  \/ IncomingRequest_scheme \/ IncomingRequest_authority
  \/ OutgoingRequest_method \/ OutgoingRequest_path_with_query
  \/ OutgoingRequest_scheme \/ OutgoingRequest_authority
  \/ RequestOptions_connect_timeout \/ RequestOptions_first_byte_timeout
  \/ RequestOptions_between_bytes_timeout
  \/ IncomingResponse_status \/ OutgoingResponse_status_code
  \/ monotonic_clock_now \/ monotonic_clock_resolution
  \/ wall_clock_now \/ wall_clock_resolution
  \/ get_random_u64 \/ get_random_bytes \/ Error_to_debug_string

Setter ==
  \/ OutgoingRequest_set_method \/ OutgoingRequest_set_path_with_query
  \/ OutgoingRequest_set_scheme \/ OutgoingRequest_set_authority
  \/ RequestOptions_set_connect_timeout \/ RequestOptions_set_first_byte_timeout
  \/ RequestOptions_set_between_bytes_timeout
  \/ OutgoingResponse_set_status_code
  \/ copy_method \/ copy_path_with_query \/ copy_scheme \/ copy_status

AttributesNext ==
  /\ attributeCalls < MaxAttributeCalls
  /\ attributeCalls' = attributeCalls + 1
  /\ Getter \/ Setter

AttributesSpec == AttributesInit /\ [][AttributesNext]_attributesVars

-----------------------------------------------------------------------------
(* The host holds for every attribute what the program set last and the     *)
(* host accepted, or what the handler meant to copy: the forwarded request  *)
(* line and status are those that came in.                                  *)
HostHoldsWhatWasSet == attrs = asked

(* A getter returns what the host holds, whatever its width or case.        *)
GettersAgree == answer.value = answer.meant
=============================================================================
