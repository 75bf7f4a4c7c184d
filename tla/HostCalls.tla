------------------------------ MODULE HostCalls ------------------------------
(***************************************************************************)
(* What the shim answers a plugin (proxy/host.rs, proxy/types.rs):          *)
(* proxy_log to the standard streams, proxy_get_log_level and               *)
(* proxy_get_property, from the plugin's side of the call in the C++ SDK to *)
(* the calls of WASI.                                                       *)
(***************************************************************************)
EXTENDS WasiResources, Integers, Sequences, FiniteSets

CONSTANTS
  Sizes,       \* bytes of messages
  WriteLimit,  \* bytes blocking_write_and_flush takes: 4096
  MaxCalls     \* bound: calls of the plugin

(* The stream of proxy_log, and the error of a write to it.                 *)
HostLocals == {"stream", "error"}

ASSUME HostLocalsAssumption == HostLocals \subseteq Names
ASSUME SizesAssumption      == Sizes \subseteq Nat
ASSUME WriteLimitAssumption == WriteLimit \in Nat \ {0}

VARIABLES
  callAt,   \* where the host call is, "plugin" when there is none
  message,  \* the message being logged
  logged,   \* the messages logged so far
  console,  \* [standard stream -> what was written to it]
  answer,   \* to the last call: the path asked for, and the status
  calls

hostCallVars == <<message, logged, console, answer, calls>>
hostVars == <<resourceVars, callAt, hostCallVars>>

Consoles == {"stdout", "stderr"}
NoPath == [text |-> "", terminated |-> FALSE]
NoMessage == [level |-> 0, size |-> 0, null |-> FALSE]

HostInit ==
  /\ value = [v \in Names |-> NoValue]
  /\ table = [h \in Handles |-> NoEntry]
  /\ abandoned = {} /\ fate = "running"
  /\ callAt = "plugin" /\ message = NoMessage
  /\ logged = <<>> /\ console = [c \in Consoles |-> <<>>]
  /\ answer = [path |-> NoPath, status |-> "Ok"] /\ calls = 0

-----------------------------------------------------------------------------
(* The numbers of the two languages. A plugin can pass any number.          *)

CppLogLevel == [trace |-> 0, debug |-> 1, info |-> 2, warn |-> 3, error |-> 4, critical |-> 5]
PluginLevels == {CppLogLevel[l] : l \in DOMAIN CppLogLevel} \cup {-1, 6}

LogLevel(n) ==
  CASE n = 0 -> "Trace" [] n = 1 -> "Debug" [] n = 2 -> "Info"
    [] n = 3 -> "Warn" [] n = 4 -> "Err" [] n = 5 -> "Critical" [] OTHER -> "none"

(* The statuses of types.rs and of proxy_wasm_common.h, from 0 on.          *)
WasmResult ==
  <<"Ok", "NotFound", "BadArgument", "SerializationFailure", "ParseFailure",
    "BadExpression", "InvalidMemoryAccess", "Empty", "CasMismatch",
    "ResultMismatch", "InternalFailure", "BrokenConnection", "Unimplemented">>
CppWasmResult ==
  <<"Ok", "NotFound", "BadArgument", "SerializationFailure", "ParseFailure",
    "BadExpression", "InvalidMemoryAccess", "Empty", "CasMismatch",
    "ResultMismatch", "InternalFailure", "BrokenConnection", "Unimplemented">>

(* The console of each arm of the match, "none" for the last.               *)
ConsoleOf(level) ==
  CASE LogLevel(level) \in {"Trace", "Debug", "Info"} -> "stdout"
    [] LogLevel(level) \in {"Warn", "Err", "Critical"} -> "stderr"
    [] OTHER -> "none"

(* The shim answers r about a path, and the plugin goes on.                 *)
Returns(path, r) ==
  LET n == CHOOSE i \in DOMAIN WasmResult : WasmResult[i] = r
  IN  callAt' = "plugin" /\ answer' = [path |-> path, status |-> CppWasmResult[n]]

-----------------------------------------------------------------------------
(* proxy_log. A slice of a null pointer (that of an empty string_view) is   *)
(* undefined behaviour: it is taken for empty, or the shim traps.           *)

StartLog ==
  /\ callAt = "plugin" /\ calls < MaxCalls /\ calls' = calls + 1
  /\ \E l \in PluginLevels, s \in Sizes, null \in BOOLEAN :
       /\ null => s = 0
       /\ message' = [level |-> l, size |-> s, null |-> null]
  /\ logged' = Append(logged, message')
  /\ \/ /\ CASE ConsoleOf(message'.level) = "stdout" -> get_stdout("stream")
             [] ConsoleOf(message'.level) = "stderr" -> get_stderr("stream")
             [] OTHER -> Returns(NoPath, "BadArgument") /\ UNCHANGED resourceVars
        /\ ConsoleOf(message'.level) # "none" => callAt' = "message" /\ UNCHANGED answer
     \/ message'.null /\ Trap /\ UNCHANGED <<callAt, answer>>
  /\ UNCHANGED console

(* blocking_write_and_flush(bytes).unwrap(): more than the limit traps, an  *)
(* error panics after none or all of the bytes.                             *)
Write(what, size, next) ==
  LET c == ConsoleOf(message.level)
      written == [console EXCEPT ![c] = Append(@, what)]
  IN  IF size > WriteLimit
        THEN Trap /\ UNCHANGED <<callAt, console>>
        ELSE /\ OutputStream_blocking_write_and_flush("stream", "error")
             /\ IF value'["error"] = NoValue /\ table'[HandleOf("stream")].stage = "ready"
                  THEN callAt' = next /\ console' = written
                  ELSE callAt' = "unwrap" /\ console' \in {console, written}

(* Mutant: message and newline in one write.                                *)
WriteLine ==
  /\ callAt = "message"
  /\ Write(message, message.size + 1, "newline")
  /\ UNCHANGED <<message, logged, answer, calls>>

WriteMessage ==
  /\ callAt = "message"
  /\ Write(message, message.size, "newline")
  /\ UNCHANGED <<message, logged, answer, calls>>

(* Mutant: the newline of every message goes to stdout.                     *)
NewlineToStdout ==
  /\ callAt = "newline"
  /\ OutputStream_blocking_write_and_flush("stream", "error")
  /\ IF value'["error"] = NoValue /\ table'[HandleOf("stream")].stage = "ready"
       THEN callAt' = "drop" /\ console' = [console EXCEPT !["stdout"] = Append(@, "newline")]
       ELSE callAt' = "unwrap" /\ UNCHANGED console
  /\ UNCHANGED <<message, logged, answer, calls>>

WriteNewline ==
  /\ callAt = "newline"
  /\ Write("newline", 1, "drop")
  /\ UNCHANGED <<message, logged, answer, calls>>

EndLog ==
  /\ callAt = "drop"
  /\ DropOutputStream("stream")
  /\ Returns(NoPath, "Ok")
  /\ UNCHANGED <<message, logged, console, calls>>

UnwrapWrite == callAt = "unwrap" /\ Panic("failed") /\ UNCHANGED <<callAt, hostCallVars>>

proxy_get_log_level ==
  /\ callAt = "plugin" /\ calls < MaxCalls /\ calls' = calls + 1
  /\ Returns(NoPath, "Ok")
  /\ UNCHANGED <<resourceVars, message, logged, console>>

-----------------------------------------------------------------------------
(* proxy_get_property. A path is text, one that getProperty made of parts   *)
(* has a null byte after each part.                                         *)

Path(text, terminated) == [text |-> text, terminated |-> terminated]
RootIdPath == Path("plugin_root_id", FALSE)

(* The shim's only property is the root id, which is empty: the answer      *)
(* carries no bytes.                                                        *)
Lookup(path) == IF path = RootIdPath THEN "Ok" ELSE "NotFound"

Property(path) ==
  /\ callAt = "plugin" /\ calls < MaxCalls /\ calls' = calls + 1
  /\ IF path.text = "not UTF-8"
       THEN Panic("failed") /\ UNCHANGED <<callAt, answer>>
       ELSE Returns(path, Lookup(path)) /\ UNCHANGED resourceVars
  /\ UNCHANGED <<message, logged, console>>

EnsureRootContext == Property(RootIdPath)
GetProperty ==
  \E text \in {"plugin_root_id", "other", "not UTF-8"} : Property(Path(text, TRUE))

-----------------------------------------------------------------------------
proxy_log == StartLog \/ WriteMessage \/ WriteNewline \/ EndLog \/ UnwrapWrite

HostNext ==
  /\ fate = "running"
  /\ proxy_log \/ proxy_get_log_level \/ EnsureRootContext \/ GetProperty

HostSpec == HostInit /\ [][HostNext]_hostVars

-----------------------------------------------------------------------------
(* The levels of each standard stream, by their names in C++, and the line  *)
(* of it that the i-th of the messages l is due on.                         *)
LevelsOf(c) ==
  {CppLogLevel[l] : l \in CASE c = "stdout" -> {"trace", "debug", "info"}
                           [] c = "stderr" -> {"warn", "error", "critical"}}
Due(l, c, n) == {i \in 1 .. n : l[i].level \in LevelsOf(c)}
LineOf(l, c, i) == Cardinality(Due(l, c, i))

(* Whenever no host call is in progress, each standard stream holds exactly *)
(* the messages logged at its levels, whole, in order and each on a line of *)
(* its own.                                                                 *)
LinesAreMessages ==
  callAt = "plugin" /\ fate = "running" =>
    \A c \in Consoles :
      /\ Len(console[c]) = 2 * LineOf(logged, c, Len(logged))
      /\ \A i \in Due(logged, c, Len(logged)) :
           /\ console[c][2 * LineOf(logged, c, i) - 1] = logged[i]
           /\ console[c][2 * LineOf(logged, c, i)] = "newline"

(* A host call traps only on a message longer than a write takes (host.rs:26*)
(* and 31), or on a null pointer.                                           *)
LogTrapsHaveCause ==
  fate = "trapped" => message.size > WriteLimit \/ message.null

(* What proxy_wasm_api.h says of getProperty, of the one property there is: *)
(* "Returns value of the property named by the concatenation of `parts`, or *)
(* nullopt if no property value is found." Asked for the root id alone, it  *)
(* finds it.                                                                *)
GetPropertyFinds ==
  answer.path = Path("plugin_root_id", TRUE) => answer.status = "Ok"
=============================================================================
