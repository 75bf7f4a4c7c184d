# TLA+ models of proxy-wasm on WASI

This directory specifies the program of this repository: a WASI HTTP component
(`proxy/`) that forwards requests to an upstream and shows them to an existing
proxy-wasm plugin, which is linked into the same component through the C++ SDK
(`proxy-wasm-cpp-sdk/`). TLC checks the models on small instances, TLAPS proves
the safety theorems for all instances.

    tlc -config ProxyRelay.cfg MCProxyHandle      one of the runs below
    tlapm ProxyHandleProofs.tla                   one of the proof modules

## 1. The system

```
 client ──request──> WASI host ──handle()──> proxy/lib.rs ──send_request──> WASI host ──> upstream
        <─response──  (streams)               │      ▲        <─future/streams─
                                 proxy_on_*() │      │ proxy_log, proxy_get_property
                                              ▼      │         (proxy/host.rs)
                              proxy_wasm_intrinsics.cc: context tables
                                              │ virtual calls
                                              ▼
                                 plugin (example.cc), proxy_wasm_api.h
```

All of it runs in one single-threaded WebAssembly instance. What interleaves
with it is the WASI host and, behind it, the two HTTP peers. Nothing is
persisted; a trap ends the instance.

| Component | State | Operations | What is hard | What makes it correct |
|---|---|---|---|---|
| Proxy handler, `proxy/lib.rs` | locals of `handle`: streams, bodies, futures, the response outparam | `handle`, `stream_data` | it blocks on one object at a time while peers send, stop, close and fail; every `unwrap` ends it in the middle of a relay | each message goes on whole or is seen to be broken; the client gets one answer, and the right one; writes fit the permit; it ends |
| Callback declarations, `proxy/guest.rs` | none | 7 `proxy_on_*` calls | order and arguments | the plugin sees headers, body, trailers in order, each before it goes on, and learns of the end |
| Host calls, `proxy/host.rs`, `types.rs` | none (output goes to stdout/stderr) | `proxy_log`, `proxy_get_log_level`, `proxy_get_property` | 4096-byte limit of blocking writes, null pointers, two conventions for names of properties, an `unwrap` in the middle of a callback | lines come out whole and at their level; a trap of a log call has one of two causes |
| Guest allocation, `proxy/alloc.rs` | none | `allocate_in_guest`, `deallocate_in_guest` | size 0 | - |
| SDK context registry, `proxy_wasm_intrinsics.cc` | `context_map`, `root_context_map`, factories | about 25 exports | ids come and go in any order, raw pointers, no null checks | every callback finds a live object of the right kind |
| SDK contexts, `proxy_wasm_api.h` | id, root pointer | create, done, log, delete | life cycle shared with the host | a stream never outlives its root |
| SDK outbound calls, `proxy_wasm_api.h` | four token tables, open/closed flags of streams | `httpCall`, `grpcSimpleCall`, `grpcCallHandler`, `grpcStreamHandler`, `cancel`, `reset`, `close`, `send`, answers | handlers that change the tables from inside a callback; reused tokens | an answer reaches its call, no destroyed handler is used, every call leaves the tables |
| SDK header pairs | none | `pairsSize`, `marshalPairs`, `MakeHeaderStringPairsBuffer`, `pairs` | size computed in one pass, used in another | the block fits, what is written is read back |
| SDK metrics | tags that are left, prefix, cached metric ids | `resolve`, `partiallyResolve`, `extendAndResolve`, `increment`, `get` | copies that inherit the cache; names put together of values | each combination of tags has a number of its own |
| SDK shared data, queues, properties, buffers | none | thin wrappers over host calls | no host call behind them exists here, but `getProperty` | - |
| Hello component, `src/lib.rs` | none | `handle` | flushes its body before it hands the response over | it returns with its bytes sent; it ends where the host lets it |
| Generated bindings, `src/bindings.rs` | handles | wrappers and drops | parents and children, handles passed on, literal offsets and discriminants | one owner for each handle; values arrive as they were |
| WIT packaging, `bazel/wit.bzl`, `tools/wit-package.py` | none | collect transitive WIT files | - | - |
| Build files | none | - | - | - |

Every component, with the reason where it is left out, is in `PROJECT.json`.

## 2. Modules

| Module | Models | Correspondence |
|---|---|---|
| `ProxyHandle` | one call of `Proxy::handle` with its host and peers | `pc` is the next statement of `handle` or `stream_data`; a step ends where the code waits (`block`), asks the host (`check_write`, `read`, `write`, `flush`, `finish`) or calls the plugin. `dir` is the `request` parameter of `stream_data`, `permit` its `buffer`, `data` its `data.len()`. Each callback may trap (`Callback`), as `host.rs` unwraps inside it. The host's state is per message: sent, read, written, delivered bytes and how both ends stand; `denied` says what it refused that no peer decides |
| `MCProxyHandle` | - | the body lengths of the runs |
| `BodyRelay` | abstract: what a relay promises the peers of one message | - |
| `FilterStream` | abstract: what a proxy-wasm host promises its plugin about one message: order, each part before it goes on, and that no trailers are skipped | - |
| `ProxyHandleProofs` | - | inductive invariant and safety theorems of `ProxyHandle`; it implements `FilterStream` and `BodyRelay` |
| `WasiResources` | every wrapper and drop of `bindings.rs` as an operation on resource handles | `value[v]` is the number a Rust variable owns, `table` the component's handle table in the host. One operator for each wrapper, under its name; `AnyProgram` calls them in any order safe Rust can |
| `MCWasiResources`, `WasiResourcesProofs` | - | the run's instance; theorems about any program |
| `ProxyResources` | `Proxy::handle` once more, statement by statement with every temporary and drop | `at` is the next statement or drop; a program of `WasiResources` |
| `HelloComponent` | `Component::handle` of `src/lib.rs` | `at` likewise, `sent` is where the three bytes are, `eager` which kind of host it runs on |
| `HostCalls` | `host.rs`, `types.rs` and the plugin's side of the calls | `proxy_log` is two blocking writes on a stream of its own; `Lookup` is the comparison of `proxy_get_property`, whose one value has no bytes; `WasmResult`, `LogLevel` against `CppWasmResult`, `CppLogLevel` are the numbers of both languages |
| `MCComponents`, `MCHostCalls` | - | the proxy, the hello component and the host calls on one handle table; the host calls alone |
| `ComponentsProofs` | - | theorems about the handler's resources, the host calls and the hello component, which are programs of `WasiResources`, and about the three on one table |
| `CanonicalABI` | the component model's memory layout, as the generated literals assume it | A type is a record: its alignment, size and number of flat words, its values, and for each value the cells of memory and the words it is in. `Pair`, `Variant`, `OptionOf`, `ResultOf` compute them from those of the parts, without recursion; the bindings have the results as literals. The few helpers of `bindings.rs` (`as_i32`, `string_lift`, ...) are here too |
| `ErrorCodes` | the 39 codes of `ErrorCode` at the five wrappers that read one and the one that writes one | `read_...` and `write_...` have the literals of the source: offsets, discriminants, widths. `site` is the wrapper |
| `RequestAttributes` | every getter and setter of requests, responses and options, clocks, random numbers | `attrs` is what the host holds, `asked` what the program set, `answer` what a getter made of it |
| `FieldsCalls` | the wrappers of `Fields` with their lists in memory | `heap` counts blocks, `held` those that became Rust values |
| `HeaderPairs` | header lists of the SDK | a block is its size and the cells written; a 32-bit number takes four cells |
| `HeaderPairsProofs` | - | lists of any length: the block fits and is read as the list |
| `WireValuesProofs`, `ErrorCodesProofs` | - | layouts and flat words of types, for any widths and values; theorems of `FieldsCalls` and `RequestAttributes`, and of `ErrorCodes` |
| `MCWireValues` | - | `HeaderPairs`, `ErrorCodes`, `RequestAttributes` and `FieldsCalls` |
| `ContextRegistry` | the tables of `proxy_wasm_intrinsics.cc` and the exports that use them | `heap` holds every object ever created, so an index is an address and `freed` tells which dangle |
| `PluginHost` | that registry in a host that keeps the ABI's rules | `stage` and `parent` are the host's; the guards are the rules `proxy_wasm_api.h` states for contexts (lines 369-384, 460-469) |
| `ProxySession` | that registry in this repository's host, which calls `handle` several times on one instance | the two `proxy_on_context_create` calls of `lib.rs:121-122` and the callbacks to context 2 |
| `Callouts` | the outbound calls of a root context | the four maps under their names; `local_close_` and `remote_close_` are the sets of streams whose member is true; `running` is the callback in progress, from which the plugin may call anything |
| `Metrics`, `MCMetrics` | metric objects, simple counters and the host's numbers | `fixed` and `counted` are what the plugin means, `metric_ids`, `prefix`, `tags` what the SDK keeps |
| `MCPluginSdk` | - | `PluginHost`, `Callouts` and `Metrics`: the parts of the SDK that keep state |
| `PluginSdkProofs`, `MetricsProofs` | - | inductive invariants and theorems of `PluginHost`, `Callouts` and `Metrics` |

`ProxyHandle`, `ProxyResources` and `ProxySession` are three cuts of one function:
its bytes and peers, its handles, its plugin over many requests. The first two have
the same control flow, statement by statement; the bindings in between are
`WasiResources` for the handles and `ErrorCodes`, `RequestAttributes` and
`FieldsCalls` for the values. `HostCalls` interleaves with neither: the instance has
one thread, and a host call returns before the callback it is made from does. What
reaches them of it is that it may not return: in `ProxyHandle` the second disjunct of
`Callback`, in `ProxyResources` `Failure` at each statement that makes a callback.

`MCComponents`, `MCPluginSdk` and `MCWireValues` each join the modules they model, and a
behaviour of theirs is one of one of these: the first variable says which, and the
variables of the others stay as they are.

### Abstractions

* Bytes are counted, not named. The handler writes the buffer it read
  (`lib.rs:85`) and streams are ordered, so a byte can be missing or late, never
  altered. The host may permit, and a read may return, any smaller count.
* A request head is one bit, `headOk`: it has exactly one UTF-8 `destination`
  header and the host accepts its parts for an outgoing request. Each of the
  checks behind it (`lib.rs:29-37`, 128-132) ends in the same trap.
* In `ProxyHandle` the plugin is only told. Its statuses are ignored by the code,
  the `end_of_stream` it gets is a constant, and no host call of `proxy/host.rs`
  lets it touch the message. A host call it makes can end the instance, at any
  callback; a trap of the plugin's own code is not told apart from that.
* What the host may refuse of the response's head is its status
  (`set_status_code`, `lib.rs:180`); the rest of it was accepted by the host already.
* The value of `proxy_get_property` has size 0: `allocate_in_guest` returns null, and
  the copy of no bytes to it (`host.rs:58`) is taken to do nothing.
* Texts and lists in memory are model values with a length; 32- and 64-bit words
  are scaled to `W32` = 2^20 and `W64` = 2^30 so that TLC can count with them, with
  boundary values of each width (0, the sign bit, the largest).
* `WriteLimit` = 4 stands for the 4096 bytes of a blocking write.
* A trap is taken by the host as it must: an outparam that was not set becomes an
  error answer, a body that was not finished is aborted.
* Mutated operators, marked `Mutant:` in their comments, stand before the
  definitions they replace. No specification uses them.

### Assumptions about what is outside the repository

* A body that ends has the length its head declares (the HTTP layer checks it
  before it reports the end of the stream).
* `read` after the source became ready returns at least one byte, the end or an
  error.
* A host with `DropLosesData = FALSE` delivers what an output stream accepted
  even when the stream is dropped right afterwards; with `TRUE` it may lose it,
  as `bindings.rs:6771` allows.
* An upstream answers at any time; once it answers while it reads it takes at
  most `EchoWindow` request bytes more than it could send response bytes.
* A host of `Callouts` answers each call once, at the latest with a time-out, and
  does not use a token again while its answer is being delivered (`FreshToken`):
  the SDK erases by token after the callback (`proxy_wasm_api.h:1919, 1996, 2004`).
  Without that a call that is started from the callback under the same token would
  be erased with the old one.
* A host of `Metrics` has one number per name, gives a name one id, and adds what a
  `SimpleCounter` records.
* A host of `WasiResources` traps when a parent is dropped before a child, and may
  use a free index again at once.

## 3. Runs

| Run | Question | Instance | Result |
|---|---|---|---|
| `proxy_relay` | what does the handler forward, show the plugin and answer, whatever its peers do? | bodies 0..3 both ways, windows 2; 890k states | holds |
| `proxy_waiting` | where can it wait for good, and does it end everywhere else? | request 0..4, response 0..2, windows 1, 2, 1; 270k states, fair | holds |
| `wasi_resources` | can a program of safe Rust lose or double handles? | 3 variables, 3 indices, any index used again; 50k states up to symmetry | holds |
| `components` | do both components keep the rules of their resources on every path, what do the host calls leave, does hello answer? | 10 indices, the lowest or highest free one next; messages of 0, 1, 4, 5 bytes, 2 host calls; 238k states, fair | holds |
| `wire_values` | do values survive the literals of the wrappers, and header lists the SDK? | every error code at 6 wrappers; 3 calls on attributes; 4 on fields with lists of 2; 3 pairs; 801k states | holds |
| `plugin_sdk` | do the SDK's tables survive any order of contexts, of outbound calls, of metrics? | 3 ids, 2 root ids of which one has factories, 4 objects; 2 tokens, 4 calls; 2 metrics, 2 values, 2 ids, 3 increments; 318k states, fair | holds |
| `proxy_lossy_drop` | does a complete message arrive whole if the host may lose dropped data? | one byte | violated |
| `plugin_get_root` | does `getRoot` return only contexts that exist? | contexts as in `plugin_sdk` | violated |
| `proxy_session` | does each request run on a context of its own? | two requests on one instance | violated |
| `callouts_typed_send` | does the typed `send` use its handler only while it exists? | calls as in `plugin_sdk`, `Typed` | violated |
| `host_property` | does `getProperty` find the property there is? | two host calls | violated |
| `metrics_dotted` | has each combination of tags a counter of its own if values may hold the separator? | one metric of two tags, two values | violated |

What they show:

* **Relay.** A finished message is whole (`CleanEndIsWhole`), and a receiver
  either gets all of a message or sees it broken (`RelaysBodies`). Every write
  fits the host's permit although the receiver reads and closes in between
  (`WritesWithinPermit`). The handler traps only for an outside cause: the request's
  head, a peer, the upstream, the response's status, or a host call of the plugin
  (`TrapHasCause`); in particular the Content-Length check of `finish` cannot
  fail by itself. The client gets an answer and it is true, wherever the handler
  trapped (`AnswerAgrees`). The plugin sees each part before it goes on, and
  trailers before their message is finished (`FiltersMessages`).
* **Waiting.** `stream_data` reads the response only after the whole request, so
  an upstream that answers while it reads can hold the handler, and be held by
  it, for good (`CircularWait`). That is the only such state
  (`StuckOnlyInCircularWait`), nothing but a connection that breaks leads out of it
  (`CircularWaitLasts`), and every other exchange ends (`EndsUnlessCircular`). The
  request need not be longer than the windows: the handler waits for room
  (`lib.rs:60`) before it asks the source again, so it does not notice that the
  source has ended, or failed, while it waits. Elsewhere it does: a receiver
  learns of a sender that broke off (`BreaksAreTold`). A response whose tail was
  still buffered when `handle` returned arrives, on a host that keeps it
  (`ResponseArrives`).
* **Handles.** Rust checks that a variable is used at its type and not after it was
  moved. That each handle has one owner (`HandlesHaveOneOwner`), although wrappers
  pass numbers on and drop their arguments, and the host reuses indices, hangs on
  `take_handle` leaving `u32::MAX`; nothing stays in the table (`NothingStays`). What
  Rust does not check, the order of drops, the two components get right on every path
  (`ComponentsKeepRules`): a stream is dropped before its body is finished, a future
  asked after it was waited for, nothing taken twice. A component that returns has
  finished its bodies and set its outparam (`NothingLeft`).
* **Values.** Each code, attribute, list and option arrives as it was sent
  (`CodesArrive`, `GettersAgree`, `HostHoldsWhatWasSet`, `EntriesAgree`,
  `ResultsAgree`), with the layout computed from the types and not from the
  literals; results fit the areas set aside for them (`AreasHoldResults`), and each
  block of memory is freed once (`MemoryBalances`). A block of header pairs has
  exactly the size that was computed, and the reader finds what was written
  (`PairsArrive`).
* **Host calls.** Each standard stream holds the messages of its levels, whole and in
  order (`LinesAreMessages`). A log call traps only on a message longer than
  one write takes, or on a null pointer (`LogTrapsHaveCause`): both end the request
  the plugin was looking at.
* **Hello.** It returns only with its bytes out (`ReturnsAfterSending`), so it does
  not depend on what a host does with a dropped stream, as the proxy does. In turn
  it ends only on a host that moves a body before it has the response
  (`HelloAnswers`); on any other it waits for good.
* **Registry.** With a host that keeps the rules no export meets a null pointer
  (`NeverCrashes`), the table holds exactly the contexts not deleted
  (`RegistryAgrees`), and a stream's root pointer is good as long as the stream
  is (`RootsOutliveStreams`).
* **Outbound calls.** Whatever a plugin starts, cancels, resets, closes or sends from
  inside a callback, an answer reaches the call it is for
  (`AnswersReachTheirCall`), the tables hold exactly the open calls between callbacks
  (`TablesAgree`), no handler is used after it was destroyed
  (`NoHandlerUsedAfterErase`, handlers of the base classes), and every unary call
  leaves the tables (`CallsEnd`).
* **Metrics.** Whichever object counts or reads, through a cached id or a name, finds
  what was counted for its combination of tags and for no other
  (`CombinationsAreIndependent`), as long as no value holds the separator.

### Where the program departs from its documents

1. `flush` (`lib.rs:89`) only asks for a flush, and the stream is dropped right
   after it: "be sure to fully flush your writes" (`bindings.rs:6772`). With a host
   that uses its licence, a message without Content-Length loses its tail and
   still ends as complete.
2. `end_of_stream` is false in every callback (`lib.rs:138, 154, 184, 204`), against
   `proxy_wasm_api.h:736, 756, 780, 800`. A TODO (`lib.rs:101`) knows of it. No run:
   it is a constant, any message shows it.
3. The statuses of the callbacks are ignored, against `proxy_wasm_enums.h:44,
   73, 83`. A TODO (`lib.rs:103`) knows of it. No run either.
4. `proxy_on_delete` leaves the pointer of a deleted root context in
   `root_context_map`, and `getRoot` returns it, against `proxy_wasm_api.h:678`.
   The host of this repository never deletes a context; hosts the SDK was
   written for do.
5. Contexts 1 and 2 are created for each request under the same ids and never
   deleted, so on an instance that serves a second request it runs on the first
   one's context object, against `lib.rs:112`. A host that takes a fresh
   instance for each request does not show it.
6. `GrpcStreamHandler::send` writes `local_close_` (`proxy_wasm_api.h:335`) after the
   base class may have erased, and so destroyed, the handler (line 1965): the last
   message on a stream whose remote side has closed, against line 2028.
7. `getProperty` sends a null byte after each part (`proxy_wasm_api.h:906, 915`) and
   `proxy_get_property` compares the path with one that has none (`host.rs:54`): it
   finds nothing, against `proxy_wasm_api.h:900`. `ensureRootContext`, which names the
   property without the byte, finds it.
8. Tags and values are joined by "." and a "." in a value is not escaped
   (`proxy_wasm_api.h:1545-1550`): two combinations can share a counter, against line
   1710.

### Bounds and why they are enough

* Windows of 2 and bodies of up to 3 let a read be split, a write be split, a window
  be full, the handler overtake and fall behind either peer. The proofs remove
  these bounds for safety.
* `proxy_waiting` needs a request of exactly 1 + 2 + 1 bytes, the sum of the three
  windows, and a response of 2 over a window of 1. The host's window for writes is 2
  because with 1 the handler's wait for room empties it before every drop. Of the four
  choices for the two heads' Content-Length the run has two (`MCFairSpec`), both or
  neither; it matters in `Finish` only, and `proxy_relay` has all four. A response
  may have a body and then fail, end or stop, so every early end of the upstream is
  in it.
* Three variables and indices are a parent, a child and one more, which is given away
  or takes a free index again. The proofs hold for any numbers. In `components` the
  programs run to their end with as many indices as they can hold at once, and the
  host takes the lowest or highest free one; the proofs hold for any choice.
* 3 ids are a root, a stream and one more of either kind; 4 objects let every id be
  deleted and used again (`MaxObjects` is a guard of `Enter`). 2 tokens and 4 calls
  let a token be used again while another call is open, and from a callback. The
  proofs hold for any numbers of all of them.
* `wire_values` needs no more calls than a value takes to be set, copied and read
  back; fields get two entries, a change and a look. Every code and every literal
  is reached.
* 2 metrics are an object and the copy or extension made of it; 2 tags with 2 values
  are four combinations, of which two can have ids (`MaxResolved`). The proof holds for
  any numbers and values, with at most two tags given at once.
* Deadlock checking is on in the three runs of `ProxyHandle`, which says when it is
  over. The other cfg files switch it off: their programs end (`components`,
  `wasi_resources`, `host_property`), their hosts stop creating contexts or calling
  `handle` (`plugin_get_root`, `proxy_session`, `plugin_sdk`), or a bound on the
  calls is used up (`wire_values`, `callouts_typed_send`, `metrics_dotted`).

### Fairness

`FairSpec` gives weak fairness to the handler (the host runs an instance that is
not blocked, and nothing else runs in it), to the senders (each goes on with its
message while the host has room), to the upstream's answer and to the receivers.
Breaking a connection, in either direction, is never fair: no property relies on a peer
that fails. The steps of the two peers are fair each on their own, since they run
on machines of their own. The handler needs only one fairness condition as it is
sequential.

`HelloComponent` is fair to the program and to the host's moving of a body it may
move; errors of a stream are never fair. `Callouts` assumes that a callback returns
(weak) and that each call is answered, at the latest by its time-out (strong: other
callbacks keep the plugin, which takes one at a time, busy in between). `CallsEnd`
says nothing of streams: a host may leave one open for ever.

## 4. Proofs

Eight modules hold proofs, all checked to the last leaf, from the constants'
named assumptions alone: windows and the limit of a write positive, lengths and sizes
natural numbers; ids positive, factories for known root ids; a function's variables
are among the names; `u32::MAX` is no index, and a host reuses only free ones; names
and values of headers are sequences of characters; a u32 has a multiple of 65536
values and a u64 a multiple of a u32's, numbers and the addresses and lengths of texts
are within their widths, the attributes of a head are of their types, lists of fields
hold texts, and what is left in a word is a natural number. Five theorems have a hypothesis
besides, which each names: `PeersSeeWholeMessages` (`~DropLosesData`), the three about
outbound calls (`~Typed`) and `CountersAreIndependent` (`NoSeparatorInValues`). For each
of the three a violated run shows what happens without it.

**`ProxyHandleProofs`.** None of the invariants is inductive: that a finished
message is whole needs what `stream_data` still owes the sink at each of its
statements. `IInv` adds to `TypeOK` and `TrapHasCause`:

* `Lengths`: delivered <= written <= read <= sent <= body, where read exceeds written
  by the current buffer only;
* `Buffer`: between `read` and `write` the buffer is within the permit and the
  permit within the sink's room, which only grows meanwhile;
* `SourceEnds`: a source that closed has sent all, one that failed has failed
  trailers, a finished body is whole;
* `Place`: what each place in the program knows, e.g. from `flush` on the source is
  closed and read empty, and the outparam is set from the response's stream on.

From `[]IInv` follow `TypeCorrect`, `FinishedMessagesAreWhole`, `WritesFit`,
`TrapsAreCaused` and `AnswersAgree`.

`WaitsAreCircular` proves the last part of `StuckOnlyInCircularWait`, for bodies and
windows of every size: where the circular wait does not hold and the handler has not
ended, its next step or a fair step of a peer can be taken. The steps' guards are
written out for it (`HandlerReady`, `PeersReady`), since the prover does not handle
ENABLED; that they are the guards is the other part, which TLC checks. It needs `Waits`:
what `stream_data` was told of its source and sink still holds when it reads and calls
`check_write`, and no stream is dropped, nor a byte of the response written, too early.
`CircularWaitIsForGood` proves `CircularWaitLasts`. It needs `Answered`: an upstream
whose response has begun has answered, so in the wait it does not answer again,
with an error.

Its last part is the refinements. `Shown` says what the plugin was shown at each
place, `Kept` that only a host with that licence loses data. With them every step
is a step of the abstract specification or a stutter, for both messages:
`PluginSeesFirst` (`Spec => FiltersMessages`) and `PeersSeeWholeMessages`
(`Spec => RelaysBodies`, if `~DropLosesData`).

**`PluginSdkProofs`.** First the registry: `IInv` joins the run's invariants with `Hierarchy` (a
stream that exists has a root that exists) and `OnlyRootsClose`. The lemma
`EnteredAgrees` covers both kinds of creation; deletion needs that two ids never
share an object, which `RegistryAgrees` implies as an object knows its id. It
gives `TypeCorrect` (no run repeats this `TypeOK`), `CallbacksFindContexts`,
`RegistryTablesAgree` and `StreamsKeepRoots`.

Then the outbound calls, any number of tokens and calls. While a token is being answered
the tables and the host disagree about it, so the invariant says of every other token that
they agree (`Settled`), of that one what the callback still has to do
(`Underway`), and that no two tokens have the same call (`Distinct`). Each method
keeps it, also when it is called from inside a callback on the token being answered.
Results: `AnswersReach`, `TablesAgreeAlways` and `NoUseAfterErase`, all for handlers of
the base classes (`~Typed`). The class template's `send` uses a handler it may have
destroyed, which the run `callouts_typed_send` shows, and takes its side for closed also
when the host refused the message (`proxy_wasm_api.h:334-335`), so that its tables need
not agree with the host's.

**`WasiResourcesProofs`.** About any program, with any number of variables and
indices. `Good` relates `value` and `table`: each handle has one
owner, children have parents, what has a child it gives out once is spent. Every
wrapper is made of few operations (give handles, make one, give one out, spend
one, drop one); one lemma shows of each that it keeps `Good`, and each wrapper is
then a use of one of them. Results: `TypeCorrect` (no run repeats this `TypeOK`),
`HandlesAreOwnedOnce`, `ReturnLeavesNothing`.

The second part of the module is what a program that is known can say of its
handles. A `Picture` says which variable owns what, which is a child of which, what
may still be given out and what must still be finished. For each operation there is
a lemma of how it redraws a picture (`Redrawn`), whichever indices the host
chooses: rules that depend on it, "no parent before its child", become facts about
variables.

**`ComponentsProofs`.** First the handler: every step of `ProxyResources` is a step of
`AnyProgram` or leaves its variables alone (`HandlerIsProgram`), so it inherits those theorems:
`HandlerOwnsOnce`, `HandlerLeavesNothing`. `Place` gives each place in the program
its picture, for the request's and the response's pass through `stream_data`, and
the proof redraws each into the next. That nothing trapped, was misused or
abandoned is not inductive without the pictures: `HandlerKeepsRules`,
`HandlerAbandonsNothing`.

Second the host calls: any sizes of messages, any limit of a
write, any number of calls.
`HostPlaceInv` is the pictures of a call: it owns its stream from its creation to its
drop, so a call of the table never traps. `LinesInv` says what each console
holds while a message is half written: the messages due so far and, on the console
of the one under way, its piece without the newline. Results: `LinesAreWhole`,
`LogTrapsAreCaused`.

Then the hello component: a program of `WasiResources` too
(`HelloLeavesNothing`), with pictures of its own (`HelloKeepsRules`);
`SentBeforeReturn` needs the place only: from the drop of the stream on the bytes are
out. Last the composition: `ProgramInv` is the invariant of the program that runs,
with the others at rest. Every property of the run `components` but the liveness one
follows for any handles: `ComponentsKeepTheirRules`, `ComponentsLeaveNothing`,
`ComponentsKeepPromises`.

**`MetricsProofs`.** Any number of objects, ids and counters, any values without the
separator (`NoSeparatorInValues`). A name `Spells` a list of tags and values if it can
be cut into them, each followed by a "."; that a name spells one list only
(`NameSpellsOne`) and a list is spelled by one name (`SpelledByOne`) are inductions
along the cuts, made with the least one that differs. `PrefixSpells` shows that
`prefixWithFields` spells what `Fix` lists. The invariant says that prefixes spell,
cached ids have the name they are cached for, simple counters an id of the name their
labels spell, and that what the host counts under a name is what the plugin counted
under the list it spells (`CountsAgree`). Result: `CountersAreIndependent`.

**`HeaderPairsProofs`.** Any list, with names and values of any characters. The function
`ends` says where the texts of each pair end. The size (`SizeOfBlock`), the
block (`MarshalledBlock`) and the reader's second pointer (`ReaderReads`) are
three recursive functions, and each is shown to go along `ends`, by induction
along the list. Induction is over a set here (`AllNaturals`, `Upward`): the numbers
for which something holds contain 0 and with each its successor. `Steps` shows
that a function defined by a step from one number to the next exists, which
`CHOOSE` does not give. Results: `BlocksAreRead` about the code alone, `HeadersArrive` about
the states.

**`WireValuesProofs`.** Any texts, numbers and widths, lists of any length, any number of
calls. `IsLayout` and `IsFlat` say what a type's record must be for the rest to follow:
its cells are within its size, its words are numbered, no words are those of two values;
`Tells` that no value's cells are among another's. Numbers, texts, pairs and variants
have these, each from its parts. `Holds(area, T, v, b)` is the central fact: the cells
from `b` on are those of `v` and no others. `HoldsPair` and `HoldsVariant` take it apart,
one literal offset at a time, down to `Read`; a getter is then a chain of such steps
(`MethodRead`, `OptionSchemeRead`, ...), and a list a union of them with a stride
(`ListHolds`, `ListLoads`). In the other direction `TakesAt(T, v, words, k)` says that the
words from `k` on are those of `v`, and the casts of the setters (`as_i32`, `as_i64`,
`as_u64`, `half_written`) are undone by taking remainders (`Cast32`, `Cast64`,
`HalfWritten`). Results about the loops alone: `ValuesArrive`, `EntriesArrive`.
`FieldsInv` adds to the run's invariants that lists are sequences of pairs of texts and
that the counters are integers, `AttributesInv` that what the host holds is of the type
of its attribute, without which a getter's literals mean nothing. Results:
`EntriesAgreeAlways`, `ResultsAgreeAlways`, `MemoryBalancesAlways`, `HostHoldsAlways`,
`GettersAgreeAlways`.

**`ErrorCodesProofs`.** `Known(T, a, s, f)` states the alignment, size and number of words
of a type; from those of its parts it is computed up to `Known(ErrorCode, 8, 32, 7)` and
the results and futures around it, whose 40 and 56 bytes are the areas of the wrappers.
`PayloadRead` and `ErrorCodeRead` read the 39 cases where they are stored, `SitesRead`
the five results. `PayloadFills` shows of each of the eight kinds of payload that the six
words the cases share are taken as it, whatever `Leftovers` are in them; `SetWritten` puts
the number of the case before it. Results: `CodesArriveAlways`, `AreasHoldAlways`.

**Only model-checked**:

* the liveness properties (`EndsUnlessCircular`, `BreaksAreTold`, `ResponseArrives`,
  `CallsEnd`, `HelloAnswers`), which the prover does not handle;
* that `HandlerReady` and `PeersReady` are the guards of `Handle` and `PeerProgress`, the
  part of `StuckOnlyInCircularWait` that uses ENABLED.

Every other property of a passing run is a theorem.

## 5. Not modelled

* **WIT packaging and build files** (`bazel/`, `tools/`, `BUILD`, `MODULE.bazel`): they run
  when the component is built, copy files and compile; nothing of them is in
  the component.
* **SDK wrappers for shared data, queues, properties and buffers**: one call of the host
  each, no state in the plugin, and no host of this repository has these calls
  (they do not link). `getProperty` is the exception and is in `HostCalls`.
* **Effective contexts** (`setEffectiveContext`) and `getentropy`: the first is state of a
  host that is not here, the second keeps none.
* **Gauges and histograms**: they resolve names with the functions `Metrics` has; that
  they record is one host call.
* **Guest allocation** (`alloc.rs`): the shim's one property has size 0, so
  `allocate_in_guest` returns null in its first branch whenever it is called, and nothing
  calls `deallocate_in_guest`.
* **The bytes of streams and of messages**, the order of the results of `poll`, and the
  wording of log lines: no property is about them.
* **What a client should be told when an upstream answers before the request is over**
  (`lib.rs:175`): the handler goes on with the request and traps if the
  upstream has stopped reading; `AnswerAgrees` fixes what happens, no document says
  what should.
