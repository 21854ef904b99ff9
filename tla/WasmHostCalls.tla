--------------------------- MODULE WasmHostCalls ---------------------------
(***************************************************************************)
(* What a plugin written with the SDK gets from the host: the reads of     *)
(* arion-wasm-sdk (internal.rs, host.rs, request.rs, response.rs) with the *)
(* host calls that answer them (wasm/hostcalls.rs), the header mutations,  *)
(* and the calls that wait: callouts and sleep under the I/O deadline.     *)
(*                                                                         *)
(* A value is its encoded length. Pointers the SDK passes are valid, so    *)
(* the InvalidMemoryAccess answers do not occur. One call at a time; the   *)
(* first step of an evaluation chooses it.                                 *)
(***************************************************************************)
EXTENDS Integers, Sequences, SequencesExt, FiniteSets

CONSTANTS
    StackBuf, HeapBuf, RequestBuf,  \* the first buffers of the SDK
    MaxSize,                        \* longest value
    MaxTime                         \* longest duration
ASSUME HostCallsAssumption == MaxSize \in Nat /\ {StackBuf, HeapBuf, RequestBuf} \subseteq 1..MaxSize /\ MaxTime \in Nat

VARIABLE sdk        \* the SDK call in progress

Absent == -1
Idle == [call |-> "none"]
HostCallsInit == sdk = Idle

-----------------------------------------------------------------------------
\* Host calls that read into a buffer of the guest: the code, and the length they report, Absent
\* when they report none. side is the active message.
Answer(code, written) == [code |-> code, written |-> written]
Fits(value, cap) == value <= cap
Reported(value, cap) == Answer(IF Fits(value, cap) THEN "Ok" ELSE "BufferTooSmall", value)
Unreported(value, cap) == IF Fits(value, cap) THEN Answer("Ok", value) ELSE Answer("BufferTooSmall", Absent)
NotFound == Answer("NotFound", Absent)
InternalError == Answer("InternalError", Absent)

GetHeader(side, value, cap) ==
    IF side = "none" THEN InternalError ELSE IF value = Absent THEN NotFound ELSE Reported(value, cap)
GetPluginConfig(side, value, cap) == IF value = Absent THEN NotFound ELSE Unreported(value, cap)
\* Mutant: the size is checked before the length is reported.
GetBodyUnreported(side, value, cap) ==
    IF side = "none" THEN InternalError ELSE IF value = Absent THEN NotFound ELSE Unreported(value, cap)
GetBody(side, value, cap) ==
    IF side = "none" THEN InternalError ELSE IF value = Absent THEN NotFound ELSE Reported(value, cap)
GetHeadersMap(side, value, cap) == IF side = "none" THEN InternalError ELSE Unreported(value, cap)
GetUri(side, value, cap) == IF side # "request" THEN InternalError ELSE Reported(value, cap)
GetRequest(side, value, cap) == IF side # "request" THEN InternalError ELSE Unreported(value, cap)
GetResponse(side, value, cap) == IF side # "response" THEN InternalError ELSE Unreported(value, cap)
\* The answer is written into memory the guest allocates (arion_malloc).
GetDownstreamMetadata(side, value, cap) == IF side = "none" THEN NotFound ELSE Answer("Ok", value)
GetStatusCode(side, value, cap) == IF side # "response" THEN InternalError ELSE Answer("Ok", value)

Reads == {"header", "config", "body", "headers", "uri", "request", "response", "metadata", "status"}
HostRead(kind, side, value, cap) ==
    CASE kind = "header" -> GetHeader(side, value, cap)
      [] kind = "config" -> GetPluginConfig(side, value, cap)
      [] kind = "body" -> GetBody(side, value, cap)
      [] kind = "headers" -> GetHeadersMap(side, value, cap)
      [] kind = "uri" -> GetUri(side, value, cap)
      [] kind = "request" -> GetRequest(side, value, cap)
      [] kind = "response" -> GetResponse(side, value, cap)
      [] kind = "metadata" -> GetDownstreamMetadata(side, value, cap)
      [] OTHER -> GetStatusCode(side, value, cap)

FirstBuffer(kind) ==
    CASE kind \in {"header", "uri"} -> StackBuf
      [] kind \in {"body", "headers", "config"} -> HeapBuf
      [] OTHER -> RequestBuf
CanBeAbsent(kind) == kind \in {"header", "config", "body"}
BeginRead ==
    /\ sdk.call = "none"
    /\ \E kind \in Reads, side \in {"none", "request", "response"}, value \in {Absent} \cup 0..MaxSize :
          /\ value = Absent => CanBeAbsent(kind)
          /\ sdk' = [call |-> "read", kind |-> kind, side |-> side, value |-> value, cap |-> FirstBuffer(kind),
                     tries |-> 0, written |-> 0, result |-> "none"]

\* The SDK on BufferTooSmall: try once more with the reported length, grow to it unless it is not
\* larger, or double. take_request and take_response compare the code with the discriminant of the
\* enum, which is not the code, and fail; so does a length that was not reported.
RetryHeader(cap, written, tries) == IF tries = 0 THEN written ELSE Absent
RetryUri(cap, written, tries) == IF tries = 0 THEN written ELSE Absent
RetryBody(cap, written) == IF written > cap THEN written ELSE Absent
RetryHeadersMap(cap, written) == IF written > cap THEN written ELSE Absent
RetryPluginConfig(cap) == 2 * cap
RetryTakeRequest == Absent
RetryTakeResponse == Absent
Retry(kind, cap, written, tries) ==
    CASE kind = "header" -> RetryHeader(cap, written, tries)
      [] kind = "uri" -> RetryUri(cap, written, tries)
      [] kind = "body" -> RetryBody(cap, written)
      [] kind = "headers" -> RetryHeadersMap(cap, written)
      [] kind = "config" -> RetryPluginConfig(cap)
      [] kind = "request" -> RetryTakeRequest
      [] OTHER -> RetryTakeResponse
SdkRead ==
    /\ sdk.call = "read" /\ sdk.result = "none"
    /\ LET a == HostRead(sdk.kind, sdk.side, sdk.value, sdk.cap)
           written == IF a.written = Absent THEN sdk.written ELSE a.written
           grown == Retry(sdk.kind, sdk.cap, written, sdk.tries)
       IN sdk' = IF a.code = "BufferTooSmall" /\ grown # Absent
                 THEN [sdk EXCEPT !.cap = grown, !.tries = @ + 1, !.written = written]
                 ELSE [sdk EXCEPT !.result = a.code, !.written = written]

-----------------------------------------------------------------------------
\* Header mutations, one name. A map is the sequence of the values of the name; trailers that do
\* not exist are <<>> with made FALSE. An invalid name or value is an error of the single call and
\* skipped in a batch.
HeaderMutations == [op : {"Set", "Add", "Replace", "Remove"}, value : {1, 2}, valid : BOOLEAN]
Insert(map, m) == [map EXCEPT !.values = <<m.value>>]
SetHeader(map, m) == Insert([map EXCEPT !.made = TRUE], m)
AddHeader(map, m) == [map EXCEPT !.made = TRUE, !.values = Append(@, m.value)]
RemoveHeader(map, m) == [map EXCEPT !.values = <<>>]
ReplaceHeader(map, m) == IF map.values = <<>> THEN [map EXCEPT !.made = TRUE] ELSE Insert([map EXCEPT !.made = TRUE], m)
SingleMutation(map, m) ==
    CASE ~m.valid -> map
      [] m.valid /\ m.op = "Set" -> SetHeader(map, m)
      [] m.valid /\ m.op = "Add" -> AddHeader(map, m)
      [] m.valid /\ m.op = "Replace" -> ReplaceHeader(map, m)
      [] OTHER -> RemoveHeader(map, m)
\* apply_mutations_to_map, on a map that exists.
\* Mutant: Replace does not look whether the header is there.
MutateInserting(map, m) ==
    CASE ~m.valid -> map
      [] m.valid /\ m.op \in {"Set", "Replace"} -> Insert(map, m)
      [] m.valid /\ m.op = "Add" -> [map EXCEPT !.values = Append(@, m.value)]
      [] OTHER -> [map EXCEPT !.values = <<>>]
Mutate(map, m) ==
    CASE ~m.valid -> map
      [] m.valid /\ (m.op = "Set" \/ (m.op = "Replace" /\ map.values # <<>>)) -> Insert(map, m)
      [] m.valid /\ m.op = "Add" -> [map EXCEPT !.values = Append(@, m.value)]
      [] m.valid /\ m.op = "Remove" -> [map EXCEPT !.values = <<>>]
      [] OTHER -> map
InTurn(Call(_, _), map, ms) ==
    LET after[n \in 0..Len(ms)] == IF n = 0 THEN map ELSE Call(after[n - 1], ms[n])
    IN after[Len(ms)]
ApplyHeaderMutations(map, ms) == InTurn(Mutate, [map EXCEPT !.made = TRUE], ms)
MutateHeaders ==
    /\ sdk.call = "none"
    /\ \E map \in [values : {<<>>, <<3>>, <<3, 4>>}, made : BOOLEAN], ms \in TupleOf(HeaderMutations, 2) :
          /\ map.made \/ map.values = <<>>
          /\ sdk' = [call |-> "mutate", batch |-> ApplyHeaderMutations(map, ms), single |-> InTurn(SingleMutation, map, ms)]

-----------------------------------------------------------------------------
\* Callouts: dispatch_http_call, dispatch_grpc_call, sleep. left is the time to the deadline of
\* set_io_timeout, Absent without one; the HTTP callout waits for the body of the response without
\* it, the gRPC callout and sleep never outlive it.
BeginCallout ==
    /\ sdk.call = "none"
    /\ \E kind \in {"http", "grpc", "sleep"}, left \in {Absent} \cup 0..MaxTime :
          sdk' = [call |-> "wait", kind |-> kind, left |-> left, phase |-> "resolve", result |-> "none"]
Finish(result) == sdk' = [sdk EXCEPT !.result = result, !.phase = "done"]
Resolve ==
    /\ sdk.call = "wait" /\ sdk.phase = "resolve"
    /\ \/ sdk.kind # "sleep" /\ (Finish("NotFound") \/ Finish("InternalError"))
       \/ sdk.left = 0 /\ Finish("Timeout")
       \/ sdk.left # 0 /\ sdk' = [sdk EXCEPT !.phase = "sent"]
DispatchHttpCall ==
    /\ sdk.call = "wait" /\ sdk.kind = "http"
    /\ \/ sdk.phase = "sent" /\ sdk' = [sdk EXCEPT !.phase = "body"]
       \/ sdk.phase \in {"sent", "body"} /\ Finish("InternalError")
       \/ sdk.phase = "body" /\ Finish("Ok")
DispatchGrpcCall == sdk.call = "wait" /\ sdk.kind = "grpc" /\ sdk.phase = "sent" /\ Finish("Ok")
Sleep == sdk.call = "wait" /\ sdk.kind = "sleep" /\ sdk.phase = "sent" /\ Finish("Ok")
\* Time passes while the call waits; the timer of what is guarded ends it.
Tick ==
    /\ sdk.call = "wait" /\ sdk.phase \in {"sent", "body"} /\ sdk.left > 0
    /\ IF sdk.left = 1 /\ sdk.phase = "sent" THEN Finish("Timeout") ELSE sdk' = [sdk EXCEPT !.left = @ - 1]

HostCallsNext ==
    BeginRead \/ SdkRead \/ MutateHeaders \/ BeginCallout \/ Resolve \/ DispatchHttpCall \/ DispatchGrpcCall \/ Sleep \/ Tick
HostCallsSpec == HostCallsInit /\ [][HostCallsNext]_sdk /\ WF_sdk(SdkRead)

-----------------------------------------------------------------------------
\* A read through the SDK ends with the whole value, whatever its length and the first buffer, or
\* says why not; only the reads whose host call does not report the length may say BufferTooSmall.
SdkReadsWhole ==
    sdk.call = "read" =>
       /\ sdk.result = "Ok" => sdk.written = sdk.value /\ sdk.value <= MaxSize
       /\ sdk.result = "BufferTooSmall" => sdk.kind \in {"headers", "request", "response"}
       /\ sdk.tries > 1 => sdk.kind = "config"

\* A batch of header mutations leaves what the single host calls leave, one after the other.
BatchIsSequence == sdk.call = "mutate" => sdk.batch.values = sdk.single.values

\* arion-wasm-sdk/src/host.rs:148: an operation that does not complete before the timeout expires
\* returns Timeout. The body of an HTTP callout is awaited without it (hostcalls.rs:1105).
TimeoutHonoured == sdk.call = "wait" /\ sdk.phase \in {"sent", "body"} => sdk.left # 0

-----------------------------------------------------------------------------
(***************************************************************************)
(* The shared memory of the instances of a WebAssembly plugin              *)
(* (wasm/shared.rs, the shared host calls of wasm/hostcalls.rs) as the     *)
(* guests use it through arion-wasm-sdk/src/shared: a name resolves to a   *)
(* variable, u64 and i64 variables have atomic operations, a blob has a    *)
(* version. Every guest increments the variable it resolved, by an atomic  *)
(* operation or by read and compare-and-swap.                              *)
(*                                                                         *)
(* A blob is the number it encodes, as long as that number; words have     *)
(* Width bits. The memory order of an operation is not modelled: every     *)
(* operation is one step on one location.                                  *)
(***************************************************************************)

CONSTANTS
    Guests,         \* instances, each in a transaction of its own
    SharedNames,          \* names of shared variables
    Capacity,       \* WASM_SHARED_MEMORY_VARIABLES
    Width,          \* bits of a word
    MaxAdds         \* increments of a guest
ASSUME SharedAssumption == Capacity \in Nat /\ Width \in Nat \ {0} /\ MaxAdds \in Nat

VARIABLES
    nameToId,       \* SharedMemory.name_to_id
    nextId,         \* next_u64, next_i64, next_blob
    atomics,          \* u64_vars, i64_vars, blob_vars
    guest,
    adds            \* increments that took effect, by variable

Types == {"u64", "i64", "blob"}
Failed == -1
Word == 2 ^ Width
Wrap(type, n) ==
    LET m == n % Word IN IF type = "i64" /\ m >= Word \div 2 THEN m - Word ELSE m
Unsigned(n) == n % Word

SharedInit ==
    /\ nameToId = [n \in SharedNames |-> <<>>]
    /\ nextId = [y \in Types |-> 0]
    /\ atomics = [y \in Types |-> [i \in 0..Capacity - 1 |-> [value |-> 0, version |-> 0]]]
    /\ guest = [g \in Guests |-> [pc |-> "start", name |-> <<>>, type |-> "u64", id |-> Failed, seen |-> 0, version |-> 0, cap |-> 0, left |-> MaxAdds]]
    /\ adds = [y \in Types |-> [i \in 0..Capacity - 1 |-> 0]]
Set(g, w) == guest' = [guest EXCEPT ![g] = w]

-----------------------------------------------------------------------------
\* shared_resolve: looking the name up, taking an id and entering the name are three steps. A name
\* of another type, or an id past the capacity, is an error.
ResolveLookup(g) ==
    /\ guest[g].pc = "start"
    /\ \E n \in SharedNames, y \in Types :
          LET found == nameToId[n]
              w == [guest[g] EXCEPT !.name = <<n>>, !.type = y]
          IN Set(g, IF found = <<>> THEN [w EXCEPT !.pc = "allocate"]
                    ELSE IF found[1].type = y THEN [w EXCEPT !.pc = "ready", !.id = found[1].id]
                    ELSE [w EXCEPT !.pc = "done"])
    /\ UNCHANGED <<nameToId, nextId, atomics, adds>>
ResolveAllocate(g) ==
    /\ guest[g].pc = "allocate"
    /\ LET y == guest[g].type
       IN /\ nextId' = [nextId EXCEPT ![y] = @ + 1]
          /\ Set(g, IF nextId[y] >= Capacity THEN [guest[g] EXCEPT !.pc = "done"]
                    ELSE [guest[g] EXCEPT !.pc = "insert", !.id = nextId[y]])
    /\ UNCHANGED <<nameToId, atomics, adds>>
ResolveInsert(g) ==
    /\ guest[g].pc = "insert"
    /\ nameToId' = [nameToId EXCEPT ![guest[g].name[1]] = <<[type |-> guest[g].type, id |-> guest[g].id]>>]
    /\ Set(g, [guest[g] EXCEPT !.pc = "ready"])
    /\ UNCHANGED <<nextId, atomics, adds>>

-----------------------------------------------------------------------------
\* The atomic operations of ext_shared_u64_* and ext_shared_i64_*: the new value of the cell.
LargerOf(a, b) == IF a < b THEN b ELSE a
SmallerOf(a, b) == IF a < b THEN a ELSE b
Positions == 0..Width - 1
Bits(n) == {k \in Positions : (n \div 2 ^ k) % 2 = 1}
OfBits(S) == CHOOSE n \in 0..Word - 1 : Bits(n) = S
AtomicU64(op, cur, val) ==
    CASE op = "add" -> Wrap("u64", cur + val)
      [] op = "sub" -> Wrap("u64", cur - val)
      [] op = "and" -> OfBits(Bits(cur) \cap Bits(val))
      [] op = "nand" -> OfBits(Positions \ (Bits(cur) \cap Bits(val)))
      [] op = "or" -> OfBits(Bits(cur) \cup Bits(val))
      [] op = "xor" -> OfBits((Bits(cur) \ Bits(val)) \cup (Bits(val) \ Bits(cur)))
      [] op = "max" -> LargerOf(cur, val)
      [] op = "min" -> SmallerOf(cur, val)
      [] op \in {"store", "swap"} -> val
      [] OTHER -> cur
AtomicI64(op, cur, val) ==
    CASE op \in {"max", "min", "store", "swap", "load"} -> (CASE op = "max" -> LargerOf(cur, val) [] op = "min" -> SmallerOf(cur, val)
                                                             [] op = "load" -> cur [] OTHER -> val)
      [] OTHER -> Wrap("i64", AtomicU64(op, Unsigned(cur), Unsigned(val)))
Atomic(type, op, cur, val) == IF type = "u64" THEN AtomicU64(op, cur, val) ELSE AtomicI64(op, cur, val)
\* Mutant: the exchange stores without comparing.
CompareExchangeBlindly(cell, current, new) == [cell EXCEPT !.value = new]
CompareExchange(cell, current, new) == IF cell.value = current THEN [cell EXCEPT !.value = new] ELSE cell

Mine(g) == atomics[guest[g].type][guest[g].id]
Store(g, cell) == atomics' = [atomics EXCEPT ![guest[g].type][guest[g].id] = cell]
Counted(g) == adds' = [adds EXCEPT ![guest[g].type][guest[g].id] = @ + 1]
Again(g) == [guest[g] EXCEPT !.pc = "ready", !.left = @ - 1]

\* fetch_add(1), or fetch_sub(-1) of a signed variable: one operation.
FetchAdd(g) ==
    /\ guest[g].pc = "ready" /\ guest[g].type # "blob" /\ guest[g].left > 0
    /\ \E op \in {"add", "sub"} :
          Store(g, [Mine(g) EXCEPT !.value = Atomic(guest[g].type, op, @, IF op = "add" THEN 1 ELSE Wrap(guest[g].type, -1))])
    /\ Counted(g) /\ Set(g, Again(g))
    /\ UNCHANGED <<nameToId, nextId>>
\* fetch_update of the SDK: load, then exchange until nobody came between.
Load(g) ==
    /\ guest[g].pc = "ready" /\ guest[g].type # "blob" /\ guest[g].left > 0
    /\ Set(g, [guest[g] EXCEPT !.pc = "exchange", !.seen = Mine(g).value])
    /\ UNCHANGED <<nameToId, nextId, atomics, adds>>
Exchange(g) ==
    /\ guest[g].pc = "exchange"
    /\ LET prev == Mine(g).value  ok == prev = guest[g].seen
       IN /\ Store(g, CompareExchange(Mine(g), guest[g].seen, Wrap(guest[g].type, guest[g].seen + 1)))
          /\ Set(g, IF ok THEN Again(g) ELSE [guest[g] EXCEPT !.seen = prev])
          /\ IF ok THEN Counted(g) ELSE UNCHANGED adds
    /\ UNCHANGED <<nameToId, nextId>>

-----------------------------------------------------------------------------
\* Blobs: SharedBlob::read asks again with a larger buffer while the data does not fit, and may
\* meet a newer version each time; compare_and_swap writes when the version is the expected one.
BlobRead(g) ==
    /\ guest[g].pc = "ready" /\ guest[g].type = "blob" /\ guest[g].left > 0
    /\ Set(g, IF Mine(g).value <= guest[g].cap
              THEN [guest[g] EXCEPT !.pc = "swap", !.seen = Mine(g).value, !.version = Mine(g).version, !.cap = 0]
              ELSE [guest[g] EXCEPT !.cap = Mine(g).value])
    /\ UNCHANGED <<nameToId, nextId, atomics, adds>>
BlobWrite(cell, value) == [value |-> value, version |-> cell.version + 1]
BlobCas(g) ==
    /\ guest[g].pc = "swap"
    /\ LET ok == Mine(g).version = guest[g].version
       IN /\ Store(g, IF ok THEN BlobWrite(Mine(g), guest[g].seen + 1) ELSE Mine(g))
          /\ Set(g, IF ok THEN Again(g) ELSE [guest[g] EXCEPT !.pc = "ready"])
          /\ IF ok THEN Counted(g) ELSE UNCHANGED adds
    /\ UNCHANGED <<nameToId, nextId>>

SharedStep(g) ==
    ResolveLookup(g) \/ ResolveAllocate(g) \/ ResolveInsert(g) \/ FetchAdd(g) \/ Load(g) \/ Exchange(g) \/ BlobRead(g) \/ BlobCas(g)
SharedNext == \E g \in Guests : SharedStep(g)
sharedVars == <<nameToId, nextId, atomics, guest, adds>>
SharedSpec == SharedInit /\ [][SharedNext]_sharedVars /\ \A g \in Guests : WF_sharedVars(SharedStep(g))

-----------------------------------------------------------------------------
\* No increment of a variable is lost, whichever way the guests increment it and however their
\* reads and exchanges interleave (fetch_update and compare_and_swap of the SDK).
CountsKept ==
    \A y \in Types, i \in 0..Capacity - 1 :
       atomics[y][i].value = IF y = "blob" THEN adds[y][i] ELSE Wrap(y, adds[y][i])

\* arion-wasm-sdk/README.md:514: a name resolves to the variable of that name. Two guests that
\* resolve a new name at once get two (hostcalls.rs:1690-1725).
OneVariablePerName ==
    \A g, h \in Guests :
       guest[g].pc \in {"ready", "exchange", "swap"} /\ guest[h].pc \in {"ready", "exchange", "swap"}
         /\ guest[g].name = guest[h].name => guest[g].id = guest[h].id
=============================================================================
