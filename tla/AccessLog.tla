----------------------------- MODULE AccessLog ------------------------------
(***************************************************************************)
(* The access log: the format strings (arion-format), the contexts that    *)
(* fill a line while a request of the HTTP connection manager runs, and    *)
(* the logger tasks the lines go to (access_log.rs).  A format is a        *)
(* sequence of tokens: a character, the escape %%, or an operator.  An     *)
(* operator stands for all those the same context evaluates.               *)
(***************************************************************************)
EXTENDS Integers, Sequences, FiniteSets, SequencesExt

CONSTANTS
    LogThreads,        \* worker threads, numbered from 1
    Loggers,        \* logger instances, numbered from 1
    QueueLength,    \* queue_length
    BatchCapacity,  \* RECEIVER_BATCH_CAPACITY
    MaxLines,       \* lines a thread logs (bound)
    MaxFormat       \* tokens of a format (bound)

ASSUME AccessLogAssumption ==
    /\ QueueLength \in Nat \ {0} /\ BatchCapacity \in Nat \ {0}
    /\ MaxLines \in Nat /\ MaxFormat \in Nat
    /\ IsFiniteSet(LogThreads) /\ LogThreads = 1 .. Cardinality(LogThreads)
    /\ IsFiniteSet(Loggers) /\ Loggers = 1 .. Cardinality(Loggers) /\ Loggers # {}

VARIABLES
    logEntry,          \* the line of one transaction, and the format it comes from
    entryPool,           \* SENDER_POOL: off, or its blocking flag
    listener,       \* sinks of the listener the runtimes serve
    spread,         \* update_configuration calls: by the start-up task, by the xDS handler
    held,           \* thread -> formatters its request was started with
    count,          \* thread -> lines logged
    lineQueue,          \* logger -> its channel
    batch,          \* logger -> messages received and not yet handled
    writers,        \* logger -> sinks of the target
    sinks,          \* what was written, by sink
    dropped         \* lines refused by a full channel

deliveryVars == <<entryPool, listener, spread, held, count, lineQueue, batch, writers, sinks, dropped>>
accessLogVars == <<logEntry, entryPool, listener, spread, held, count, lineQueue, batch, writers, sinks, dropped>>

NoLine == [stage |-> "none"]
UnsetField == <<"unset">>
StaticSinks == <<"file", "stdout">>
Stdout == 0         \* in sinks; the others are the files of the loggers

AccessLogInit ==
    /\ logEntry = NoLine
    /\ entryPool = "off" /\ listener = UnsetField
    /\ spread = [k \in {"boot", "xds"} |-> UnsetField]
    /\ held = [t \in LogThreads |-> UnsetField] /\ count = [t \in LogThreads |-> 0]
    /\ lineQueue = [i \in Loggers |-> <<>>] /\ batch = [i \in Loggers |-> <<>>]
    /\ writers = [i \in Loggers |-> UnsetField]
    /\ sinks = [f \in {Stdout} \union Loggers |-> <<>>]
    /\ dropped = {}

-----------------------------------------------------------------------------
(* AccessLogGrammar::parse.                                                *)
Operators == {"REQ", "CLUSTER", "UNIQUE_ID", "RESP", "DURATION", "WIRE_BYTES", "custom"}
Broken == {"unknown", "unclosed", "unsupported"}
FormatTokens == {"char", "%%"} \union Operators \union Broken

LiteralOf(text) == [kind |-> "literal", text |-> text]
OperatorOf(op) == [kind |-> "operator", op |-> op]
ThenLiteral(parts, text) == IF text = <<>> THEN parts ELSE Append(parts, LiteralOf(text))

(* Mutant: the literal starts where the last one did.                      *)
TakeOperatorAgain(st, op) ==
    [st EXCEPT !.parts = Append(ThenLiteral(st.parts, st.text), OperatorOf(op))]

(* An operator ends the literal before it, which is taken as it is         *)
(* written, %% included.                                                   *)
TakeOperator(st, op) ==
    [st EXCEPT !.parts = Append(ThenLiteral(st.parts, st.text), OperatorOf(op)), !.text = <<>>]

ParseToken(st, token) ==
    CASE token \in Operators -> TakeOperator(st, token)
      [] token \in Broken -> [st EXCEPT !.error = TRUE]
      [] OTHER -> [st EXCEPT !.text = Append(@, token)]

(* The parser before, along and after the tokens of a format.              *)
Parsing(format) ==
    LET after[i \in 0 .. Len(format)] ==
            IF i = 0 THEN [parts |-> <<>>, text |-> <<>>, error |-> FALSE]
            ELSE ParseToken(after[i - 1], format[i])
    IN after

(* Only in the last literal is %% replaced by %.                           *)
Unescape(x) == IF x = "%%" THEN "%" ELSE x

Parse(format) ==
    LET st == Parsing(format)[Len(format)]
        last == [i \in DOMAIN st.text |-> Unescape(st.text[i])]
    IN IF st.error THEN [parts |-> <<>>, error |-> TRUE]
       ELSE [parts |-> ThenLiteral(st.parts, last), error |-> FALSE]

(* LogFormatter::try_new: every operator without a value.                  *)
NewFormatter(format) ==
    LET p == Parse(format)
    IN [ stage |-> IF p.error THEN "refused" ELSE "init", format |-> format, parts |-> p.parts,
         slots |-> [i \in DOMAIN p.parts |-> IF p.parts[i].kind = "literal" THEN "text" ELSE "-"],
         routed |-> FALSE, first |-> "-" ]

-----------------------------------------------------------------------------
(* Mutant: a later context takes the place of an earlier value.            *)
FillAgain(e, known, value) ==
    [e EXCEPT !.slots = [i \in DOMAIN e.slots |->
        IF e.parts[i].kind = "operator" /\ e.parts[i].op \in known THEN value ELSE e.slots[i]]]

(* with_context, with_value, with_custom_value: operators without a value  *)
(* get the one the context has for them.                                   *)
Fill(e, known, value) ==
    [e EXCEPT !.slots = [i \in DOMAIN e.slots |->
        IF e.parts[i].kind = "operator" /\ e.slots[i] = "-" /\ e.parts[i].op \in known
        THEN value ELSE e.slots[i]]]

(* The hooks: a header that is there and is base64 of JSON fills custom    *)
(* operators and no other.                                                 *)
Hook(e, where, valid) ==
    IF valid THEN [Fill(e, {"custom"}, where) EXCEPT !.first = IF @ = "-" THEN where ELSE @] ELSE e

(* What each context evaluates.                                            *)
DownstreamOperators == {"REQ"}
UpstreamOperators == {"CLUSTER"}
UpstreamRequestOperators == {"UNIQUE_ID"}
ResponseOperators == {"RESP"}
FinishOperators == {"DURATION"}
WireOperators == {"WIRE_BYTES"}

(* eval_http_init_context and the IncomingRequest hook.                    *)
InitHttpContext(e, valid) == [Hook(Fill(e, DownstreamOperators, "init"), "request", valid) EXCEPT !.stage = "route"]

(* A redirect or direct response has no cluster; a request sent upstream   *)
(* has one, and a new unique id.                                           *)
UpstreamContext(e, routed) ==
    [ (IF routed THEN Fill(Fill(e, UpstreamOperators, "upstream"), UpstreamRequestOperators, "new") ELSE e)
      EXCEPT !.stage = "response", !.routed = routed ]

DownstreamResponseContext(e, valid) ==
    [Fill(Hook(e, "response", valid), ResponseOperators, "response") EXCEPT !.stage = "finish"]

(* eval_http_finish_context: FinishContext, then WireContext.              *)
FinishContext(e) ==
    [Fill(Fill(e, FinishOperators, "finish"), WireOperators, "wire") EXCEPT !.stage = "logged"]

FillLine ==
    /\ entryPool = "off" /\ listener = UnsetField
    /\ \/ /\ logEntry = NoLine
          /\ \E n \in 0 .. MaxFormat : \E format \in [1 .. n -> FormatTokens] : logEntry' = NewFormatter(format)
       \/ logEntry.stage = "init" /\ \E valid \in BOOLEAN : logEntry' = InitHttpContext(logEntry, valid)
       \/ logEntry.stage = "route" /\ \E routed \in BOOLEAN : logEntry' = UpstreamContext(logEntry, routed)
       \/ logEntry.stage = "response" /\ \E valid \in BOOLEAN : logEntry' = DownstreamResponseContext(logEntry, valid)
       \/ logEntry.stage = "finish" /\ logEntry' = FinishContext(logEntry)
    /\ UNCHANGED deliveryVars

-----------------------------------------------------------------------------
(* The start-up task: start_access_loggers, then update_configuration for  *)
(* the static listeners; another task pushes the listeners.                *)
StartLoggers(blocking) ==
    /\ entryPool = "off"
    /\ entryPool' = IF blocking THEN "blocking" ELSE "lossy"
    /\ spread' = [spread EXCEPT !["boot"] = <<StaticSinks, 1>>]
    /\ UNCHANGED <<logEntry, listener, held, count, lineQueue, batch, writers, sinks, dropped>>

PushListener ==
    /\ listener = UnsetField
    /\ listener' = StaticSinks
    /\ UNCHANGED <<logEntry, entryPool, spread, held, count, lineQueue, batch, writers, sinks, dropped>>

(* An xDS update or removal (one, a bound): the runtimes are told first.   *)
UpdateListener(s) ==
    /\ listener = StaticSinks
    /\ entryPool # "off"
    /\ listener' = s
    /\ spread' = [spread EXCEPT !["xds"] = <<s, 1>>]
    /\ UNCHANGED <<logEntry, entryPool, held, count, lineQueue, batch, writers, sinks, dropped>>

(* update_configuration: one logger after the other, waiting for room.     *)
Broadcast(task) ==
    /\ spread[task] # UnsetField
    /\ LET conf == spread[task][1]
           i == spread[task][2]
       IN /\ Len(lineQueue[i]) < QueueLength
          /\ lineQueue' = [lineQueue EXCEPT ![i] = Append(@, [what |-> "configure", conf |-> conf])]
          /\ spread' = [spread EXCEPT ![task] = IF i + 1 \in Loggers THEN <<conf, i + 1>> ELSE UnsetField]
    /\ UNCHANGED <<logEntry, entryPool, listener, held, count, batch, writers, sinks, dropped>>

(* A request starts with a copy of the listener's formatters.              *)
BeginLine(t) ==
    /\ held[t] = UnsetField /\ count[t] < MaxLines
    /\ listener \notin {UnsetField, <<>>}
    /\ held' = [held EXCEPT ![t] = listener]
    /\ UNCHANGED <<logEntry, entryPool, listener, spread, count, lineQueue, batch, writers, sinks, dropped>>

(* Mutant: lines go to the loggers in turn.                                *)
SenderOfInTurn(t, n) == 1 + ((t + n) % Cardinality(Loggers))

(* LoggerPool::get: the logger of the thread.                              *)
SenderOf(t, n) == 1 + (t % Cardinality(Loggers))

(* blocking_log_access: a full channel is waited for, or the line dropped. *)
LogAccess(t) ==
    LET n == count[t] + 1
        i == SenderOf(t, n)
        line == [what |-> "line", thread |-> t, n |-> n, conf |-> held[t]]
    IN /\ held[t] # UnsetField
       /\ \/ entryPool = "off" /\ UNCHANGED <<lineQueue, dropped>>
          \/ entryPool # "off" /\ Len(lineQueue[i]) < QueueLength
             /\ lineQueue' = [lineQueue EXCEPT ![i] = Append(@, line)] /\ UNCHANGED dropped
          \/ entryPool = "lossy" /\ Len(lineQueue[i]) = QueueLength
             /\ dropped' = dropped \union {<<t, n>>} /\ UNCHANGED lineQueue
       /\ count' = [count EXCEPT ![t] = n]
       /\ held' = [held EXCEPT ![t] = UnsetField]
       /\ UNCHANGED <<logEntry, entryPool, listener, spread, batch, writers, sinks>>

(* Mutant: what is past the batch is forgotten.                            *)
RemainderForgotten(q) == <<>>

(* try_recv until the batch is full.                                       *)
Remainder(q) == SubSeq(q, BatchCapacity + 1, Len(q))

ReceiveBatch(i) ==
    /\ batch[i] = <<>> /\ lineQueue[i] # <<>>
    /\ batch' = [batch EXCEPT ![i] = SubSeq(lineQueue[i], 1, IF Len(lineQueue[i]) < BatchCapacity THEN Len(lineQueue[i]) ELSE BatchCapacity)]
    /\ lineQueue' = [lineQueue EXCEPT ![i] = Remainder(@)]
    /\ UNCHANGED <<logEntry, entryPool, listener, spread, held, count, writers, sinks, dropped>>

(* The file of logger i has its number in its name; stdout is shared.      *)
FileOf(i, sink) == IF sink = "file" THEN i ELSE Stdout

(* The messages of a line and the writers are taken in pairs (zip).        *)
Written(i, line) ==
    [f \in DOMAIN sinks |->
        IF writers[i] # UnsetField /\ \E k \in DOMAIN writers[i] : k \in DOMAIN line.conf /\ FileOf(i, writers[i][k]) = f
        THEN Append(sinks[f], <<line.thread, line.n>>) ELSE sinks[f]]

(* AccessLogger::run: a configuration that differs opens new writers; a    *)
(* line of a target without any is lost.                                   *)
HandleMessage(i) ==
    /\ batch[i] # <<>>
    /\ LET m == Head(batch[i])
       IN \/ m.what = "configure" /\ writers' = [writers EXCEPT ![i] = m.conf] /\ UNCHANGED sinks
          \/ m.what = "line" /\ sinks' = Written(i, m) /\ UNCHANGED writers
    /\ batch' = [batch EXCEPT ![i] = Tail(@)]
    /\ UNCHANGED <<logEntry, entryPool, listener, spread, held, count, lineQueue, dropped>>

DeliverLines ==
    /\ logEntry = NoLine
    /\ \/ \E b \in BOOLEAN : StartLoggers(b)
       \/ PushListener
       \/ \E s \in {<<"stdout">>, <<>>} : UpdateListener(s)
       \/ \E k \in {"boot", "xds"} : Broadcast(k)
       \/ \E t \in LogThreads : BeginLine(t) \/ LogAccess(t)
       \/ \E i \in Loggers : ReceiveBatch(i) \/ HandleMessage(i)

AccessLogNext == FillLine \/ DeliverLines

AccessLogSpec == AccessLogInit /\ [][AccessLogNext]_accessLogVars

-----------------------------------------------------------------------------
(* The tokens that parts come from, but for the escape of %.               *)
TokensOf(part) == IF part.kind = "operator" THEN <<part.op>> ELSE part.text
SourceOf(parts) == FlattenSeq([i \in DOMAIN parts |-> TokensOf(parts[i])])
Escape(x) == IF x = "%" THEN "%%" ELSE x

(* The parts of a format are its tokens, in order and none twice.          *)
FormatKept ==
    logEntry.stage \notin {"none", "refused"} =>
        LET text == SourceOf(logEntry.parts)
        IN [i \in DOMAIN text |-> Escape(text[i])] = logEntry.format

(* A logged line has a value for every operator its request had one for:   *)
(* the cluster and id if it was routed, the custom value of the first hook *)
(* that found one, and the rest always; a payload fills no other operator. *)
LineComplete ==
    logEntry.stage = "logged" =>
        \A i \in DOMAIN logEntry.parts : logEntry.parts[i].kind = "operator" =>
            LET op == logEntry.parts[i].op
            IN CASE op = "custom" -> logEntry.slots[i] = logEntry.first
                 [] op \in {"CLUSTER", "UNIQUE_ID"} -> (logEntry.slots[i] # "-") = logEntry.routed
                 [] OTHER -> logEntry.slots[i] \notin {"-", "request"}

(* The lines of a thread are in every sink in the order they were logged   *)
(* in, none twice, whichever loggers share the sink.                       *)
LinesInOrder ==
    \A f \in DOMAIN sinks : \A j, k \in DOMAIN sinks[f] :
        j < k /\ sinks[f][j][1] = sinks[f][k][1] => sinks[f][j][2] < sinks[f][k][2]

(* With loggers configured and a listener that does not change, a line     *)
(* that was queued is written when the loggers are idle: lines are lost    *)
(* only before the configuration arrives or to a full channel.             *)
QueuedIsWritten ==
    LET last == {t \in LogThreads : count[t] > 0}
        Idle(i) == lineQueue[i] = <<>> /\ batch[i] = <<>>
    IN listener = StaticSinks /\ spread = [k \in {"boot", "xds"} |-> UnsetField] /\ (\A i \in Loggers : Idle(i)) /\ entryPool # "off" =>
        \A t \in last : \A n \in 1 .. count[t] :
            (\E m \in 1 .. n - 1 : Contains(sinks[Stdout], <<t, m>>)) =>
                <<t, n>> \in dropped \/ Contains(sinks[Stdout], <<t, n>>)

(* A line is complete when it is logged, and gets to its sinks in order.   *)
LinesKept == FormatKept /\ LineComplete /\ LinesInOrder /\ QueuedIsWritten

(* access-log.md: without blocking a full channel drops the oldest line.   *)
NewestKept == \A t \in LogThreads : <<t, count[t]>> \notin dropped
=============================================================================
