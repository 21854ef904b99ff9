------------------------- MODULE ExternalProcessing -------------------------
(***************************************************************************)
(* The external processing filter on one message, a request or a response  *)
(* (ext_proc.rs, ext_proc/processing.rs, body/channel_body.rs). The filter *)
(* hands headers and body to a worker task and waits for a status; the     *)
(* worker talks to the processor over one gRPC stream, reads the body      *)
(* through a frame bridge, and injects frames into the body that goes on.  *)
(*                                                                         *)
(* A data frame is the sequence of the numbers of the chunks in it, 0 for  *)
(* one the processor wrote. Requests and responses share their code        *)
(* (Processing<M, Msg>); the side that is not being processed has no reply *)
(* to give and a closed bridge. The consumer always reads.                 *)
(***************************************************************************)
EXTENDS Integers, Sequences, SequencesExt

CONSTANTS
    MaxFrames,      \* data frames of a body
    MergeLimit      \* frame_merge_limit

ASSUME ExtProcAssumption == MaxFrames \in Nat /\ MergeLimit \in Nat \ {0}

VARIABLE ext        \* the filter, its worker, the bridge and the stream

DataFrame(chunks) == [data |-> TRUE, chunks |-> chunks]
Trailers == [data |-> FALSE, chunks |-> <<>>]
Replacement == DataFrame(<<0>>)
EmptyFrame == DataFrame(<<>>)
Chunks(frames) == FlattenSeq([i \in DOMAIN frames |-> frames[i].chunks])

\* OverridableModes and the options of ExternalProcessingWorkerConfig. BufferedPartial is treated
\* as Buffered, FullDuplexStreamed as Streamed.
Modes == [headers : BOOLEAN, body : {"None", "Streamed", "Buffered"}, trailers : BOOLEAN]
Options == [allow : BOOLEAN, noImmediate : BOOLEAN, early : BOOLEAN, observe : BOOLEAN]
Sources == {[i \in 1..n |-> DataFrame(<<i>>)] \o t : n \in 0..MaxFrames, t \in {<<>>, <<Trailers>>}}

Fresh == [task |-> "idle", side |-> "request", decision |-> "", ready |-> {}, modes |-> [headers |-> FALSE, body |-> "None", trailers |-> FALSE],
          options |-> [allow |-> FALSE, noImmediate |-> FALSE, early |-> FALSE, observe |-> FALSE],
          original |-> <<>>, source |-> <<>>, known |-> [body |-> "no", trailers |-> "no", any |-> FALSE],
          open |-> FALSE, out |-> <<>>, broken |-> FALSE, run |-> FALSE, connected |-> FALSE, awaiting |-> <<>>,
          data |-> <<>>, trailers |-> FALSE, count |-> 0, inflight |-> <<>>, parked |-> FALSE, saved |-> FALSE,
          streaming |-> FALSE, eos |-> FALSE, complete |-> FALSE, timer |-> FALSE, extended |-> FALSE,
          touched |-> FALSE, failed |-> ""]
ExtProcInit == ext = Fresh

Go(w) == ext' = w

-----------------------------------------------------------------------------
\* return_status: the filter decides. A ready status may ask for another route, or carry header
\* mutations the rules forbid; ready holds what a headers response asked for and has not been told.
OnFilterError(w) == IF w.options.allow THEN "Continue" ELSE "DirectResponse"
ApplyModification(w, ready) ==
    CASE "forbidden" \in ready -> OnFilterError(w)
      [] "forbidden" \notin ready /\ "clearRoute" \in ready -> "Reroute"
      [] OTHER -> "Continue"
Return(w, decision) == IF w.task = "waiting" THEN [w EXCEPT !.task = "decided", !.decision = decision] ELSE w
Ready(w) == [Return(w, ApplyModification(w, w.ready)) EXCEPT !.ready = {}]
StatusError(w) == Return(w, OnFilterError(w))

\* FrameBridge. Injecting into a closed bridge is ignored.
Inject(w, frames) == IF w.open THEN [w EXCEPT !.out = @ \o frames] ELSE w
DrainAndInject(w) == IF w.open THEN [w EXCEPT !.out = @ \o w.source, !.source = <<>>] ELSE w
Close(w) == [w EXCEPT !.open = FALSE, !.timer = FALSE]
DrainAndClose(w, frames) ==
    LET trailers == IF w.parked THEN <<Trailers>> ELSE <<>>
    IN [Close(Inject(DrainAndInject(Inject(w, frames)), trailers)) EXCEPT !.parked = FALSE]

\* The worker ends: a reply still owed is a closed channel to the filter, and dropping an open
\* bridge spawns a task that passes on what is left of the body.
EndLoop(w) == [StatusError(DrainAndInject(w)) EXCEPT !.open = FALSE, !.run = FALSE, !.timer = FALSE]

SetStreamingBody(w, on) == [w EXCEPT !.streaming = on, !.eos = IF on THEN @ ELSE TRUE]
TryEnableStreamingBody(w) == IF w.known.any THEN [w EXCEPT !.streaming = TRUE] ELSE [w EXCEPT !.open = FALSE]
ShouldProcessBody(w) == w.modes.body # "None"

\* forward_to_external_processor: an unresolved cluster makes a status nobody sends; a lost stream
\* answers the filter.
\* Mutant: the timer is armed for the headers only.
ForwardTimesHeaders(w, messages, outcome) ==
    CASE outcome = "unresolved" -> [w EXCEPT !.failed = "unresolved"]
      [] outcome = "lost" -> [StatusError(w) EXCEPT !.timer = FALSE, !.failed = "lost"]
      [] OTHER -> [w EXCEPT !.connected = TRUE, !.awaiting = IF w.options.observe THEN <<>> ELSE @ \o messages,
                            !.timer = messages = <<"headers">>]
Forward(w, messages, outcome) ==
    CASE outcome = "unresolved" -> [w EXCEPT !.failed = "unresolved"]
      [] outcome = "lost" -> [StatusError(w) EXCEPT !.timer = FALSE, !.failed = "lost"]
      [] OTHER -> [w EXCEPT !.connected = TRUE, !.awaiting = IF w.options.observe THEN <<>> ELSE @ \o messages,
                            !.timer = ~w.options.observe]
ExtOutcomes(w) == {"sent", IF w.connected THEN "lost" ELSE "unresolved"}

-----------------------------------------------------------------------------
\* prepare_processing_data: a buffered body is collected, within a limit, before anything is sent.
BodyType(source) ==
    [body |-> IF \E f \in Range(source) : f.data THEN "yes" ELSE "no",
     trailers |-> IF Trailers \in Range(source) THEN "yes" ELSE "no", any |-> source # <<>>]
Collect(source) ==
    (IF \E f \in Range(source) : f.data THEN <<DataFrame(Chunks(source))>> ELSE <<>>)
      \o (IF Trailers \in Range(source) THEN <<Trailers>> ELSE <<>>)
Unknown(source) == IF source = <<>> THEN BodyType(source) ELSE [body |-> "unknown", trailers |-> "unknown", any |-> TRUE]

\* process_headers, process_body_and_trailers.
WillEnd(w) ==
    /\ ~(ShouldProcessBody(w) /\ w.known.body # "no")
    /\ ~(w.modes.trailers /\ w.known.trailers # "no")
ProcessHeaders(w, outcome) ==
    LET ended == [w EXCEPT !.eos = WillEnd(w)]
    IN Forward([ended EXCEPT !.streaming = w.options.observe \/ (w.options.early /\ ~ended.eos)], <<"headers">>, outcome)
ProcessBodyAndTrailers(w) ==
    LET v == TryEnableStreamingBody(w)
    IN IF ~w.options.observe /\ w.modes.body = "Buffered" /\ w.known.body = "yes" THEN v ELSE Ready(v)
Process(w, outcome) ==
    CASE w.modes.headers -> ProcessHeaders(w, outcome)
      [] ~w.modes.headers /\ w.known.any /\ (ShouldProcessBody(w) \/ w.modes.trailers) -> ProcessBodyAndTrailers(w)
      [] OTHER -> [DrainAndInject(Ready(w)) EXCEPT !.open = FALSE]

\* apply_request_prepare_processing_data: what the filter goes on with, decided already or given to
\* the worker. The body has been taken when collecting it fails.
PrepareRequest(m, o, s) ==
    LET begun == [Fresh EXCEPT !.task = "waiting", !.modes = m, !.options = o, !.original = s]
        worker == [begun EXCEPT !.run = TRUE, !.open = TRUE,
                       !.source = IF m.body = "Buffered" THEN Collect(s) ELSE s,
                       !.known = IF m.body = "Buffered" THEN BodyType(s) ELSE Unknown(s)]
    IN IF ~m.headers /\ m.body = "None" /\ ~m.trailers
       THEN {[Ready(begun) EXCEPT !.out = s]}
       ELSE {worker} \cup {[StatusError(begun) EXCEPT !.failed = "body"] : x \in {x \in {s} : m.body = "Buffered" /\ s # <<>>}}
PrepareResponse(m, o, s) == {[w EXCEPT !.side = "response"] : w \in PrepareRequest(m, o, s)}

\* send_processing_data: the worker takes what was prepared.
SendProcessingData(prepared) ==
    \E w \in prepared :
       IF w.run THEN \E r \in ExtOutcomes(w) : Go(Process(w, r)) ELSE Go(w)
ApplyToRequest ==
    /\ ext.task = "idle"
    /\ \E m \in Modes, o \in Options, s \in Sources : SendProcessingData(PrepareRequest(m, o, s))
ApplyToResponse ==
    /\ ext.task = "idle"
    /\ \E m \in Modes, o \in Options, s \in Sources : SendProcessingData(PrepareResponse(m, o, s))

-----------------------------------------------------------------------------
\* The worker reads the body: FramesBuffer::push, which merges frames until MergeLimit, until the
\* merge window has passed, or to the end of a buffered body.
Outbound == ext.run /\ ext.streaming /\ ~ext.complete
Buffered(w) == w.modes.body = "Buffered"
Merged(w, f) == IF w.data = <<>> THEN <<f>> ELSE <<DataFrame(w.data[1].chunks \o f.chunks)>>
Push(w, f, late) ==
    IF f.data
    THEN LET count == IF w.data = <<>> THEN 1 ELSE w.count + 1
             emit == ~Buffered(w) /\ (count >= MergeLimit \/ late)
         IN [emitted |-> IF emit THEN Merged(w, f) ELSE <<>>,
             w |-> [w EXCEPT !.data = IF emit THEN <<>> ELSE Merged(w, f), !.count = IF emit THEN 0 ELSE count]]
    ELSE [emitted |-> IF Buffered(w) THEN <<>> ELSE w.data,
          w |-> [w EXCEPT !.data = IF Buffered(w) THEN @ ELSE <<>>, !.count = 0, !.trailers = TRUE]]

\* An emitted frame goes to the processor, with a copy kept until it answers; with body processing
\* off, or observed, it goes straight on.
Observe(w, frames, outcome) == Inject(Ready(IF ShouldProcessBody(w) THEN Forward(w, <<>>, outcome) ELSE w), frames)
Emit(w, frames, outcome) ==
    IF frames = <<>> THEN w
    ELSE IF w.options.observe THEN Observe(w, frames, outcome)
    ELSE IF ~ShouldProcessBody(w) THEN Inject(Ready(w), frames)
    ELSE [Forward(w, <<"body">>, outcome) EXCEPT !.inflight = @ \o frames]

NextFrame ==
    /\ Outbound
    /\ ext.source # <<>>
    /\ \E late \in BOOLEAN, r \in ExtOutcomes(ext) :
          LET p == Push([ext EXCEPT !.source = Tail(@)], Head(ext.source), late) IN Go(Emit(p.w, p.emitted, r))

\* A body that breaks: reading stops, and nobody is told. (failed is what first went wrong.)
SourceFails ==
    /\ Outbound /\ ~Buffered(ext) /\ ext.source # <<>>
    /\ Go([ext EXCEPT !.complete = TRUE, !.source = <<>>, !.failed = IF @ = "" THEN "body" ELSE @])

\* buffer_end_of_stream: an empty chunk carries the end when nothing is buffered.
BufferEndOfStream(w) ==
    IF ~ShouldProcessBody(w) \/ w.eos THEN w
    ELSE LET v == IF w.modes.trailers THEN w ELSE [w EXCEPT !.parked = @ \/ w.trailers, !.trailers = FALSE]
         IN IF v.data = <<>> /\ ~v.trailers THEN [v EXCEPT !.data = <<EmptyFrame>>] ELSE v

\* The last data frame, then the trailers: sent, or passed on, or parked behind the body.
FlushData(w, outcome) == [Emit(w, w.data, outcome) EXCEPT !.data = <<>>, !.count = 0]
FlushTrailers(w, outcome) ==
    IF ~w.trailers THEN w
    ELSE IF w.options.observe THEN [Inject(w, <<Trailers>>) EXCEPT !.trailers = FALSE]
    ELSE IF w.modes.trailers THEN
            [Forward(w, <<"trailers">>, outcome) EXCEPT !.inflight = Append(@, Trailers), !.saved = TRUE, !.trailers = FALSE]
    ELSE [w EXCEPT !.parked = TRUE, !.trailers = FALSE]
SourceEnds ==
    /\ Outbound
    /\ ext.source = <<>>
    /\ \E r \in ExtOutcomes(ext) :
          LET v == FlushTrailers(FlushData(BufferEndOfStream([ext EXCEPT !.complete = TRUE]), r), r)
              done == v.options.observe \/ v.inflight = <<>>
          IN Go(SetStreamingBody(IF done THEN DrainAndClose(Ready(v), <<>>) ELSE v, FALSE))

RequestBody == ext.side = "request" /\ (NextFrame \/ SourceFails \/ SourceEnds)
ResponseBody == ext.side = "response" /\ (NextFrame \/ SourceFails \/ SourceEnds)

\* An observed body that broke leaves the loop.
ObserverStops == ext.run /\ ext.options.observe /\ ext.streaming /\ ext.complete /\ Go(EndLoop(ext))

-----------------------------------------------------------------------------
\* The processor answers the oldest message it owes an answer to. mutation: "none", "replace" a
\* chunk, or CONTINUE_AND_REPLACE the message.
Inbound == ext.run /\ ext.connected /\ ~ext.options.observe
AnsweredByProcessor(w) == [w EXCEPT !.awaiting = Tail(@)]
\* Asks of the last status: a response's body response clears no route.
Asks == {{}, {"clearRoute"}, {"forbidden"}}
Touch(w, mutation) == [w EXCEPT !.touched = @ \/ mutation # "none"]

\* A buffered body delays the status until its body response. With CONTINUE_AND_REPLACE the new
\* body is all there is.
HandleHeadersResponse(w, mutation) ==
    LET replaced == SetStreamingBody(Close(Inject(Ready(w), <<Replacement>>)), FALSE)
        through == SetStreamingBody(Close(DrainAndInject(Ready(w))), FALSE)
        answered == IF mutation = "continueAndReplace" THEN replaced
                    ELSE IF Buffered(w) /\ w.known.body = "yes" THEN TryEnableStreamingBody(w)
                    ELSE IF ~w.known.any \/ (~ShouldProcessBody(w) /\ ~w.modes.trailers) THEN through
                    ELSE TryEnableStreamingBody(Ready(w))
    IN [answered EXCEPT !.timer = FALSE]

\* A mode override replaces the modes of the phases to come (apply_mode_overrides). Bodies already
\* being streamed are left out of the choices: a processor overrides before it asks for the body.
ModeOverrides(w) == {w.modes} \cup (IF w.streaming \/ w.complete THEN {} ELSE {[w.modes EXCEPT !.body = b] : b \in {"None", "Streamed"}})

AnswerHeaders ==
    /\ Inbound /\ ext.awaiting # <<>> /\ Head(ext.awaiting) = "headers"
    /\ \E m \in {"none", "continueAndReplace"}, modes \in ModeOverrides(ext), asks \in Asks :
          LET change == IF modes = ext.modes THEN m ELSE "override"
          IN Go(HandleHeadersResponse(Touch(AnsweredByProcessor([ext EXCEPT !.modes = modes, !.ready = asks]), change), m))

\* handle_body_response: the chunk, or its replacement, goes on; the last one closes the bridge.
\* Mutant: the bridge is closed as soon as nothing is in flight.
HandleBodyResponseEager(w, mutation) ==
    LET frame == IF mutation = "none" /\ w.inflight # <<>> THEN <<Head(w.inflight)>> ELSE <<Replacement>>
        v == [Inject(Ready(w), frame) EXCEPT !.inflight = IF @ = <<>> THEN @ ELSE Tail(@)]
    IN IF v.inflight = <<>> THEN SetStreamingBody(DrainAndClose(v, <<>>), FALSE) ELSE v
HandleBodyResponse(w, mutation) ==
    LET frame == IF mutation = "none" /\ w.inflight # <<>> THEN <<Head(w.inflight)>>
                 ELSE IF mutation = "none" THEN <<>> ELSE <<Replacement>>
        v == [Inject(Ready(w), frame) EXCEPT !.inflight = IF @ = <<>> THEN @ ELSE Tail(@)]
    IN CASE mutation = "continueAndReplace" -> SetStreamingBody(Close(v), FALSE)
         [] mutation # "continueAndReplace" /\ v.eos /\ v.inflight = <<>> -> SetStreamingBody(DrainAndClose(v, <<>>), FALSE)
         [] OTHER -> v
AnswerBody ==
    /\ Inbound /\ ext.awaiting # <<>> /\ Head(ext.awaiting) = "body"
    /\ \E m \in {"none", "replace", "continueAndReplace"}, asks \in Asks :
          LET ready == IF ext.task # "waiting" THEN {}
                       ELSE ext.ready \cup (asks \ (IF ext.side = "response" THEN {"clearRoute"} ELSE {}))
          IN Go(HandleBodyResponse(Touch(AnsweredByProcessor([ext EXCEPT !.ready = ready]), m), m))

HandleTrailersResponse(w) ==
    IF w.saved THEN SetStreamingBody(Close(Inject(Ready([w EXCEPT !.saved = FALSE]), <<Trailers>>)), FALSE)
    ELSE SetStreamingBody(Close(StatusError(w)), FALSE)
AnswerTrailers ==
    /\ Inbound /\ ext.awaiting # <<>> /\ Head(ext.awaiting) = "trailers"
    /\ Go(HandleTrailersResponse(AnsweredByProcessor(ext)))

\* recover_or_failure: a timeout, the end of the stream, a gRPC error or a message of no known kind.
\* Frames still in the merge buffer are not among those passed on.
RecoverOrFailure(w, why) ==
    LET v == [StatusError(w) EXCEPT !.failed = why]
        passed == [DrainAndClose(v, w.inflight) EXCEPT !.inflight = <<>>]
        broken == [Close(v) EXCEPT !.broken = w.open]
    IN EndLoop(SetStreamingBody(IF w.options.allow THEN passed ELSE broken, FALSE))
ProcessorFails == Inbound /\ Go(RecoverOrFailure(ext, "stream"))
MessageTimeout == ext.run /\ ext.timer /\ Go(RecoverOrFailure(ext, "timeout"))

\* A second extension of the timeout ends the worker (handle_timeout_extension).
ExtendTimeout ==
    /\ Inbound
    /\ Go(IF ext.extended THEN [EndLoop(ext) EXCEPT !.failed = "extension"] ELSE [ext EXCEPT !.extended = TRUE])

\* An immediate response ends the message while a status is owed; later the body is cut short. On
\* either side it is the request's parked trailers that are taken: a response gets those of its
\* request, if that has any left, and loses its own.
ParkedByRequest(w) == IF w.side = "request" THEN {w.parked} ELSE BOOLEAN
ImmediateResponse(w, parked) ==
    CASE w.options.noImmediate /\ w.options.allow -> [DrainAndInject(Ready(w)) EXCEPT !.open = FALSE]
      [] w.options.noImmediate /\ ~w.options.allow -> [Return(w, "DirectResponse") EXCEPT !.broken = w.open]
      [] ~w.options.noImmediate /\ w.task = "waiting" ->
            [DrainAndClose([Return(w, "DirectResponse") EXCEPT !.parked = parked], w.inflight)
               EXCEPT !.inflight = <<>>, !.parked = w.parked /\ w.side = "response"]
      [] OTHER -> Close(w)
AnswerImmediately ==
    /\ Inbound
    /\ \E parked \in ParkedByRequest(ext) : Go([EndLoop(ImmediateResponse(ext, parked)) EXCEPT !.failed = "immediate"])

\* The transaction is over and the filter dropped: its channel ends the worker once it asks.
FilterDropped == ext.run /\ ext.task = "decided" /\ ~ext.streaming /\ Go([EndLoop(ext) EXCEPT !.failed = IF ext.open THEN "dropped" ELSE @])

Forget == ext.task = "decided" /\ ~ext.run /\ Go(Fresh)

ExtProcNext ==
    \/ ApplyToRequest \/ ApplyToResponse \/ RequestBody \/ ResponseBody \/ ObserverStops
    \/ AnswerHeaders \/ AnswerBody \/ AnswerTrailers \/ ProcessorFails \/ MessageTimeout \/ ExtendTimeout
    \/ AnswerImmediately \/ FilterDropped \/ Forget

\* Tokio polls a ready task, bodies end and timers fire.
ReadsBody == NextFrame \/ SourceEnds \/ ObserverStops
ExtProcFairness ==
    WF_ext(ReadsBody) /\ WF_ext(MessageTimeout)
ExtProcSpec == ExtProcInit /\ [][ExtProcNext]_ext /\ ExtProcFairness

-----------------------------------------------------------------------------
HasTrailers(frames) == \E i \in DOMAIN frames : ~frames[i].data

\* A processor that answers every message without changing it changes nothing: however frames are
\* merged, sent early, delayed, parked and answered, what has come out of the bridge is a prefix of
\* the body, the trailers come last, and once the bridge is closed nothing is missing.
BodyIntact ==
    ext.task # "idle" /\ ~ext.touched /\ ext.failed = "" =>
        /\ IsPrefix(Chunks(ext.out), Chunks(ext.original))
        /\ HasTrailers(ext.out) => ~Last(ext.out).data /\ HasTrailers(ext.original)
        /\ ~ext.open => Chunks(ext.out) = Chunks(ext.original) /\ (HasTrailers(ext.original) => HasTrailers(ext.out))

\* With failure_mode_allow a processor that does not answer in time lets the message through as it
\* came: the body that goes on is the whole body, as test_request_multichunk_body_timeout_failure_mode_allow_true has it.
FailOpenKeepsBody ==
    ext.options.allow /\ ext.failed = "timeout" /\ ~ext.touched => Chunks(ext.out) = Chunks(ext.original)

\* The two cases in which the code has nothing left that would answer the filter: the processor
\* could not be connected to, where a status is made and not sent (ext_proc.rs:1845), and a buffered
\* body sent ahead of the answer to the headers, which that answer leaves without a timer
\* (processing.rs:638).
Abandoned(w) == (w.failed = "unresolved" /\ ~w.connected) \/ (w.options.early /\ Buffered(w))

\* Once connected to, the processor may do or leave undone what it likes: the filter decides on the
\* message, as any message owed an answer has its timer armed, or else is one of the two above.
AlwaysDecided == (ext.task = "waiting") ~> (ext.task = "decided" \/ Abandoned(ext))
=============================================================================
