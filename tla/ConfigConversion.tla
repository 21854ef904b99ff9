-------------------------- MODULE ConfigConversion --------------------------
(***************************************************************************)
(* The conversion of one resource of the control plane, or of the          *)
(* bootstrap, into Arion's own configuration: `TryFrom` calls `TryFrom` of *)
(* the fields, an error ends every call it goes through.  The conversions  *)
(* themselves are the tables of ConfigMessages and ConfigHttp; what a      *)
(* field holds is chosen when its check is made.                           *)
(***************************************************************************)
EXTENDS ConfigMessages, ConfigHttp, Naturals, TLC

CONSTANTS
    Resources,     \* the messages a conversion starts with
    MaxElements    \* how many elements a list has at most

ASSUME ConversionAssumption == MaxElements \in Nat \ {0}

Messages == ClusterMessages @@ ListenerMessages @@ HttpMessages @@ FilterMessages

ASSUME ResourcesAssumption == Resources \subseteq DOMAIN Messages

VARIABLES
    calls,      \* the calls of try_from, the innermost first
    verdict,    \* "none", "converting", "failing", "accepted", "rejected" or "panicked"
    refused,    \* the field the message had wrong, <<message, field>>, or <<>>
    ignored     \* whether a field that was set has been dropped

conversionVars == << calls, verdict, refused, ignored >>

\* A call: the message, the check it is at, the elements its list had so far.
Call(m) == [msg |-> m, step |-> 1, seen |-> 0]

Top == Head(calls)

AtEnd == Top.step > Len(Messages[Top.msg])

Current == Messages[Top.msg][Top.step]

IsList == Current.kind \in {"vec", "nonempty"}

Advance(call) == [call EXCEPT !.step = @ + 1, !.seen = 0]

\* What a field may hold.  "child" is a message that has a conversion.
Contents(check) ==
    CASE check.kind = "unsupported" -> {"absent", "wrong"}
      [] check.kind = "required" -> {"absent", "plain"}
      [] check.kind \in {"value", "rule"} -> {"plain", "wrong"}
      [] check.kind \in {"dropped", "todo"} -> {"absent", "plain"}
      [] check.kind \in {"oneof", "optional_oneof"} -> {"absent", "wrong", "child"} \cup (IF "leaf" \in check.into THEN {"plain"} ELSE {})
      [] OTHER -> {"absent", "child"}

\* The code's answer to a field it does not descend into: is_used and checked.
\* Mutant: a required list may be empty.
ContinuesOnEmpty(check, content, seen) ==
    \/ content = "plain"
    \/ content = "absent" /\ check.kind \notin {"required", "convert", "oneof"}

Continues(check, content, seen) ==
    \/ content = "plain"
    \/ content = "absent" /\ (check.kind \in {"required", "convert", "oneof", "nonempty"} => check.kind = "nonempty" /\ seen > 0)

\* What it takes to honour a configuration: nothing it cannot represent, and
\* everything it needs.
Honourable(check, content, seen) ==
    /\ content # "wrong"
    /\ content = "absent" => check.kind \notin {"required", "convert", "oneof"} /\ (check.kind = "nonempty" => seen > 0)

ConversionInit ==
    /\ calls = << >>
    /\ verdict = "none"
    /\ refused = << >>
    /\ ignored = FALSE

StartConversion(m) ==
    /\ verdict = "none"
    /\ calls' = << Call(m) >>
    /\ verdict' = "converting"
    /\ UNCHANGED << refused, ignored >>

\* The field is looked at and the conversion goes on, or gives up.
Examine(content) ==
    /\ verdict = "converting" /\ ~AtEnd
    /\ Current.kind # "todo" \/ content = "absent"
    /\ content \in Contents(Current) \ {"child"}
    /\ refused' = IF Honourable(Current, content, Top.seen) THEN refused ELSE << Top.msg, Current.field >>
    /\ ignored' = (ignored \/ (Current.kind = "dropped" /\ content = "plain"))
    /\ IF Continues(Current, content, Top.seen)
       THEN calls' = << Advance(Top) >> \o Tail(calls) /\ UNCHANGED verdict
       ELSE verdict' = "failing" /\ UNCHANGED calls

\* try_into of the field, or of one more element of a list.
Descend(m) ==
    /\ verdict = "converting" /\ ~AtEnd
    /\ m \in Current.into \ {"leaf"}
    /\ Top.seen < (IF IsList THEN MaxElements ELSE 1)
    /\ calls' = << Call(m) >> \o << [Top EXCEPT !.seen = @ + 1] >> \o Tail(calls)
    /\ UNCHANGED << verdict, refused, ignored >>

\* Ok(Self { .. }): a list goes on to its next element, if there is one.
Return ==
    /\ verdict = "converting" /\ AtEnd
    /\ LET callers == Tail(calls)
       IN  IF callers = << >> THEN calls' = << >> /\ verdict' = "accepted"
           ELSE LET c == Head(callers)
                IN  /\ calls' = << IF Messages[c.msg][c.step].kind \in {"vec", "nonempty"} THEN c ELSE Advance(c) >> \o Tail(callers)
                    /\ UNCHANGED verdict
    /\ UNCHANGED << refused, ignored >>

\* The `?` of the caller; `.ok()` makes an absent value of the error.
\* Mutant: an optional child's error is swallowed as well.
SwallowsOptional(kind) == kind \in {"lenient", "optional"}

Swallows(kind) == kind = "lenient"

Unwind ==
    /\ verdict = "failing"
    /\ LET callers == Tail(calls)
       IN  IF callers = << >> THEN calls' = << >> /\ verdict' = "rejected"
           ELSE LET c == Head(callers)
                IN  IF Swallows(Messages[c.msg][c.step].kind)
                    THEN calls' = << Advance(c) >> \o Tail(callers) /\ verdict' = "converting"
                    ELSE calls' = callers /\ UNCHANGED verdict
    /\ UNCHANGED << refused, ignored >>

\* todo!() unwinds the task that converts.
Panic ==
    /\ verdict = "converting" /\ ~AtEnd
    /\ Current.kind = "todo"
    /\ verdict' = "panicked"
    /\ UNCHANGED << calls, refused, ignored >>

ConversionNext ==
    \/ \E m \in Resources : StartConversion(m)
    \/ \E content \in {"absent", "plain", "wrong"} : Examine(content)
    \/ verdict = "converting" /\ ~AtEnd /\ \E m \in Current.into : Descend(m)
    \/ Return
    \/ Unwind
    \/ Panic

ConversionSpec == ConversionInit /\ [][ConversionNext]_conversionVars

-----------------------------------------------------------------------------
\* The fields whose errors are swallowed: RouteAction's upgrade_configs.
Lenients == {"UpgradeConfig"}

\* A verdict is the right one: a resource with a field that cannot be honoured
\* is accepted only if the field is below one whose errors the code swallows,
\* and a resource is rejected only for such a field.  An error found several
\* calls deep, in the second element of a list or in an optional child must
\* therefore reach the outermost call.
VerdictIsRight ==
    /\ verdict = "accepted" => refused = << >> \/ refused[1] \in Lenients
    /\ verdict \in {"rejected", "failing"} => refused # << >>

\* arion-configuration/src/config/README.md: "If NG cannot honour a config in
\* the same way Envoy does, we will refuse to parse it (if loading from a
\* file) or reject the update (if using xDS)."  What is accepted has no field
\* that cannot be honoured and no field that was dropped.
ConfigGuarantee == verdict = "accepted" => refused = << >> /\ ~ignored

=============================================================================
