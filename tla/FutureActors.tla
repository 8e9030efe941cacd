---------------------------- MODULE FutureActors ----------------------------
(***************************************************************************)
(* The small actors of flow/genericactors.actor.h that turn futures into   *)
(* futures.  A behaviour is the life of one of them, `kind': it is started *)
(* with inputs that may be ready already, inputs become ready in any order,*)
(* its timer fires, and it may be cancelled at any wait.                   *)
(*                                                                         *)
(* An actor is an operator that says how it goes on when the input `i' it  *)
(* waits for at place `pc' has outcome `o'.  As in the generated code, the *)
(* whens of a choose are tried in order, a resumed actor runs until it     *)
(* waits for something that is not ready, and every wait of a cancelled    *)
(* actor throws actor_cancelled.                                           *)
(***************************************************************************)
EXTENDS Integers, Sequences

VARIABLES
    kind,      \* which actor this is
    pc,        \* where it waits
    saved,     \* its state variables
    result,    \* its own future
    effects,   \* what else it did
    in,        \* its inputs; `timer' is the delay it made
    first,     \* inputs in the order in which they became ready
    cancelled

vars == <<kind, pc, saved, result, effects, in, first, cancelled>>

Val(x) == <<"val", x>>
Err(e) == <<"err", e>>
Pending == <<"pending", "">>
Off == <<"off", "">>
Cancelled == Err("actor_cancelled")

\* "yes" also stands for true and for a value that is present, "no" for the other.
Values == {Val("yes"), Val("no")}
Errors == {Err(e) : e \in {"broken_promise", "please_reboot", "other", "actor_cancelled"}}
Void == Val("void")
AsErrorOr(o) == <<"val", "ErrorOr", o>>

IsErr(o) == o[1] = "err"
IsVal(o) == o[1] = "val"
Ready(o) == IsErr(o) \/ IsVal(o)

(***************************************************************************)
(* How an actor goes on.                                                   *)
(***************************************************************************)
Done(o) == [pc |-> "done", out |-> o, saved |-> Off, eff |-> {}]
DoneWith(o, e) == [pc |-> "done", out |-> o, saved |-> Off, eff |-> {e}]
Goto(p, s) == [pc |-> p, out |-> Pending, saved |-> s, eff |-> {}]
GotoWith(p, s, e) == [pc |-> p, out |-> Pending, saved |-> s, eff |-> {e}]
Never == Goto("never", Off)

(***************************************************************************)
(* What an actor waits for, in the order of its choose.                    *)
(***************************************************************************)
Waits(p) ==
    CASE p = "what" -> <<"what">>
      [] p = "second" -> <<"second">>
      [] p = "either" -> <<"what", "second">>
      [] p = "timer" -> <<"timer">>
      [] p = "what or timer" -> <<"what", "timer">>
      [] p = "second or timer" -> <<"second", "timer">>
      [] OTHER -> <<>>

-----------------------------------------------------------------------------
traceAfter(o) == DoneWith(o, "trace")

traceAfterCall(o) == DoneWith(o, "trace")

stopAfter(o) ==
    DoneWith(CASE IsVal(o) -> Val("yes")
               [] o \in {Err("please_reboot"), Cancelled} -> Val("yes")
               [] OTHER -> Val("no"),
             "stop")

errorOr(o) == Done(AsErrorOr(o))

throwErrorOr(o) == Done(IF IsVal(o) THEN o[3] ELSE o)

transformErrors(o) == Done(IF IsErr(o) /\ o # Cancelled THEN Err("outErr") ELSE o)

transformError(o) == Done(IF o = Err("other") THEN Err("outErr") ELSE o)

forwardEvent(o) == DoneWith(Void, "event set")

waitForAllReady(i, o) == IF i = "what" THEN Goto("second", Off) ELSE Done(Void)

timeout(i, o) == Done(IF i = "what" THEN o ELSE IF IsVal(o) THEN Val("timedoutValue") ELSE o)

timeoutError(i, o) == Done(IF i = "what" THEN o ELSE IF IsVal(o) THEN Err("timed_out") ELSE o)

delayed(i, o, s) ==
    IF i = "what" THEN Goto("timer", o) ELSE Done(IF IsErr(o) THEN o ELSE s)

recurring(o) == IF IsErr(o) THEN Done(o) ELSE GotoWith("timer", Off, "what()")

trigger(o) == IF IsErr(o) THEN Done(o) ELSE DoneWith(Void, "what()")

triggerOnError(o) == IF IsErr(o) THEN DoneWith(Void, "what()") ELSE Done(Void)

(***************************************************************************)
(* The outer actor.  The inner one has no future, so that cancelling the   *)
(* outer one leaves it waiting for its input.                              *)
(***************************************************************************)
uncancellable(o) == Done(o)

holdWhile(o) == Done(o)

store(o) == IF IsErr(o) THEN Done(o) ELSE DoneWith(Void, "stored")

storeOrThrow(o) ==
    CASE IsErr(o) -> Done(o)
      [] o = Val("no") -> Done(Err("key_not_found"))
      [] OTHER -> DoneWith(Void, "stored")

mapAsync(i, o) == IF i = "what" /\ IsVal(o) THEN Goto("second", Off) ELSE Done(o)

map(o) == Done(IF IsErr(o) THEN o ELSE Val("mapped"))

returnIfTrue(o) == CASE IsErr(o) -> Done(o) [] o = Val("yes") -> Done(Void) [] OTHER -> Never

setAfter(o) == IF IsErr(o) THEN Done(o) ELSE DoneWith(Void, "set")

setWhenDoneOrError(o) == IF o = Cancelled THEN Done(o) ELSE DoneWith(Void, "set")

streamHelper(o) ==
    CASE IsVal(o) -> DoneWith(Void, "output")
      [] o = Cancelled -> Done(o)
      [] OTHER -> DoneWith(Void, "errors")

-----------------------------------------------------------------------------
(***************************************************************************)
(* quorum(results, 1): a quorum of all results has the first, then this.   *)
(***************************************************************************)
smartQuorum(i, o, s) ==
    CASE IsErr(o) -> Done(o)
      [] i = "what" \/ (i = "second" /\ s = Off) ->
            Goto(IF i = "what" THEN "second or timer" ELSE "what or timer", Val("one"))
      [] OTHER -> Done(Void)

waitForAll(i, o, s) ==
    CASE IsErr(o) -> Done(o)
      [] s # Off -> Done(Void)
      [] OTHER -> Goto(IF i = "what" THEN "second" ELSE "what", o)

waitForAny(i, o) == Done(IF IsErr(o) THEN o ELSE Void)

\* Fault: the last term is not looked at when all are there.
shortCircuitAnyRace(i, o, s) ==
    CASE IsErr(o) -> Done(o)
      [] s # Off -> Done(Val("no"))
      [] o = Val("yes") -> Done(Val("yes"))
      [] OTHER -> Goto(IF i = "what" THEN "second" ELSE "what", o)

\* An error that is there at the call decides: the quorum of the first when has
\* failed, whatever the other term is.
ErrorFirst(l, r) == IF IsErr(r) /\ ~IsErr(l) THEN Goto("second", Off) ELSE Goto("either", Off)

shortCircuitAny(i, o, s) ==
    CASE IsErr(o) -> Done(o)
      [] o = Val("yes") -> Done(Val("yes"))
      [] s # Off -> Done(Val("no"))
      [] OTHER -> Goto(IF i = "what" THEN "second" ELSE "what", o)

getAll(i, o, s) ==
    CASE IsErr(o) -> Done(o)
      [] s # Off -> Done(<<"val", "vector">> \o (IF i = "second" THEN <<s, o>> ELSE <<o, s>>))
      [] OTHER -> Goto(IF i = "what" THEN "second" ELSE "what", o)

onEqual(o) == CASE IsErr(o) -> Done(o) [] o = Val("yes") -> Done(Void) [] OTHER -> Never

success(o) == Done(IF IsErr(o) THEN o ELSE Void)

ready(o) == Done(Void)

reportErrorsExcept(o) ==
    IF IsErr(o) /\ o \notin {Cancelled, Err("please_reboot")} THEN DoneWith(o, "trace") ELSE Done(o)

require(o) == Done(IF o = Val("no") THEN Err("errorCode") ELSE o)

(***************************************************************************)
(* The stream of results is asked before that of errors; streamHelper does *)
(* not send on an input that has actor_cancelled.                          *)
(***************************************************************************)
waitForFirstStart(l, r) == IF IsErr(l) /\ IsVal(r) THEN Goto("second", Off) ELSE Goto("either", Off)

waitForFirst(i, o, s) ==
    CASE o # Cancelled \/ cancelled -> Done(o)
      [] s # Off -> Never
      [] OTHER -> Goto(IF i = "what" THEN "second" ELSE "what", o)

tag(o) == Done(IF IsErr(o) THEN o ELSE Val("tagged"))

tagError(o) == Done(IF IsErr(o) THEN o ELSE Err("tagged"))

(***************************************************************************)
(* A ready future is handed on after a yield, others as they are.          *)
(***************************************************************************)
orYieldStart(o) == IF Ready(o) THEN Goto("timer", o) ELSE Goto("what", Off)

orYield(i, o, s) == Done(IF i = "timer" /\ IsVal(o) THEN s ELSE o)

chooseActor(i, o) == Done(o)

brokenPromiseToNever(o) == IF o = Err("broken_promise") THEN Never ELSE Done(o)

brokenPromiseToMaybeDelivered(o) ==
    Done(IF o = Err("broken_promise") THEN Err("request_maybe_delivered") ELSE o)

tagAndForward(o) == IF IsErr(o) THEN DoneWith(Void, "broken") ELSE DoneWith(Void, "sent")

waitOrError(i, o) == Done(IF i = "second" /\ IsVal(o) THEN Err("internal_error") ELSE o)

delayActionJittered(i, o) == IF i = "timer" /\ IsVal(o) THEN Goto("what", Off) ELSE Done(o)

timeReply(i, o) ==
    CASE o = Err("broken_promise") -> Done(Void)
      [] IsErr(o) -> Done(o)
      [] i = "what" -> Goto("timer", Off)
      [] OTHER -> DoneWith(Void, "time sent")

allTrue(i, o) ==
    CASE IsErr(o) \/ o = Val("no") -> Done(o)
      [] i = "what" -> Goto("second", Off)
      [] OTHER -> Done(o)

(***************************************************************************)
(* Required = 2 of 2: true needs both, one false is enough.                *)
(***************************************************************************)
quorumEqualsTrue(i, o, s) ==
    CASE IsErr(o) \/ o = Val("no") -> Done(o)
      [] s # Off -> Done(o)
      [] OTHER -> Goto(IF i = "what" THEN "second" ELSE "what", o)

(***************************************************************************)
(* operator && and operator || look at their arguments when they are       *)
(* called and return one of them, or a quorum or chooseActor.              *)
(***************************************************************************)
Forward(i) == Goto(i, Val("forward"))

AndStart(l, r) ==
    CASE Ready(l) -> IF IsErr(l) THEN Forward("what") ELSE Forward("second")
      [] ~Ready(l) /\ Ready(r) -> IF IsErr(r) THEN Forward("second") ELSE Forward("what")
      [] OTHER -> Goto("either", Off)

OrStart(l, r) ==
    IF Ready(l)
      THEN IF IsErr(l) THEN Forward("what") ELSE IF Ready(r) THEN Forward("second") ELSE Forward("what")
      ELSE Goto("either", Off)

Both(i, o, s) == IF s = Val("forward") THEN Done(o) ELSE waitForAll(i, o, s)

-----------------------------------------------------------------------------
OneWait == {"traceAfter", "traceAfterCall", "stopAfter", "errorOr", "throwErrorOr",
            "transformErrors", "transformError", "trigger", "triggerOnError",
            "uncancellable", "holdWhile", "store", "storeOrThrow", "map", "returnIfTrue",
            "setWhenDoneOrError", "streamHelper", "onEqual", "success", "ready",
            "reportErrorsExcept", "require", "tag", "tagError", "brokenPromiseToNever",
            "brokenPromiseToMaybeDelivered", "forwardEvent", "tagAndForward"}
TwoWaits == {"waitForAllReady", "mapAsync", "smartQuorum", "waitForAll", "shortCircuitAny",
             "getAll", "waitForAny", "waitForFirst", "chooseActor", "waitOrError", "allTrue",
             "quorumEqualsTrue", "and", "or"}
TimerFirst == {"recurring", "setAfter", "delayActionJittered"}
TimerRace == {"timeout", "timeoutError"}
TimerLater == {"delayed", "timeReply", "orYield"}
AllKinds == OneWait \union TwoWaits \union TimerFirst \union TimerRace \union TimerLater
\* Actors without a future cannot be cancelled.
VoidKinds == {"forwardEvent", "tagAndForward"}

Start(k) ==
    CASE k = "and" -> AndStart(in["what"], in["second"])
      [] k = "or" -> OrStart(in["what"], in["second"])
      [] k = "orYield" -> orYieldStart(in["what"])
      [] k \in {"shortCircuitAny", "quorumEqualsTrue"} -> ErrorFirst(in["what"], in["second"])
      [] k = "waitForFirst" -> waitForFirstStart(in["what"], in["second"])
      [] k \in {"waitForAllReady", "mapAsync", "allTrue"} \union OneWait \union (TimerLater \ {"orYield"}) ->
            Goto("what", Off)
      [] k \in TimerFirst -> Goto("timer", Off)
      [] k \in TimerRace -> Goto("what or timer", Off)
      [] OTHER -> Goto("either", Off)

React(k, i, o, s) ==
    CASE k = "traceAfter" -> traceAfter(o)
      [] k = "traceAfterCall" -> traceAfterCall(o)
      [] k = "stopAfter" -> stopAfter(o)
      [] k = "errorOr" -> errorOr(o)
      [] k = "throwErrorOr" -> throwErrorOr(o)
      [] k = "transformErrors" -> transformErrors(o)
      [] k = "transformError" -> transformError(o)
      [] k = "forwardEvent" -> forwardEvent(o)
      [] k = "waitForAllReady" -> waitForAllReady(i, o)
      [] k = "timeout" -> timeout(i, o)
      [] k = "timeoutError" -> timeoutError(i, o)
      [] k = "delayed" -> delayed(i, o, s)
      [] k = "recurring" -> recurring(o)
      [] k = "trigger" -> trigger(o)
      [] k = "triggerOnError" -> triggerOnError(o)
      [] k = "uncancellable" -> uncancellable(o)
      [] k = "holdWhile" -> holdWhile(o)
      [] k = "store" -> store(o)
      [] k = "storeOrThrow" -> storeOrThrow(o)
      [] k = "mapAsync" -> mapAsync(i, o)
      [] k = "map" -> map(o)
      [] k = "returnIfTrue" -> returnIfTrue(o)
      [] k = "setAfter" -> setAfter(o)
      [] k = "setWhenDoneOrError" -> setWhenDoneOrError(o)
      [] k = "streamHelper" -> streamHelper(o)
      [] k = "smartQuorum" -> smartQuorum(i, o, s)
      [] k = "waitForAll" -> waitForAll(i, o, s)
      [] k = "waitForAny" -> waitForAny(i, o)
      [] k = "orYield" -> orYield(i, o, s)
      [] k = "shortCircuitAny" -> shortCircuitAny(i, o, s)
      [] k = "getAll" -> getAll(i, o, s)
      [] k = "onEqual" -> onEqual(o)
      [] k = "success" -> success(o)
      [] k = "ready" -> ready(o)
      [] k = "reportErrorsExcept" -> reportErrorsExcept(o)
      [] k = "require" -> require(o)
      [] k = "waitForFirst" -> waitForFirst(i, o, s)
      [] k = "tag" -> tag(o)
      [] k = "tagError" -> tagError(o)
      [] k \in {"chooseActor", "or"} -> chooseActor(i, o)
      [] k = "and" -> Both(i, o, s)
      [] k = "brokenPromiseToNever" -> brokenPromiseToNever(o)
      [] k = "brokenPromiseToMaybeDelivered" -> brokenPromiseToMaybeDelivered(o)
      [] k = "tagAndForward" -> tagAndForward(o)
      [] k = "waitOrError" -> waitOrError(i, o)
      [] k = "delayActionJittered" -> delayActionJittered(i, o)
      [] k = "timeReply" -> timeReply(i, o)
      [] k = "allTrue" -> allTrue(i, o)
      [] k = "quorumEqualsTrue" -> quorumEqualsTrue(i, o, s)

-----------------------------------------------------------------------------
(***************************************************************************)
(* The inputs of throwErrorOr are ErrorOr values.                          *)
(***************************************************************************)
Inputs(k) ==
    (IF k = "throwErrorOr" THEN {AsErrorOr(o) : o \in Values \union Errors} ELSE Values) \union Errors

InitialInputs(k) ==
    [what : IF k \in {"recurring", "setAfter"} THEN {Off} ELSE Inputs(k) \union {Pending},
     second : IF k \in TwoWaits THEN Values \union Errors \union {Pending} ELSE {Off},
     timer : {Off}]

Init ==
    /\ kind \in AllKinds
    /\ pc = "start" /\ saved = Off /\ result = Pending /\ effects = {}
    /\ in \in InitialInputs(kind)
    /\ first = <<>>
    /\ cancelled = FALSE

UsesTimer(p) == \E n \in DOMAIN Waits(p) : Waits(p)[n] = "timer"

(***************************************************************************)
(* A delay is made where the actor first waits for it.                     *)
(***************************************************************************)
Become(r) ==
    /\ pc' = r.pc /\ saved' = r.saved /\ result' = r.out
    /\ effects' = effects \union r.eff
    /\ in' = IF UsesTimer(r.pc) /\ (in["timer"] = Off \/ kind = "recurring")
               THEN [in EXCEPT !["timer"] = Pending] ELSE in
    /\ UNCHANGED <<kind, first, cancelled>>

Begin == pc = "start" /\ Become(Start(kind))

Waiting == pc \notin {"start", "done"}

Hit == {n \in DOMAIN Waits(pc) : Ready(in[Waits(pc)[n]])}

Runnable == pc = "start" \/ (Waiting /\ (cancelled \/ Hit # {}))

(***************************************************************************)
(* The actor goes on with the first ready input, or with actor_cancelled.  *)
(***************************************************************************)
Resume ==
    /\ Waiting
    /\ \/ /\ cancelled
          /\ Become(IF pc = "never" THEN Done(Cancelled)
                    ELSE React(kind, Waits(pc)[1], Cancelled, saved))
       \/ /\ ~cancelled /\ Hit # {}
          /\ LET i == Waits(pc)[CHOOSE n \in Hit : \A m \in Hit : n <= m]
             IN Become(React(kind, i, in[i], saved))

(***************************************************************************)
(* Inputs become ready; the actor is resumed before anything else happens. *)
(***************************************************************************)
Arrive(i, o) ==
    /\ ~Runnable
    /\ in[i] = Pending
    /\ i = "timer" => o = Void
    /\ i = "what" => o \in Inputs(kind)
    /\ in' = [in EXCEPT ![i] = o]
    /\ first' = IF pc = "done" THEN first ELSE Append(SelectSeq(first, LAMBDA j : j # i), i)
    /\ UNCHANGED <<kind, pc, saved, result, effects, cancelled>>

Cancel ==
    /\ Waiting /\ ~Runnable /\ kind \notin VoidKinds
    /\ cancelled' = TRUE
    /\ UNCHANGED <<kind, pc, saved, result, effects, in, first>>

Next ==
    \/ Begin \/ Resume \/ Cancel
    \/ \E i \in {"what", "second", "timer"}, o \in Inputs(kind) \union Values \union {Void} :
          (i = "second" => o \in Values \union Errors) /\ Arrive(i, o)

\* A resumed actor runs on.
Spec == Init /\ [][Next]_vars /\ WF_vars(Begin \/ Resume)

-----------------------------------------------------------------------------
Quiet == ~Runnable

(***************************************************************************)
(* An actor that is cancelled (CancelRequested) ends (Ended), even from a  *)
(* handler that waits again (delayed, brokenPromiseToNever).               *)
(***************************************************************************)
CancelRequested == cancelled
Ended == pc = "done"

(***************************************************************************)
(* Cancellation alone is passed on as it is and makes nobody act, except   *)
(* where the code catches every error.                                     *)
(***************************************************************************)
CatchAll == {"stopAfter", "errorOr", "triggerOnError", "ready", "waitForAllReady"}

CancelIsSilent ==
    cancelled /\ pc = "done" /\ kind \notin CatchAll =>
        /\ result = Cancelled
        /\ effects \subseteq {"trace", "what()"}
        /\ "what()" \in effects => kind = "recurring"

(***************************************************************************)
(* Broken promises stay hidden from those who asked for it.                *)
(***************************************************************************)
BrokenIsHidden ==
    kind \in {"brokenPromiseToNever", "brokenPromiseToMaybeDelivered", "timeReply"} =>
        result # Err("broken_promise")

(***************************************************************************)
(* A delayed or jittered result comes no earlier than the delay's end.     *)
(***************************************************************************)
DelayIsKept ==
    /\ kind \in {"delayed", "delayActionJittered"} /\ pc = "done" /\ ~cancelled => in["timer"] = Void
    /\ kind = "orYield" /\ first # <<>> /\ first[1] = "timer" => result = in["what"] \/ pc # "done" \/ cancelled
    /\ kind = "timeReply" /\ "time sent" \in effects => in["timer"] = Void /\ IsVal(in["what"])

(***************************************************************************)
(* Who races gets what was ready first, and a ready input beats a timer.   *)
(***************************************************************************)
FirstWins ==
    /\ kind = "timeout" /\ pc = "done" /\ ~cancelled =>
          result = IF first # <<>> /\ first[1] = "timer" THEN Val("timedoutValue") ELSE in["what"]
    /\ kind = "timeoutError" /\ pc = "done" /\ ~cancelled =>
          result = IF first # <<>> /\ first[1] = "timer" THEN Err("timed_out") ELSE in["what"]
    /\ kind = "chooseActor" /\ pc = "done" /\ ~cancelled =>
          result \in {in["what"], in["second"]}

(***************************************************************************)
(* The Boolean combinators compute what their names say, and decide as     *)
(* soon as the inputs determine the answer.                                *)
(***************************************************************************)
Yes(i) == in[i] = Val("yes")
No(i) == in[i] = Val("no")
NoErrors == ~IsErr(in["what"]) /\ ~IsErr(in["second"])

BooleansAreRight ==
    Quiet /\ ~cancelled /\ NoErrors =>
        /\ kind = "shortCircuitAny" =>
             (result = CASE Yes("what") \/ Yes("second") -> Val("yes")
                         [] No("what") /\ No("second") -> Val("no")
                         [] OTHER -> Pending)
        /\ kind = "quorumEqualsTrue" =>
             (result = CASE Yes("what") /\ Yes("second") -> Val("yes")
                         [] No("what") \/ No("second") -> Val("no")
                         [] OTHER -> Pending)
        /\ kind = "allTrue" /\ Ready(result) => (result = Val("yes") <=> Yes("what") /\ Yes("second"))

(***************************************************************************)
(* The table above operator &&: set && set -> set, error && x -> error,    *)
(* all others -> unset, whenever the inputs become what they are.          *)
(***************************************************************************)
AndTable ==
    kind = "and" /\ Quiet /\ ~cancelled =>
        /\ IsVal(result) <=> IsVal(in["what"]) /\ IsVal(in["second"])
        /\ IsErr(result) <=> IsErr(in["what"]) \/ IsErr(in["second"])

(***************************************************************************)
(* The table above operator ||: error || unset -> error, unset || unset -> *)
(* unset, all others -> set; for the inputs as they are at the call.       *)
(***************************************************************************)
OrTable ==
    kind = "or" /\ Quiet /\ ~cancelled /\ first = <<>> =>
        CASE ~Ready(in["what"]) /\ ~Ready(in["second"]) -> ~Ready(result)
          [] {in["what"], in["second"]} \subseteq Errors \union {Pending} -> IsErr(result)
          [] OTHER -> IsVal(result)

(***************************************************************************)
(* What each of the small actors is for.                                   *)
(***************************************************************************)
CombinatorsRight == CancelIsSilent /\ BrokenIsHidden /\ DelayIsKept /\ FirstWins /\ BooleansAreRight /\ AndTable
=============================================================================
