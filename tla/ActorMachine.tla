---------------------------- MODULE ActorMachine ----------------------------
(***************************************************************************)
(* The actors of examples/ActorFuzz.actor.cpp and the control flow tests   *)
(* of examples/dsltest.actor.cpp, as programs in a small language of actor *)
(* statements, and a machine that runs them.                               *)
(*                                                                         *)
(* How the code generated for an actor runs: it goes on until it waits for *)
(* something that is not ready, and is resumed from inside the send that   *)
(* completes it.  The continuations of the generated code are a stack of   *)
(* frames: the statements to run, the loop they are in, and the handler of *)
(* the try block around them.                                              *)
(*                                                                         *)
(* The environment is testFuzzActor (examples/dsltest.actor.cpp): `before' *)
(* inputs are sent before the actor starts, and its future is completed    *)
(* with input number `errorBefore'.                                        *)
(***************************************************************************)
EXTENDS Integers, Sequences

OperationFailed == 1000
FutureVersion == 1009

S(x)  == [op |-> "send", x |-> x]    \* outputStream.send(x), or printing x
In(x) == [op |-> "input", x |-> x]   \* input = waitNext(inputStream); send(input + x)
Take  == [op |-> "take"]             \* waitNext(inputStream)
W     == [op |-> "wait"]             \* wait for the test's future
Ready == [op |-> "skip"]             \* wait for a future that is ready
R(x)  == [op |-> "return", x |-> x]
Fail(e) == [op |-> "throw", x |-> e]
Throw == Fail(OperationFailed)
Brk   == [op |-> "break"]
Cont  == [op |-> "continue"]
Rep(n, body) == [op |-> "loop", n |-> n, body |-> body]
Loop(body) == Rep(-1, body)
Try(body, handler) == [op |-> "try", body |-> body, handler |-> handler]
Inc(v)  == [op |-> "set", v |-> v, add |-> 1]
Zero(v) == [op |-> "set", v |-> v, add |-> 0]
If(v, vals, then, else) ==
    [op |-> "if", v |-> v, vals |-> vals, then |-> then, else |-> else]
When(v, vals, then) == If(v, vals, then, <<>>)
\* (++ifstate & 1) == b
IfBit(b, then, else) == [op |-> "ifbit", b |-> b, then |-> then, else |-> else]
\* choose between the next input, which is printed, and the test's future
Choose(onInput, onFuture) == [op |-> "choose", onInput |-> onInput, onFuture |-> onFuture]

-----------------------------------------------------------------------------
actorFuzz0 == <<Rep(3, <<S(472952), R(424221)>>), R(136262)>>
actorFuzz1 == <<In(895041), R(406985)>>
actorFuzz2 == <<R(981337)>>
actorFuzz3 == <<Try(<<S(169417), Try(<<S(910046), Throw, S(128775), Try(<<S(288265), Rep(3,
    <<S(884888), Try(<<S(523929), R(803295)>>, <<S(895092), Try(<<S(103860), R(189456)>>,
    <<S(636033), Cont>>)>>)>>), S(827981)>>, <<S(530422), In(556758), S(289564)>>),
    S(479534)>>, <<S(901015), Rep(5, <<S(238065), Cont>>), S(216530)>>), S(721088), Rep(5,
    <<S(154168), Rep(5, <<S(509758), Brk>>), S(331070)>>), S(728291)>>, <<S(276663),
    R(893442)>>), R(150168)>>
actorFuzz4 == <<IfBit(0, <<S(757514), In(991755), S(397194)>>, <<>>), R(924232)>>
actorFuzz5 == <<Rep(5, <<S(793665), Rep(5, <<S(473530), Rep(5, <<S(728257), R(239736)>>),
    S(923761)>>), S(713797), Rep(3, <<S(366087), In(538592), S(222552)>>), S(974653)>>),
    R(738267)>>
actorFuzz6 == <<Rep(3, <<S(228205), Rep(5, <<S(686961), W, S(453057)>>), S(318329)>>),
    S(878109), IfBit(0, <<S(947744), R(770841)>>, <<>>), S(484904), Throw>>
actorFuzz7 == <<Rep(5, <<S(388211), Cont>>), R(215808)>>
actorFuzz8 == <<Rep(3, <<S(906334), Cont>>), R(190561)>>
actorFuzz9 == <<IfBit(0, <<S(862320), Try(<<S(467528), In(454869), S(170527)>>, <<S(599433),
    In(849051), S(399140)>>), S(775108)>>, <<>>), R(159221)>>
actorFuzz10 == <<Rep(5, <<S(713197), Brk>>), R(195782)>>
actorFuzz11 == <<Rep(3, <<S(715504), Rep(3, <<S(404836), Brk>>), S(687853)>>), R(416948)>>
actorFuzz12 == <<R(955805)>>
actorFuzz13 == <<Rep(5, <<S(619715), IfBit(1, <<S(528509), Try(<<S(647852), Cont>>,
    <<S(707540), R(252364)>>)>>, <<>>), S(255314)>>), R(391920)>>
actorFuzz14 == <<Rep(5, <<S(422579), Try(<<S(665867), Cont>>, <<S(934161), Throw,
    S(966369)>>), S(484274), R(323308)>>), R(798692)>>
actorFuzz15 == <<IfBit(1, <<S(463317), In(862528), S(144528), Throw>>, <<>>), R(348329)>>
actorFuzz16 == <<Rep(3, <<S(488500), In(435335), S(838746)>>), R(241009)>>
actorFuzz17 == <<R(499302)>>
actorFuzz18 == <<Throw>>
actorFuzz19 == <<In(216963), S(928990), Try(<<S(833320), R(981835)>>, <<S(163601), IfBit(0,
    <<S(566353), In(898598), S(489283)>>, <<S(302679), Rep(3, <<S(161921), Rep(3,
    <<S(383319), IfBit(0, <<S(510598), IfBit(0, <<S(507597), IfBit(0, <<S(165706), W,
    S(517934)>>, <<S(310975), Cont>>), S(276549)>>, <<S(760246), R(285921)>>), S(998271),
    Rep(5, <<S(116027), Try(<<S(924660), R(318962)>>, <<S(344097), R(650093)>>)>>),
    S(911361)>>, <<S(132280), Rep(5, <<S(304676), Try(<<S(213797), Cont>>, <<S(103092),
    Brk>>)>>), S(186853), Throw>>), S(111835)>>), S(556173)>>), S(946155)>>), S(933557)>>),
    R(291132)>>
actorFuzz20 == <<R(668336)>>
actorFuzz21 == <<In(103331), R(404486)>>
actorFuzz22 == <<Try(<<S(173342), IfBit(1, <<S(133654), Throw>>, <<>>), S(390745)>>,
    <<S(317492), Try(<<S(976956), IfBit(1, <<S(488021), Try(<<S(379893), In(113044),
    S(514763)>>, <<S(934231), Try(<<S(897734), IfBit(1, <<S(217526), IfBit(0, <<S(483115),
    Rep(5, <<S(153107), R(282773)>>), S(980876)>>, <<S(617607), Rep(3, <<S(939809), Rep(3,
    <<S(958333), R(863292)>>), S(556033)>>), S(374285)>>), S(804200)>>, <<>>), S(353758)>>,
    <<S(289122), IfBit(1, <<S(807371), Rep(5, <<S(415008), Try(<<S(693494), Try(<<S(281197),
    In(441269), S(508213)>>, <<S(481511), Try(<<S(902248), Cont>>, <<S(801076), Rep(3,
    <<S(828677), Rep(5, <<S(972392), Rep(3, <<S(986318), Throw>>), S(756646)>>),
    S(685268)>>), S(570856)>>), S(193955)>>), S(432512)>>, <<S(373686), IfBit(1,
    <<S(627374), In(597617), S(837374)>>, <<>>), S(297526)>>), S(683444)>>), S(871558),
    Rep(3, <<S(562891), Brk>>), S(568138)>>, <<>>), S(510866)>>), S(760603)>>), S(396539)>>,
    <<>>), S(294563)>>, <<S(341975), Throw, S(533359)>>), S(313661)>>), R(330816)>>
actorFuzz23 == <<Try(<<S(803855), Try(<<S(187873), Throw>>, <<S(107262), IfBit(0,
    <<S(903833), R(122479)>>, <<>>), S(129084), Throw>>)>>, <<S(193646), In(123221),
    S(336636)>>), R(823727)>>
actorFuzz24 == <<Rep(3, <<S(904160), Try(<<S(630322), IfBit(1, <<S(971556), Throw,
    S(693412)>>, <<>>), S(102553), Cont>>, <<S(284758), Rep(3, <<S(597252), R(236723)>>),
    S(482123), IfBit(0, <<S(523339), In(223842), S(423422)>>, <<>>), S(683377)>>),
    S(415173)>>), R(660359)>>
actorFuzz25 == <<Try(<<S(450503), In(146899), S(754498)>>, <<S(898315), R(869882)>>),
    R(861489)>>
actorFuzz26 == <<R(355765)>>
actorFuzz27 == <<In(862579), R(567151)>>
actorFuzz28 == <<Try(<<S(190685), Rep(3, <<S(107570), Rep(3, <<S(430892), Throw,
    S(705871)>>), S(102606)>>), S(619003)>>, <<S(787855), Rep(3, <<S(934043), Rep(5,
    <<S(815071), Cont>>), S(868540)>>), S(978175)>>), R(887701)>>
actorFuzz29 == <<Rep(3, <<S(121079), Throw>>), S(814445), Rep(5, <<S(548422), R(324302)>>),
    R(853491)>>
-----------------------------------------------------------------------------
(***************************************************************************)
(* The tests of dsltest.actor.cpp.  A failed test prints a negative number.*)
(***************************************************************************)
actorTest1 == <<S(1), Fail(FutureVersion), R(0)>>
actorTest3 == <<Try(<<Fail(FutureVersion)>>, <<S(3), R(0)>>), S(-3), R(0)>>
actorTest4 == <<Try(<<Throw>>, <<W>>), S(4), R(0)>>
actorTest5 ==
    <<Loop(<<Loop(<<Zero("inloop"), When("caught", {1}, <<S(5), R(1)>>),
        Try(<<Loop(<<When("inloop", {1}, <<S(-5), R(0)>>), Inc("inloop"), Throw>>)>>,
            <<Inc("caught")>>)>>)>>)>>
actorTest6 == <<Loop(<<When("caught", {1}, <<S(6), R(1)>>), Try(<<Throw>>, <<Inc("caught")>>)>>)>>
actorTest7 ==
    <<Try(<<Loop(<<Loop(<<Throw, S(-7), R(0)>>), S(-7), R(0)>>)>>, <<S(7), R(1)>>)>>
actorTest8 ==
    <<Loop(<<Zero("inloop"), When("caught", {1}, <<S(8), R(1)>>),
        Try(<<Loop(<<When("inloop", {1}, <<S(-8), R(0)>>), Ready, Inc("inloop"), Throw>>)>>,
            <<Inc("caught")>>)>>)>>
actorTest9A ==
    <<Loop(<<When("count", {4}, <<S(9), R(1)>>), When("count", {1, 2, 3}, <<S(-9), R(0)>>),
        Loop(<<Loop(<<W, Loop(<<Loop(<<Inc("count"), Brk>>), Ready, Inc("count"), Brk>>),
                 Inc("count"), Brk>>), Inc("count"), Brk>>)>>)>>
actorTest10A == <<Rep(5, <<W, Take>>), R(10)>>
switchTest == <<Loop(<<Choose(<<>>, <<S(-1), Brk>>)>>), Loop(<<S(0), R(0)>>)>>

(***************************************************************************)
(* Each program with its expected output, which ends with what it returns. *)
(***************************************************************************)
Tests == <<
    <<actorFuzz0, <<472952, 424221>>>>,
    <<actorFuzz1, <<896041, 406985>>>>,
    <<actorFuzz2, <<981337>>>>,
    <<actorFuzz3, <<169417, 910046, 901015, 238065, 238065, 238065, 238065, 238065, 216530,
        721088, 154168, 509758, 331070, 154168, 509758, 331070, 154168, 509758, 331070,
        154168, 509758, 331070, 154168, 509758, 331070, 728291, 150168>>>>,
    <<actorFuzz4, <<924232>>>>,
    <<actorFuzz5, <<793665, 473530, 728257, 239736>>>>,
    <<actorFuzz6, <<228205, 686961, 1000>>>>,
    <<actorFuzz7, <<388211, 388211, 388211, 388211, 388211, 215808>>>>,
    <<actorFuzz8, <<906334, 906334, 906334, 190561>>>>,
    <<actorFuzz9, <<159221>>>>,
    <<actorFuzz10, <<713197, 195782>>>>,
    <<actorFuzz11, <<715504, 404836, 687853, 715504, 404836, 687853, 715504, 404836, 687853,
        416948>>>>,
    <<actorFuzz12, <<955805>>>>,
    <<actorFuzz13, <<619715, 528509, 647852, 619715, 255314, 619715, 528509, 647852, 619715,
        255314, 619715, 528509, 647852, 391920>>>>,
    <<actorFuzz14, <<422579, 665867, 422579, 665867, 422579, 665867, 422579, 665867, 422579,
        665867, 798692>>>>,
    <<actorFuzz15, <<463317, 863528, 144528, 1000>>>>,
    <<actorFuzz16, <<488500, 436335, 838746, 488500, 437335, 838746, 488500, 438335, 838746,
        241009>>>>,
    <<actorFuzz17, <<499302>>>>,
    <<actorFuzz18, <<1000>>>>,
    <<actorFuzz19, <<217963, 928990, 833320, 981835>>>>,
    <<actorFuzz20, <<668336>>>>,
    <<actorFuzz21, <<104331, 404486>>>>,
    <<actorFuzz22, <<173342, 133654, 317492, 976956, 294563, 313661, 330816>>>>,
    <<actorFuzz23, <<803855, 187873, 107262, 129084, 193646, 124221, 336636, 823727>>>>,
    <<actorFuzz24, <<904160, 630322, 971556, 284758, 597252, 236723>>>>,
    <<actorFuzz25, <<450503, 147899, 754498, 861489>>>>,
    <<actorFuzz26, <<355765>>>>,
    <<actorFuzz27, <<863579, 567151>>>>,
    <<actorFuzz28, <<190685, 107570, 430892, 787855, 934043, 815071, 815071, 815071, 815071,
        815071, 868540, 934043, 815071, 815071, 815071, 815071, 815071, 868540, 934043,
        815071, 815071, 815071, 815071, 815071, 868540, 978175, 887701>>>>,
    <<actorFuzz29, <<121079, 1000>>>>,
    <<actorTest1, <<1, FutureVersion>>>>,
    <<actorTest3, <<3, 0>>>>,
    <<actorTest4, <<4, 0>>>>,
    <<actorTest5, <<5, 1>>>>,
    <<actorTest6, <<6, 1>>>>,
    <<actorTest7, <<7, 1>>>>,
    <<actorTest8, <<8, 1>>>>,
    <<actorTest9A, <<9, 1>>>>,
    <<actorTest10A, <<10>>>>>>

-----------------------------------------------------------------------------
CONSTANTS MaxBefore,  \* inputs sent before the actor starts (3)
          MaxLater,   \* how much later the future is completed (3)
          MaxInputs   \* bound on the inputs sent

\* What the constants have to be.
ActorMachineAssumption == MaxBefore \in Nat /\ MaxLater \in Nat /\ MaxInputs \in Nat

VARIABLES
    test,         \* the program that runs, or switchTest (0)
    before, errorBefore,
    k,            \* the frames, the innermost first
    v,            \* the actor's state variables
    status,       \* "new", "running", "input", "future", "either" or "done"
    i,            \* inputs sent
    in,           \* the input stream's queue
    fut,          \* the test's future: "unset", "set" or "failed"
    out           \* the output stream

vars == <<test, before, errorBefore, k, v, status, i, in, fut, out>>

Stmts(s) == [t |-> "stmts", s |-> s]
Program == IF test = 0 THEN switchTest ELSE Tests[test][1]

\* The future of the fuzz tests fails, those of the other tests succeed.
Completed == IF test \in 1..30 THEN "failed" ELSE "set"

Init ==
    /\ test \in 0..Len(Tests)
    /\ before \in 0..MaxBefore /\ errorBefore \in before..(before + MaxLater)
    /\ k = <<Stmts(Program)>>
    /\ v = [x \in {"caught", "inloop", "count", "bit"} |-> 0]
    /\ status = "new" /\ i = 0 /\ in = <<>> /\ fut = "unset" /\ out = <<>>

-----------------------------------------------------------------------------
(***************************************************************************)
(* Leaving statements: what remains of the stack.                          *)
(***************************************************************************)
First(t, s) == CHOOSE n \in DOMAIN s : s[n].t = t /\ \A m \in 1..(n - 1) : s[m].t # t
Has(t, s) == \E n \in DOMAIN s : s[n].t = t
From(n, s) == SubSeq(s, n, Len(s))

\* Fault: only the block of statements is left, not the try block around it.
ContinuedInTry(s) == Tail(s)

Continued(s) == From(First("loop", s), s)
Broken(s) == From(First("loop", s) + 1, s)

Thrown(s) == <<Stmts(s[First("catch", s)].h)>> \o From(First("catch", s) + 1, s)

Top == Head(k[1].s)
Rest == <<Stmts(Tail(k[1].s))>> \o Tail(k)
At(op) == status = "running" /\ k[1].t = "stmts" /\ k[1].s # <<>> /\ Top.op = op

Quiet == UNCHANGED <<test, before, errorBefore, i, fut>>

Return(x) == k' = <<>> /\ status' = "done" /\ out' = Append(out, x)

RaiseFrom(s, e) ==
    IF Has("catch", s) THEN k' = Thrown(s) /\ UNCHANGED <<status, out>> ELSE Return(e)

(***************************************************************************)
(* Statements that do not wait.                                            *)
(***************************************************************************)
Simple ==
    /\ \/ At("send") /\ k' = Rest /\ out' = Append(out, Top.x) /\ UNCHANGED <<v, status>>
       \/ At("skip") /\ k' = Rest /\ UNCHANGED <<v, status, out>>
       \/ At("set") /\ k' = Rest /\ v' = [v EXCEPT ![Top.v] = IF Top.add = 0 THEN 0 ELSE @ + 1]
          /\ UNCHANGED <<status, out>>
       \/ At("return") /\ Return(Top.x) /\ UNCHANGED v
       \/ At("throw") /\ RaiseFrom(k, Top.x) /\ UNCHANGED v
       \/ At("break") /\ k' = Broken(k) /\ UNCHANGED <<v, status, out>>
       \/ At("continue") /\ k' = Continued(k) /\ UNCHANGED <<v, status, out>>
    /\ Quiet /\ UNCHANGED in

Compound ==
    /\ \/ /\ At("if") /\ UNCHANGED v
          /\ k' = <<Stmts(IF v[Top.v] \in Top.vals THEN Top.then ELSE Top.else)>> \o Rest
       \/ /\ At("ifbit") /\ v' = [v EXCEPT !.bit = 1 - @]
          /\ k' = <<Stmts(IF v'.bit = Top.b THEN Top.then ELSE Top.else)>> \o Rest
       \/ /\ At("try") /\ UNCHANGED v
          /\ k' = <<Stmts(Top.body), [t |-> "catch", h |-> Top.handler]>> \o Rest
       \/ /\ At("loop") /\ UNCHANGED v
          /\ k' = <<[t |-> "loop", n |-> Top.n, body |-> Top.body]>> \o Rest
    /\ Quiet /\ UNCHANGED <<status, in, out>>

\* A block, a try block or one turn of a loop has ended.
EndOf ==
    /\ status = "running"
    /\ \/ k[1].t = "stmts" /\ k[1].s = <<>> /\ k' = Tail(k)
       \/ k[1].t = "catch" /\ k' = Tail(k)
       \/ k[1].t = "loop" /\ k' = IF k[1].n = 0 THEN Tail(k)
                                  ELSE <<Stmts(k[1].body), [k[1] EXCEPT !.n = @ - 1]>> \o Tail(k)
    /\ Quiet /\ UNCHANGED <<v, status, in, out>>

(***************************************************************************)
(* Statements that wait: they go on at once if they can, and otherwise     *)
(* when their callback fires.                                              *)
(***************************************************************************)
TakeInput ==
    /\ in # <<>> /\ in' = Tail(in)
    /\ status' = "running"
    /\ \/ Top.op = "input" /\ k' = Rest /\ out' = Append(out, Head(in) + Top.x)
       \/ Top.op = "take" /\ k' = Rest /\ UNCHANGED out
       \/ Top.op = "choose" /\ k' = <<Stmts(Top.onInput)>> \o Rest /\ out' = Append(out, Head(in))

TakeFuture ==
    /\ fut # "unset" /\ UNCHANGED in
    /\ \/ /\ fut = "set" /\ status' = "running" /\ UNCHANGED out
          /\ k' = IF Top.op = "choose" THEN <<Stmts(Top.onFuture)>> \o Rest ELSE Rest
       \/ /\ fut = "failed"
          /\ IF Has("catch", k)
               THEN k' = Thrown(k) /\ status' = "running" /\ UNCHANGED out
               ELSE Return(OperationFailed)

Block(s) == status' = s /\ UNCHANGED <<k, in, out>>

Waiting ==
    /\ \/ (At("input") \/ At("take")) /\ IF in # <<>> THEN TakeInput ELSE Block("input")
       \/ At("wait") /\ IF fut # "unset" THEN TakeFuture ELSE Block("future")
       \/ At("choose") /\ IF in # <<>> THEN TakeInput
                          ELSE IF fut # "unset" THEN TakeFuture ELSE Block("either")
    /\ Quiet /\ UNCHANGED v

-----------------------------------------------------------------------------
Blocked == status \in {"input", "future", "either"}

\* What an actor may wait for when something arrives on c and resumes it.
Awaiting(c) == {c, "either"}

\* Inputs, and the error, before the actor is called.
Prepare ==
    /\ status = "new" /\ i < before
    /\ i' = i + 1 /\ in' = Append(in, 1000 * i')
    /\ UNCHANGED <<test, before, errorBefore, k, v, status, fut, out>>

Start ==
    /\ status = "new" /\ i = before
    /\ fut' = IF errorBefore <= before THEN Completed ELSE fut
    /\ status' = "running"
    /\ UNCHANGED <<test, before, errorBefore, k, v, i, in, out>>

(***************************************************************************)
(* The loop of testFuzzActor: the future first, then the input; each       *)
(* resumes the actor if it waits for it.                                   *)
(***************************************************************************)
SendFuture ==
    /\ Blocked /\ i < MaxInputs /\ fut = "unset" /\ i + 1 = errorBefore
    /\ fut' = Completed
    /\ status' = IF status \in Awaiting("future") THEN "running" ELSE status
    /\ UNCHANGED <<test, before, errorBefore, k, v, i, in, out>>

SendInput ==
    /\ Blocked /\ i < MaxInputs /\ (i + 1 = errorBefore => fut # "unset")
    /\ i' = i + 1 /\ in' = Append(in, 1000 * i')
    /\ status' = IF status \in Awaiting("input") THEN "running" ELSE status
    /\ UNCHANGED <<test, before, errorBefore, k, v, fut, out>>

Next == Simple \/ Compound \/ EndOf \/ Waiting \/ Prepare \/ Start \/ SendFuture \/ SendInput

Spec == Init /\ [][Next]_vars
FairSpec == Spec /\ WF_vars(Next)

-----------------------------------------------------------------------------
(***************************************************************************)
(* switchTest prints the inputs sent before its other future is set.       *)
(***************************************************************************)
SwitchInputs == IF errorBefore <= before THEN before ELSE errorBefore - 1
ExpectedOutput ==
    IF test = 0 THEN [n \in 1..SwitchInputs |-> 1000 * n] \o <<-1, 0, 0>> ELSE Tests[test][2]

(***************************************************************************)
(* Whenever the inputs and the error arrive, before the actor starts or    *)
(* while it waits for something else, its output is a prefix of what the   *)
(* test expects, and all of it when the actor has returned.                *)
(***************************************************************************)
AsExpected ==
    /\ Len(out) <= Len(ExpectedOutput) /\ \A n \in DOMAIN out : out[n] = ExpectedOutput[n]
    /\ status = "done" => Len(out) = Len(ExpectedOutput)

(***************************************************************************)
(* Every actor has Returned in the end: none is left waiting for a callback that has gone, *)
(* and none runs for ever.                                                 *)
(***************************************************************************)
Returned == status = "done"
=============================================================================
