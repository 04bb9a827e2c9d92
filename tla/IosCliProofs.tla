---------------------------- MODULE IosCliProofs ----------------------------
(***************************************************************************)
(* Proofs about IosCli, for every set of interfaces and every backlog.     *)
(*                                                                         *)
(* That a command runs where it was asked for depends on everything the    *)
(* thread has still to execute, so the inductive invariant says of each    *)
(* instruction of the stack where the device has to be before it and where *)
(* it is after it, as one proves a sequential program: Before and After    *)
(* are the assertions, StackTyped says that they fit together from one     *)
(* instruction to the next, and HereTyped that the first of them holds of  *)
(* the device as it is now.                                                *)
(***************************************************************************)
EXTENDS IosCli, CliSessionProofs

-----------------------------------------------------------------------------
(* Places of a device: a mode, and an interface in sub-interface mode.     *)
Places == Prompts \X (Interfaces \cup {"none"})
Legal  == {q \in Places : q[1] # "subif" => q[2] = "none"}
In(modes) == {q \in Legal : q[1] \in modes}

here    == <<dev, iface>>
Asked   == <<call.mode, call.iface, call.ready>>
Trusted == link = "open" /\ ~lost

(* Where the user's command is sent by a call that asks for the mode g[1]  *)
(* and the interface g[2]: there; or, by one that asks for no mode and     *)
(* began at an empty prompt, at a prompt that does not ask for a password. *)
RunFrom(g) == IF g[1] # "none" THEN {<<g[1], g[2]>>}
              ELSE {q \in Places : g[3] => q[1] # "password"}

(* Where a line is sent by such a call: an interface line in configuration *)
(* mode only.                                                              *)
SentFrom(g, line, pats) ==
  IF pats = {"subif"}
  THEN {q \in In({"config"}) : line = g[2] /\ line \in Interfaces}
  ELSE IF line = Cmd THEN RunFrom(g) ELSE Places

(* Where the device is when one of the prompts waited for was matched.     *)
Reached(g, pats) == {q \in In(pats) : pats = {"subif"} => q[2] = g[2]}

(* Where the device is before an instruction ...                           *)
Before(g) == [x \in Frame(Ops, Lines) |->
  CASE x.op \in {"normal_from", "enable_from", "config_from"} -> In(AnyPrompt)
    [] x.op = "password" -> In({"enable", "password"})
    [] x.op = "send"     -> SentFrom(g, x.line, x.pats)
    [] OTHER             -> Places]

(* ... and after it, if it raises no exception.                            *)
After(g) == [x \in Frame(Ops, Lines) |->
  CASE x.op = "normal_from" -> In({"normal"})
    [] x.op \in {"enable_from", "password"} -> In({"enable"})
    [] x.op = "config_from" -> In({"config"})
    [] x.op \in {"open", "send", "wait"} -> Reached(g, x.pats)
    [] x.op = "check"       -> Places
    [] OTHER                -> {}]

(* Where the call may end.                                                 *)
Goal == IF call.op = "enter_mode" THEN {<<call.mode, call.iface>>} ELSE Places

-----------------------------------------------------------------------------
(* The parts of the inductive invariant.                                   *)
(* This class sends nothing without a line end.                            *)
Located == /\ ~typed
           /\ link = "open" => here \in Legal

StackTyped == Flow(Before(Asked), After(Asked), todo, Goal)

HereTyped == Trusted /\ exc = "none" /\ ~Waiting =>
               here \in Entry(Before(Asked), todo, Goal)

(* A line on its way finds the device where it has to; the prompt that     *)
(* came back tells where the device is.                                    *)
ExchangeTyped ==
  Trusted =>
    /\ Waiting /\ inq # <<>> => here \in SentFrom(Asked, inq[1].line, frame.pats)
    /\ Waiting /\ rx # <<>>  => /\ rx[1].prompt = dev
                                /\ dev \in frame.pats => here \in After(Asked)[frame]
    /\ ~Waiting => got.prompt = dev

(* The user's command is in the stack or on its way at most once, and only *)
(* before it has run; unless the device took it for something else, it has *)
(* run when it is neither.                                                 *)
IsRun(x)    == x.op = "send" /\ x.line = Cmd
RunsIn(s)   == \E j \in DOMAIN s : IsRun(s[j])
RunsLast(s) == \A j \in DOMAIN s : IsRun(s[j]) => j = Len(s) - 1
RunDue      == \E i \in DOMAIN inq : inq[i] = [line |-> Cmd, due |-> TRUE]

OneDue == /\ ~Waiting => \A i \in DOMAIN inq : ~inq[i].due
          /\ \A i, j \in DOMAIN inq : inq[i].due /\ inq[j].due => i = j

RunOnce == /\ RunsLast(todo)
           /\ RunsIn(todo) \/ RunDue => call.op = "exec_command" /\ call.runs = 0
           /\ ~(RunsIn(todo) /\ RunDue)
           /\ call.op = "exec_command" /\ call.ready /\ Trusted /\ exc = "none" =>
                RunsIn(todo) \/ RunDue \/ call.runs >= 1

CallTyped == /\ call \in CallRecord /\ iface \in Interfaces \cup {"none"}
             /\ call.op = "enter_mode" => call.mode # "none"
             /\ call.mode # "none" => call.ready

(* Only start() opens a session.                                           *)
OpenedByStart == todo # <<>> /\ frame.op = "open" => call.op = "start"

IInv == /\ SessionInv(Ops, Lines) /\ ConversationInStep /\ CallTyped /\ Located
        /\ StackTyped /\ HereTyped /\ ExchangeTyped /\ OneDue /\ RunOnce
        /\ OpenedByStart

-----------------------------------------------------------------------------
(* Instructions, their types and their assertions.                         *)

(* What every CLI sends and executes is part of this one's vocabulary.     *)
LEMMA IosVocabulary == Vocabulary(Ops, Lines)
  BY DEF Vocabulary, Ops, Lines

(* A place with a mode but no sub-interface is given by the mode.          *)
LEMMA InOne ==
  ASSUME NEW mode \in Prompts \ {"subif"}
  PROVE  In({mode}) = {<<mode, "none">>}
  BY DEF In, Legal, Places

(* Exchanges leave the device where the prompts waited for say.            *)
LEMMA SendAssertions ==
  ASSUME NEW g, NEW line \in Lines, NEW pats \in SUBSET Prompts
  PROVE  /\ Send(line, pats) \in Inner(Ops, Lines)
         /\ Before(g)[Send(line, pats)] = SentFrom(g, line, pats)
         /\ After(g)[Send(line, pats)] = Reached(g, pats)
<1>1. Send(line, pats) \in Inner(Ops, Lines)
  BY IosVocabulary, SendInner
<1>2. Send(line, pats) \in Frame(Ops, Lines)
  BY <1>1, InnerIsFrame
<1>3. /\ Send(line, pats).op = "send" /\ Send(line, pats).line = line
      /\ Send(line, pats).pats = pats
  BY DEF Send, Do
<1> QED BY <1>1, <1>2, <1>3 DEF Before, After

(* A line other than the user's command and the interface line may be sent *)
(* anywhere.                                                               *)
LEMMA PlainSend ==
  ASSUME NEW g, NEW line \in Lines \ {Cmd},
         NEW pats \in (SUBSET Prompts) \ {{"subif"}}
  PROVE  /\ Send(line, pats) \in Inner(Ops, Lines)
         /\ Before(g)[Send(line, pats)] = Places
         /\ After(g)[Send(line, pats)] = In(pats)
         /\ ~IsRun(Send(line, pats))
<1>1. SentFrom(g, line, pats) = Places
  BY DEF SentFrom
<1>2. Reached(g, pats) = In(pats)
  BY DEF Reached
<1>3. Send(line, pats).line = line
  BY DEF Send, Do
<1>4. line \in Lines /\ pats \in SUBSET Prompts
  OBVIOUS
<1>5. /\ Send(line, pats) \in Inner(Ops, Lines)
      /\ Before(g)[Send(line, pats)] = Places
      /\ After(g)[Send(line, pats)] = In(pats)
  <2>1. /\ Send(line, pats) \in Inner(Ops, Lines)
        /\ Before(g)[Send(line, pats)] = SentFrom(g, line, pats)
        /\ After(g)[Send(line, pats)] = Reached(g, pats)
    BY <1>4, SendAssertions, Zenon
  <2> QED BY <1>1, <1>2, <2>1
<1>6. ~IsRun(Send(line, pats))
  BY <1>3 DEF IsRun
<1> QED BY <1>5, <1>6

(* The instructions without operands.                                      *)
LEMMA DoAssertions ==
  ASSUME NEW g, NEW op \in Ops \ {"open", "wait", "send"}
  PROVE  /\ Do(op) \in Inner(Ops, Lines) /\ ~IsRun(Do(op))
         /\ Before(g)[Do(op)] =
              CASE op \in {"normal_from", "enable_from", "config_from"} -> In(AnyPrompt)
                [] op = "password" -> In({"enable", "password"})
                [] OTHER           -> Places
         /\ After(g)[Do(op)] =
              CASE op = "normal_from" -> In({"normal"})
                [] op \in {"enable_from", "password"} -> In({"enable"})
                [] op = "config_from" -> In({"config"})
                [] op = "check"       -> Places
                [] OTHER              -> {}
<1>1. Do(op) \in Inner(Ops, Lines)
  BY IosVocabulary, DoInner
<1>2. Do(op) \in Frame(Ops, Lines)
  BY <1>1, InnerIsFrame
<1>3. Do(op).op = op
  BY DEF Do
<1>4. Before(g)[Do(op)] =
        CASE op \in {"normal_from", "enable_from", "config_from"} -> In(AnyPrompt)
          [] op = "password" -> In({"enable", "password"})
          [] OTHER           -> Places
  BY <1>2, <1>3 DEF Before
<1>5. After(g)[Do(op)] =
        CASE op = "normal_from" -> In({"normal"})
          [] op \in {"enable_from", "password"} -> In({"enable"})
          [] op = "config_from" -> In({"config"})
          [] op = "check"       -> Places
          [] OTHER              -> {}
  BY <1>2, <1>3 DEF After
<1> QED BY <1>1, <1>3, <1>4, <1>5 DEF IsRun

(* The probe of current_cli_mode may be sent anywhere, and finds the device *)
(* in one of the modes.                                                    *)
LEMMA ProbeAssertions ==
  ASSUME NEW g
  PROVE  /\ Probe \in Inner(Ops, Lines)
         /\ Before(g)[Probe] = Places /\ After(g)[Probe] = In(AnyPrompt)
         /\ ~IsRun(Probe)
<1>1. /\ AnyPrompt \in (SUBSET Prompts) \ {{"subif"}} /\ "" \in Lines \ {Cmd}
  BY DEF AnyPrompt, Prompts, Lines, Cmd
<1> QED BY <1>1, PlainSend DEF Probe

(* exec_command's look at the output.                                      *)
LEMMA CheckAssertions ==
  ASSUME NEW g, NEW errorOk \in BOOLEAN, NEW output \in {"any", "none", "text"}
  PROVE  /\ Check(errorOk, output) \in Inner(Ops, Lines)
         /\ Before(g)[Check(errorOk, output)] = Places
         /\ After(g)[Check(errorOk, output)] = Places
         /\ ~IsRun(Check(errorOk, output))
<1>1. /\ Check(errorOk, output).op = "check"
      /\ Check(errorOk, output) \in Inner(Ops, Lines)
  BY DEF Check, Do, Inner, Frame, Prompts, Outs, Ops, Lines
<1>2. Check(errorOk, output) \in Frame(Ops, Lines)
  BY <1>1, InnerIsFrame
<1> QED BY <1>1, <1>2 DEF Before, After, IsRun

-----------------------------------------------------------------------------
(* Programs.                                                               *)
Fits(g, prog, B) == /\ prog \in Seq(Inner(Ops, Lines))
                    /\ Flow(Before(g), After(g), prog, B)
                    /\ ~RunsIn(prog)

(* One program after another runs what the two of them run.                *)
LEMMA RunsConcat ==
  ASSUME NEW S, NEW p \in Seq(S), NEW q \in Seq(S), ~RunsIn(p)
  PROVE  /\ RunsIn(p \o q) <=> RunsIn(q)
         /\ RunsLast(q) => RunsLast(p \o q)
<1> DEFINE r == p \o q
<1>1. /\ Len(p) \in Nat /\ Len(q) \in Nat /\ Len(r) = Len(p) + Len(q)
      /\ DOMAIN p = 1 .. Len(p) /\ DOMAIN q = 1 .. Len(q) /\ DOMAIN r = 1 .. Len(r)
  BY ConcatProperties
<1>2. /\ \A j \in 1 .. Len(p) : r[j] = p[j]
      /\ \A j \in 1 .. Len(q) : r[Len(p) + j] = q[j]
  BY ConcatProperties
<1> HIDE DEF r
<1>3. ASSUME NEW j \in DOMAIN q
      PROVE  Len(p) + j \in DOMAIN r /\ r[Len(p) + j] = q[j]
  BY <1>1, <1>2
<1>4. ASSUME NEW j \in DOMAIN r, IsRun(r[j])
      PROVE  j - Len(p) \in DOMAIN q /\ IsRun(q[j - Len(p)])
  <2>1. j \notin 1 .. Len(p)
    BY <1>1, <1>2, <1>4 DEF RunsIn
  <2>2. j - Len(p) \in 1 .. Len(q) /\ j = Len(p) + (j - Len(p))
    BY <1>1, <2>1
  <2> QED BY <1>1, <1>2, <1>4, <2>2
<1>5. RunsIn(r) <=> RunsIn(q)
  BY <1>3, <1>4 DEF RunsIn
<1>6. ASSUME RunsLast(q), NEW j \in DOMAIN r, IsRun(r[j])
      PROVE  j = Len(r) - 1
  <2>1. j - Len(p) = Len(q) - 1
    BY <1>4, <1>6 DEF RunsLast
  <2> QED BY <1>1, <2>1
<1> QED BY <1>5, <1>6 DEF RunsLast, r

(* The head of a stack and what is below it.                               *)
LEMMA RunsHeadTail ==
  ASSUME NEW S, NEW s \in Seq(S), s # <<>>
  PROVE  /\ RunsIn(s) <=> IsRun(Head(s)) \/ RunsIn(Tail(s))
         /\ RunsLast(s) <=> /\ IsRun(Head(s)) => Len(s) = 2
                            /\ RunsLast(Tail(s))
         /\ RunsLast(s) /\ IsRun(Head(s)) => ~RunsIn(Tail(s))
<1> DEFINE t == Tail(s)
<1>1. /\ Len(s) \in Nat /\ Len(s) >= 1 /\ DOMAIN s = 1 .. Len(s) /\ Head(s) = s[1]
  BY EmptySeq
<1>2. /\ t \in Seq(S) /\ Len(t) = Len(s) - 1 /\ DOMAIN t = 1 .. Len(t)
      /\ \A j \in 1 .. Len(t) : t[j] = s[j + 1]
  BY <1>1
<1> HIDE DEF t
<1>3. ASSUME NEW j \in DOMAIN t
      PROVE  /\ j + 1 \in DOMAIN s /\ t[j] = s[j + 1]
             /\ j = Len(t) - 1 <=> j + 1 = Len(s) - 1
  BY <1>1, <1>2
<1>4. ASSUME NEW j \in DOMAIN s, j # 1
      PROVE  j - 1 \in DOMAIN t /\ t[j - 1] = s[j]
  <2>1. j - 1 \in 1 .. Len(t) /\ (j - 1) + 1 = j
    BY <1>1, <1>2, <1>4
  <2> QED BY <1>2, <2>1
<1>5. 1 \in DOMAIN s /\ (1 = Len(s) - 1 <=> Len(s) = 2)
  BY <1>1
<1>6. RunsIn(s) <=> IsRun(Head(s)) \/ RunsIn(t)
  BY <1>1, <1>3, <1>4, <1>5 DEF RunsIn
<1>7. ASSUME RunsLast(s)
      PROVE  (IsRun(Head(s)) => Len(s) = 2) /\ RunsLast(t)
  BY <1>1, <1>3, <1>5, <1>7 DEF RunsLast
<1>8. ASSUME IsRun(Head(s)) => Len(s) = 2, RunsLast(t)
      PROVE  RunsLast(s)
  <2>1. ASSUME NEW j \in DOMAIN s, IsRun(s[j])
        PROVE  j = Len(s) - 1
    <3>1. CASE j = 1
      BY <1>1, <1>5, <1>8, <2>1, <3>1
    <3>2. CASE j # 1
      <4>1. j - 1 = Len(t) - 1
        BY <1>4, <1>8, <2>1, <3>2 DEF RunsLast
      <4> QED BY <1>1, <1>2, <4>1
    <3> QED BY <3>1, <3>2
  <2> QED BY <2>1 DEF RunsLast
<1>9. ASSUME RunsLast(s), IsRun(Head(s))
      PROVE  ~RunsIn(t)
  <2>1. Len(s) = 2 /\ Len(t) = Len(s) - 1
    BY <1>2, <1>7, <1>9
  <2> QED BY <1>2, <1>7, <1>9, <2>1 DEF RunsIn, RunsLast
<1> QED BY <1>6, <1>7, <1>8, <1>9 DEF t

(* The empty program fits anywhere.                                        *)
LEMMA FitsNone ==
  ASSUME NEW g, NEW B
  PROVE  Fits(g, <<>>, B) /\ Entry(Before(g), <<>>, B) = B
  BY FlowNone DEF Fits, RunsIn

(* A program of one inner instruction, not the user's command.             *)
LEMMA FitsOne ==
  ASSUME NEW g, NEW B, NEW a \in Inner(Ops, Lines),
         ~IsRun(a), After(g)[a] \subseteq B
  PROVE  Fits(g, <<a>>, B) /\ Entry(Before(g), <<a>>, B) = Before(g)[a]
<1>1. <<a>> \in Seq(Inner(Ops, Lines))
  BY One
<1>2. ~RunsIn(<<a>>)
  <2>1. DOMAIN <<a>> = {1} /\ <<a>>[1] = a
    OBVIOUS
  <2> QED BY <2>1 DEF RunsIn
<1>3. /\ Flow(Before(g), After(g), <<a>>, B)
      /\ Entry(Before(g), <<a>>, B) = Before(g)[a]
  BY FlowOne
<1> QED BY <1>1, <1>2, <1>3 DEF Fits

(* As FitsOne, for two instructions.                                       *)
LEMMA FitsTwo ==
  ASSUME NEW g, NEW B, NEW a \in Inner(Ops, Lines), NEW b \in Inner(Ops, Lines),
         ~IsRun(a), ~IsRun(b),
         After(g)[a] \subseteq Before(g)[b], After(g)[b] \subseteq B
  PROVE  Fits(g, <<a, b>>, B) /\ Entry(Before(g), <<a, b>>, B) = Before(g)[a]
<1>1. <<a, b>> \in Seq(Inner(Ops, Lines))
  BY Two
<1>2. ~RunsIn(<<a, b>>)
  <2>1. DOMAIN <<a, b>> = {1, 2} /\ <<a, b>>[1] = a /\ <<a, b>>[2] = b
    OBVIOUS
  <2> QED BY <2>1 DEF RunsIn
<1>3. /\ Flow(Before(g), After(g), <<a, b>>, B)
      /\ Entry(Before(g), <<a, b>>, B) = Before(g)[a]
  BY FlowTwo
<1> QED BY <1>1, <1>2, <1>3 DEF Fits

(* A program of two programs.                                              *)
LEMMA FitsConcat ==
  ASSUME NEW g, NEW B, NEW p, NEW q,
         Fits(g, p, Entry(Before(g), q, B)), Fits(g, q, B)
  PROVE  /\ Fits(g, p \o q, B)
         /\ Entry(Before(g), p \o q, B) = Entry(Before(g), p, Entry(Before(g), q, B))
<1>1. /\ p \in Seq(Inner(Ops, Lines)) /\ q \in Seq(Inner(Ops, Lines))
      /\ ~RunsIn(p) /\ ~RunsIn(q)
      /\ Flow(Before(g), After(g), p, Entry(Before(g), q, B))
      /\ Flow(Before(g), After(g), q, B)
  BY DEF Fits
<1>2. p \o q \in Seq(Inner(Ops, Lines))
  BY <1>1, ConcatProperties
<1>3. ~RunsIn(p \o q)
  BY <1>1, RunsConcat
<1>4. /\ Flow(Before(g), After(g), p \o q, B)
      /\ Entry(Before(g), p \o q, B) = Entry(Before(g), p, Entry(Before(g), q, B))
  BY <1>1, FlowConcat
<1> QED BY <1>2, <1>3, <1>4 DEF Fits

(* The disabling of paging, from the prompt the session starts with.       *)
LEMMA StartFits ==
  ASSUME NEW g
  PROVE  /\ Start \in Seq(Frame(Ops, Lines)) /\ Start # <<>>
         /\ Head(Start) = Open({"normal"}) /\ Tail(Start) = <<DisablePaging>>
         /\ Flow(Before(g), After(g), Start, Places)
         /\ Entry(Before(g), Start, Places) = Places
         /\ ~RunsIn(Start)
         /\ <<DisablePaging>> \in Seq(Inner(Ops, Lines))
<1>1. {"normal"} \in (SUBSET Prompts) \ {{"subif"}} /\ Paging \in Lines \ {Cmd}
  BY DEF Prompts, Lines, Paging, Cmd
<1>2. /\ DisablePaging \in Inner(Ops, Lines) /\ ~IsRun(DisablePaging)
      /\ Before(g)[DisablePaging] = Places /\ After(g)[DisablePaging] = In({"normal"})
  BY <1>1, PlainSend DEF DisablePaging
<1>3. Open({"normal"}) \in Frame(Ops, Lines) /\ DisablePaging \in Frame(Ops, Lines)
  BY <1>1, <1>2, IosVocabulary, WaitOpenFrame, InnerIsFrame
<1>4. Open({"normal"}).op = "open" /\ Open({"normal"}).pats = {"normal"}
  BY DEF Open, Do
<1>5. /\ After(g)[Open({"normal"})] \subseteq Places
      /\ Before(g)[Open({"normal"})] = Places
  BY <1>3, <1>4 DEF After, Before, Reached, In, Legal
<1>6. In({"normal"}) \subseteq Places
  BY DEF In, Legal
<1>7. /\ Flow(Before(g), After(g), <<Open({"normal"}), DisablePaging>>, Places)
      /\ Entry(Before(g), <<Open({"normal"}), DisablePaging>>, Places) = Places
  BY <1>2, <1>5, <1>6, FlowTwo
<1>8. ~IsRun(Open({"normal"}))
  BY <1>4 DEF IsRun
<1> DEFINE o == Open({"normal"})
<1> HIDE DEF o
<1>9. /\ <<o, DisablePaging>> # <<>> /\ Head(<<o, DisablePaging>>) = o
      /\ Tail(<<o, DisablePaging>>) = <<DisablePaging>>
      /\ DOMAIN <<o, DisablePaging>> = {1, 2}
      /\ <<o, DisablePaging>>[1] = o /\ <<o, DisablePaging>>[2] = DisablePaging
  OBVIOUS
<1>10. ~RunsIn(<<o, DisablePaging>>)
  BY <1>2, <1>8, <1>9 DEF RunsIn, o
<1>11. <<o, DisablePaging>> \in Seq(Frame(Ops, Lines))
  BY <1>3, Two DEF o
<1> QED BY <1>2, <1>7, <1>9, <1>10, <1>11, One DEF Start, o

(* current_cli_mode and the branch on what it found.                       *)
LEMMA EnterSimpleFits ==
  ASSUME NEW g, NEW op \in {"normal_from", "enable_from", "config_from"}, NEW B,
         After(g)[Do(op)] \subseteq B
  PROVE  /\ Fits(g, <<Probe, Do(op)>>, B)
         /\ Entry(Before(g), <<Probe, Do(op)>>, B) = Places
<1>1. op \in Ops \ {"open", "wait", "send"}
  BY DEF Ops
<1>2. Do(op) \in Inner(Ops, Lines) /\ ~IsRun(Do(op)) /\ Before(g)[Do(op)] = In(AnyPrompt)
  BY <1>1, DoAssertions
<1>3. /\ Probe \in Inner(Ops, Lines) /\ ~IsRun(Probe) /\ Before(g)[Probe] = Places
      /\ After(g)[Probe] \subseteq Before(g)[Do(op)]
  BY <1>2, ProbeAssertions
<1> QED BY <1>2, <1>3, FitsTwo

(* enter_mode may be called anywhere and ends at the place asked for.      *)
LEMMA EnterModeFits ==
  ASSUME NEW mode \in Modes, NEW i \in Interfaces \cup {"none"},
         mode # "subif" => i = "none",
         NEW ready, NEW g, g = <<mode, i, ready>>
  PROVE  /\ Fits(g, EnterMode(mode, i), {<<mode, i>>})
         /\ Entry(Before(g), EnterMode(mode, i), {<<mode, i>>}) = Places
<1> DEFINE p == <<mode, i>>
<1>1. g[1] = mode /\ g[2] = i
  OBVIOUS
<1>2. /\ In({"normal"}) = {<<"normal", "none">>}
      /\ In({"enable"}) = {<<"enable", "none">>}
      /\ In({"config"}) = {<<"config", "none">>}
  BY InOne DEF Prompts
<1>3. /\ After(g)[Do("normal_from")] = In({"normal"})
      /\ After(g)[Do("enable_from")] = In({"enable"})
      /\ After(g)[Do("config_from")] = In({"config"})
  BY DoAssertions DEF Ops
<1>4. CASE mode = "normal"
  BY <1>2, <1>3, <1>4, EnterSimpleFits DEF EnterMode, EnterModeNormal
<1>5. CASE mode = "enable"
  BY <1>2, <1>3, <1>5, EnterSimpleFits DEF EnterMode, EnterModeEnable
<1>6. CASE mode = "config"
  BY <1>2, <1>3, <1>6, EnterSimpleFits DEF EnterMode, EnterModeConfig
<1>7. CASE mode = "shell"
  <2>1. /\ Do("unknown_mode") \in Inner(Ops, Lines) /\ ~IsRun(Do("unknown_mode"))
        /\ Before(g)[Do("unknown_mode")] = Places /\ After(g)[Do("unknown_mode")] = {}
    BY DoAssertions DEF Ops
  <2> QED BY <1>7, <2>1, FitsOne DEF EnterMode
<1>8. CASE mode = "subif" /\ i = "none"
  <2>1. /\ Do("no_interface") \in Inner(Ops, Lines) /\ ~IsRun(Do("no_interface"))
        /\ Before(g)[Do("no_interface")] = Places /\ After(g)[Do("no_interface")] = {}
    BY DoAssertions DEF Ops
  <2> QED BY <1>8, <2>1, FitsOne DEF EnterMode, EnterModeSubif
<1>9. CASE mode = "subif" /\ i # "none"
  <2>1. /\ i \in Interfaces /\ i \in Lines /\ {"subif"} \in SUBSET Prompts /\ i # Cmd
    BY <1>9, InterfacesAssumption DEF Lines, Prompts, Cmd
  <2>2. /\ Send(i, {"subif"}) \in Inner(Ops, Lines)
        /\ Before(g)[Send(i, {"subif"})] = SentFrom(g, i, {"subif"})
        /\ After(g)[Send(i, {"subif"})] = Reached(g, {"subif"})
    BY <2>1, SendAssertions
  <2>3. SentFrom(g, i, {"subif"}) = In({"config"})
    BY <1>1, <2>1 DEF SentFrom
  <2>4. Reached(g, {"subif"}) \subseteq {p}
    BY <1>1, <1>9 DEF Reached, In, Legal, Places, p
  <2>5. ~IsRun(Send(i, {"subif"}))
    BY <2>1 DEF IsRun, Send, Do
  <2>6. /\ Fits(g, <<Send(i, {"subif"})>>, {p})
        /\ Entry(Before(g), <<Send(i, {"subif"})>>, {p}) = In({"config"})
    BY <2>2, <2>3, <2>4, <2>5, FitsOne
  <2>7. /\ Fits(g, EnterModeConfig, In({"config"}))
        /\ Entry(Before(g), EnterModeConfig, In({"config"})) = Places
    BY <1>3, EnterSimpleFits DEF EnterModeConfig
  <2>8. /\ Fits(g, EnterModeConfig \o <<Send(i, {"subif"})>>, {p})
        /\ Entry(Before(g), EnterModeConfig \o <<Send(i, {"subif"})>>, {p}) = Places
    BY <2>6, <2>7, FitsConcat
  <2>9. EnterMode(mode, i) = EnterModeConfig \o <<Send(i, {"subif"})>>
    BY <1>9 DEF EnterMode, EnterModeSubif
  <2> QED BY <2>8, <2>9 DEF p
<1> QED BY <1>4, <1>5, <1>6, <1>7, <1>8, <1>9 DEF Modes

(* exec_command runs its command once, at the place asked for.             *)
LEMMA ExecFits ==
  ASSUME NEW mode \in Modes \cup {"none"}, NEW i \in Interfaces \cup {"none"},
         mode # "subif" => i = "none",
         NEW errorOk \in BOOLEAN, NEW output \in {"any", "none", "text"},
         NEW ready, NEW g, g = <<mode, i, ready>>
  PROVE  LET prog == ExecCommand(mode, i, errorOk, output)
         IN  /\ prog \in Seq(Inner(Ops, Lines)) /\ prog # <<>>
             /\ Flow(Before(g), After(g), prog, Places)
             /\ Entry(Before(g), prog, Places) =
                  IF mode = "none" THEN RunFrom(g) ELSE Places
             /\ RunsIn(prog) /\ RunsLast(prog)
<1> DEFINE check == Check(errorOk, output)
           run   == <<Send(Cmd, AnyPrompt), check>>
           enter == IF mode = "none" THEN <<>> ELSE EnterMode(mode, i)
           first == IF mode = "none" THEN RunFrom(g) ELSE Places
<1>1. g[1] = mode /\ g[2] = i
  OBVIOUS
<1>2. AnyPrompt \in SUBSET Prompts /\ Cmd \in Lines /\ AnyPrompt # {"subif"}
  BY DEF AnyPrompt, Prompts, Lines
<1>3. /\ Send(Cmd, AnyPrompt) \in Inner(Ops, Lines)
      /\ Before(g)[Send(Cmd, AnyPrompt)] = SentFrom(g, Cmd, AnyPrompt)
      /\ After(g)[Send(Cmd, AnyPrompt)] = Reached(g, AnyPrompt)
      /\ IsRun(Send(Cmd, AnyPrompt))
  BY <1>2, SendAssertions DEF IsRun, Send, Do
<1>4. /\ check \in Inner(Ops, Lines) /\ ~IsRun(check)
      /\ Before(g)[check] = Places /\ After(g)[check] = Places
  BY CheckAssertions
<1>5. Reached(g, AnyPrompt) \subseteq Places
  BY DEF Reached, In, Legal
<1>6. /\ Flow(Before(g), After(g), run, Places)
      /\ Entry(Before(g), run, Places) = SentFrom(g, Cmd, AnyPrompt)
      /\ run \in Seq(Inner(Ops, Lines))
  <2> HIDE DEF check
  <2>1. /\ After(g)[Send(Cmd, AnyPrompt)] \subseteq Before(g)[check]
        /\ After(g)[check] \subseteq Places
    BY <1>3, <1>4, <1>5
  <2>2. run \in Seq(Inner(Ops, Lines))
    BY <1>3, <1>4, Two
  <2> QED BY <1>3, <2>1, <2>2, FlowTwo
<1>7. RunsIn(run) /\ RunsLast(run)
  <2> DEFINE send == Send(Cmd, AnyPrompt)
  <2> HIDE DEF check, send
  <2>1. /\ DOMAIN <<send, check>> = {1, 2} /\ Len(<<send, check>>) = 2
        /\ <<send, check>>[1] = send /\ <<send, check>>[2] = check
    OBVIOUS
  <2>2. IsRun(send) /\ ~IsRun(check)
    BY <1>3, <1>4 DEF send
  <2>3. RunsIn(<<send, check>>) /\ RunsLast(<<send, check>>)
    BY <2>1, <2>2 DEF RunsIn, RunsLast
  <2> QED BY <2>3 DEF send
<1>8. /\ Fits(g, enter, SentFrom(g, Cmd, AnyPrompt))
      /\ Entry(Before(g), enter, SentFrom(g, Cmd, AnyPrompt)) = first
  <2>1. SentFrom(g, Cmd, AnyPrompt) = RunFrom(g)
    BY <1>2 DEF SentFrom
  <2>2. CASE mode = "none"
    BY <2>1, <2>2, FitsNone
  <2>3. CASE mode # "none"
    <3>1. mode \in Modes
      BY <2>3
    <3>2. RunFrom(g) = {<<mode, i>>}
      BY <1>1, <2>3 DEF RunFrom
    <3>3. /\ Fits(g, EnterMode(mode, i), {<<mode, i>>})
          /\ Entry(Before(g), EnterMode(mode, i), {<<mode, i>>}) = Places
      BY <3>1, EnterModeFits
    <3> QED BY <2>1, <2>3, <3>2, <3>3
  <2> QED BY <2>2, <2>3
<1> HIDE DEF run, enter, first
<1>9. enter \in Seq(Inner(Ops, Lines)) /\ ~RunsIn(enter)
      /\ Flow(Before(g), After(g), enter, Entry(Before(g), run, Places))
  BY <1>6, <1>8 DEF Fits
<1>10. /\ enter \o run \in Seq(Inner(Ops, Lines))
       /\ enter \o run # <<>>
  <2>1. run # <<>>
    BY DEF run
  <2> QED BY <1>6, <1>9, <2>1, ConcatProperties
<1>11. RunsIn(enter \o run) /\ RunsLast(enter \o run)
  BY <1>6, <1>7, <1>9, RunsConcat
<1>12. /\ Flow(Before(g), After(g), enter \o run, Places)
       /\ Entry(Before(g), enter \o run, Places) = first
  BY <1>6, <1>8, <1>9, FlowConcat
<1>13. ExecCommand(mode, i, errorOk, output) = enter \o run
  BY DEF ExecCommand, enter, run
<1> QED BY <1>10, <1>11, <1>12, <1>13 DEF first

(* Programs, one for each mode found, that end in the mode `goal' and may  *)
(* be executed where the device was found.                                 *)
Leads(g, to, goal) ==
  \A p \in Prompts :
    /\ Fits(g, to[p], In({goal}))
    /\ \A q \in In(AnyPrompt) :
         q[1] = p => q \in Entry(Before(g), to[p], In({goal}))

(* What each enter_mode_<mode> does from the mode the probe found ends in  *)
(* the mode it is to enter, and may be done in the mode found.             *)
LEMMA TablesLead ==
  ASSUME NEW g
  PROVE  /\ Leads(g, ToNormal, "normal")
         /\ Leads(g, ToEnable, "enable")
         /\ Leads(g, ToConfig, "config")
<1> DEFINE N == Before(g)
<1>1. In(AnyPrompt) \subseteq Places
  BY DEF In, Legal
<1>2. ASSUME NEW line \in {"enable", "disable", "end", "exit", "config terminal"}
      PROVE  line \in Lines \ {Cmd}
  BY DEF Lines, Cmd
<1>3. ASSUME NEW goal \in {"normal", "enable", "config"}
      PROVE  {goal} \in (SUBSET Prompts) \ {{"subif"}}
  BY DEF Prompts
<1>4. ASSUME NEW line \in {"enable", "disable", "end", "exit", "config terminal"},
             NEW goal \in {"normal", "enable", "config"}
      PROVE  /\ Send(line, {goal}) \in Inner(Ops, Lines) /\ ~IsRun(Send(line, {goal}))
             /\ N[Send(line, {goal})] = Places
             /\ After(g)[Send(line, {goal})] = In({goal})
             /\ Fits(g, <<Send(line, {goal})>>, In({goal}))
             /\ Entry(N, <<Send(line, {goal})>>, In({goal})) = Places
  <2>1. /\ Send(line, {goal}) \in Inner(Ops, Lines) /\ ~IsRun(Send(line, {goal}))
        /\ N[Send(line, {goal})] = Places
        /\ After(g)[Send(line, {goal})] = In({goal})
    BY <1>2, <1>3, PlainSend
  <2> QED BY <2>1, FitsOne
<1>5. ASSUME NEW goal
      PROVE  /\ Fits(g, <<>>, In({goal}))
             /\ Entry(N, <<>>, In({goal})) = In({goal})
  BY FitsNone
<1>6. ASSUME NEW q \in In(AnyPrompt), NEW goal, q[1] = goal
      PROVE  q \in In({goal})
  BY <1>6 DEF In
<1>7. /\ Fits(g, <<Send("end", {"enable"}), Send("disable", {"normal"})>>, In({"normal"}))
      /\ Entry(N, <<Send("end", {"enable"}), Send("disable", {"normal"})>>,
               In({"normal"})) = Places
  <2> DEFINE a == Send("end", {"enable"})
             b == Send("disable", {"normal"})
  <2>1. In({"enable"}) \subseteq Places
    BY DEF In, Legal
  <2>2. /\ a \in Inner(Ops, Lines) /\ ~IsRun(a) /\ N[a] = Places
        /\ After(g)[a] \subseteq Places
    BY <2>1, <1>4
  <2>3. /\ b \in Inner(Ops, Lines) /\ ~IsRun(b) /\ N[b] = Places
        /\ After(g)[b] = In({"normal"})
    BY <1>4
  <2> HIDE DEF a, b
  <2>4. /\ Fits(g, <<a, b>>, In({"normal"}))
        /\ Entry(N, <<a, b>>, In({"normal"})) = Places
    BY <2>2, <2>3, FitsTwo
  <2> QED BY <2>4 DEF a, b
<1>8. /\ Fits(g, Enable, In({"enable"}))
      /\ Entry(N, Enable, In({"enable"})) = Places
  <2>1. /\ {"enable", "password"} \in (SUBSET Prompts) \ {{"subif"}}
    BY DEF Prompts
  <2>2. /\ Send("enable", {"enable", "password"}) \in Inner(Ops, Lines)
        /\ N[Send("enable", {"enable", "password"})] = Places
        /\ After(g)[Send("enable", {"enable", "password"})] = In({"enable", "password"})
        /\ ~IsRun(Send("enable", {"enable", "password"}))
    BY <1>2, <2>1, PlainSend
  <2>3. /\ Do("password") \in Inner(Ops, Lines) /\ ~IsRun(Do("password"))
        /\ N[Do("password")] = In({"enable", "password"})
        /\ After(g)[Do("password")] = In({"enable"})
    BY DoAssertions DEF Ops
  <2> QED BY <2>2, <2>3, FitsTwo DEF Enable
<1>9. /\ Fits(g, Enable \o <<Send("config terminal", {"config"})>>, In({"config"}))
      /\ Entry(N, Enable \o <<Send("config terminal", {"config"})>>, In({"config"}))
           = Places
  <2> DEFINE last == <<Send("config terminal", {"config"})>>
  <2>1. Fits(g, last, In({"config"})) /\ Entry(N, last, In({"config"})) = Places
    BY <1>4
  <2>2. Fits(g, Enable, Places) /\ Entry(N, Enable, Places) = Places
    <3>1. In({"enable"}) \subseteq Places
      BY DEF In, Legal
    <3>2. Enable # <<>> /\ Enable \in Seq(Inner(Ops, Lines))
      BY <1>8 DEF Enable, Fits
    <3>3. Entry(N, Enable, Places) = Places
      BY <1>8, <3>2 DEF Entry
    <3>4. Flow(N, After(g), Enable, Places)
      BY <1>8, <3>1, <3>2, FlowWeaken DEF Fits
    <3> QED BY <1>8, <3>3, <3>4 DEF Fits
  <2> HIDE DEF last
  <2>3. Fits(g, Enable \o last, In({"config"}))
        /\ Entry(N, Enable \o last, In({"config"})) = Places
    BY <2>1, <2>2, FitsConcat
  <2> QED BY <2>3 DEF last
<1> HIDE DEF N
<1>10. ASSUME NEW p \in Prompts, NEW q \in In(AnyPrompt), q[1] = p
       PROVE  p \in AnyPrompt
  BY <1>10 DEF In
<1>11. Leads(g, ToNormal, "normal")
  <2>1. ASSUME NEW p \in Prompts
        PROVE  /\ Fits(g, ToNormal[p], In({"normal"}))
               /\ \A q \in In(AnyPrompt) :
                    q[1] = p => q \in Entry(N, ToNormal[p], In({"normal"}))
    <3>1. CASE p = "enable"
      <4>1. ToNormal[p] = <<Send("disable", {"normal"})>>
        BY <3>1 DEF ToNormal, Prompts
      <4> QED BY <4>1, <1>1, <1>4
    <3>2. CASE p \in {"config", "subif"}
      <4>1. ToNormal[p] = <<Send("end", {"enable"}), Send("disable", {"normal"})>>
        BY <3>2 DEF ToNormal, Prompts
      <4> QED BY <4>1, <1>1, <1>7
    <3>3. CASE p \notin {"enable", "config", "subif"}
      <4>1. ToNormal[p] = <<>>
        BY <3>3 DEF ToNormal
      <4>2. ASSUME NEW q \in In(AnyPrompt), q[1] = p
            PROVE  q \in In({"normal"})
        BY <4>2, <3>3, <1>6, <1>10 DEF AnyPrompt
      <4> QED BY <4>1, <4>2, <1>5
    <3> QED BY <3>1, <3>2, <3>3
  <2> QED BY <2>1 DEF Leads, N
<1>12. Leads(g, ToEnable, "enable")
  <2>1. ASSUME NEW p \in Prompts
        PROVE  /\ Fits(g, ToEnable[p], In({"enable"}))
               /\ \A q \in In(AnyPrompt) :
                    q[1] = p => q \in Entry(N, ToEnable[p], In({"enable"}))
    <3>1. CASE p = "normal"
      <4>1. ToEnable[p] = Enable
        BY <3>1 DEF ToEnable, Prompts
      <4> QED BY <4>1, <1>1, <1>8
    <3>2. CASE p \in {"config", "subif"}
      <4>1. ToEnable[p] = <<Send("end", {"enable"})>>
        BY <3>2 DEF ToEnable, Prompts
      <4> QED BY <4>1, <1>1, <1>4
    <3>3. CASE p \notin {"normal", "config", "subif"}
      <4>1. ToEnable[p] = <<>>
        BY <3>3 DEF ToEnable
      <4>2. ASSUME NEW q \in In(AnyPrompt), q[1] = p
            PROVE  q \in In({"enable"})
        BY <4>2, <3>3, <1>6, <1>10 DEF AnyPrompt
      <4> QED BY <4>1, <4>2, <1>5
    <3> QED BY <3>1, <3>2, <3>3
  <2> QED BY <2>1 DEF Leads, N
<1>13. Leads(g, ToConfig, "config")
  <2>1. ASSUME NEW p \in Prompts
        PROVE  /\ Fits(g, ToConfig[p], In({"config"}))
               /\ \A q \in In(AnyPrompt) :
                    q[1] = p => q \in Entry(N, ToConfig[p], In({"config"}))
    <3>1. CASE p = "normal"
      <4>1. ToConfig[p] = Enable \o <<Send("config terminal", {"config"})>>
        BY <3>1 DEF ToConfig, Prompts
      <4> QED BY <4>1, <1>1, <1>9
    <3>2. CASE p = "enable"
      <4>1. ToConfig[p] = <<Send("config terminal", {"config"})>>
        BY <3>2 DEF ToConfig, Prompts
      <4> QED BY <4>1, <1>1, <1>4
    <3>3. CASE p = "subif"
      <4>1. ToConfig[p] = <<Send("exit", {"config"})>>
        BY <3>3 DEF ToConfig, Prompts
      <4> QED BY <4>1, <1>1, <1>4
    <3>4. CASE p \notin {"normal", "enable", "subif"}
      <4>1. ToConfig[p] = <<>>
        BY <3>4 DEF ToConfig
      <4>2. ASSUME NEW q \in In(AnyPrompt), q[1] = p
            PROVE  q \in In({"config"})
        BY <4>2, <3>4, <1>6, <1>10 DEF AnyPrompt
      <4> QED BY <4>1, <4>2, <1>5
    <3> QED BY <3>1, <3>2, <3>3, <3>4
  <2> QED BY <2>1 DEF Leads, N
<1> QED BY <1>11, <1>12, <1>13

-----------------------------------------------------------------------------
(* What the three ways to change the stack do to its assertions.           *)

(* The call in progress keeps what it asks for.                            *)
LEMMA CallKept ==
  ASSUME UNCHANGED call
  PROVE  Asked' = Asked /\ Goal' = Goal
  BY DEF Asked, Goal

(* What the invariant says of a stack that is not empty.                   *)
LEMMA StackFacts ==
  ASSUME IInv, todo # <<>>
  PROVE  /\ todo \in Seq(Frame(Ops, Lines)) /\ frame \in Frame(Ops, Lines)
         /\ Tail(todo) \in Seq(Inner(Ops, Lines))
         /\ Tail(todo) \in Seq(Frame(Ops, Lines))
         /\ Flow(Before(Asked), After(Asked), Tail(todo), Goal)
         /\ After(Asked)[frame] \subseteq Entry(Before(Asked), Tail(todo), Goal)
         /\ Entry(Before(Asked), todo, Goal) = Before(Asked)[frame]
         /\ RunsIn(todo) <=> IsRun(frame) \/ RunsIn(Tail(todo))
         /\ RunsLast(Tail(todo))
         /\ IsRun(frame) => ~RunsIn(Tail(todo))
<1>1. /\ todo \in Seq(Frame(Ops, Lines)) /\ frame \in Frame(Ops, Lines)
      /\ Tail(todo) \in Seq(Inner(Ops, Lines))
      /\ Tail(todo) \in Seq(Frame(Ops, Lines))
  BY HeadTyped DEF IInv, SessionInv, BaseTypeOK
<1>2. Flow(Before(Asked), After(Asked), todo, Goal) /\ RunsLast(todo)
  BY DEF IInv, StackTyped, RunOnce
<1>3. /\ Flow(Before(Asked), After(Asked), Tail(todo), Goal)
      /\ After(Asked)[frame] \subseteq Entry(Before(Asked), Tail(todo), Goal)
      /\ Entry(Before(Asked), todo, Goal) = Before(Asked)[frame]
  <2> DEFINE N == Before(Asked)
             L == After(Asked)
             G == Goal
             S == Frame(Ops, Lines)
             t == Tail(todo)
  <2>1. /\ todo \in Seq(S) /\ todo # <<>> /\ Flow(N, L, todo, G)
        /\ frame = Head(todo) /\ t = Tail(todo)
    BY <1>1, <1>2 DEF frame
  <2> HIDE DEF N, L, G, S, t
  <2>2. Flow(N, L, t, G)
    BY <2>1, FlowTail, Zenon
  <2>3. L[frame] \subseteq Entry(N, t, G)
    BY <2>1, FlowTail, Zenon
  <2>4. Entry(N, todo, G) = N[frame]
    <3>1. Head(todo) = todo[1]
      BY <2>1
    <3> QED BY <2>1, <3>1 DEF Entry
  <2> QED BY <2>2, <2>3, <2>4 DEF N, L, G, t
<1>4. /\ RunsIn(todo) <=> IsRun(frame) \/ RunsIn(Tail(todo))
      /\ RunsLast(Tail(todo))
      /\ IsRun(frame) => ~RunsIn(Tail(todo))
  BY <1>1, <1>2, RunsHeadTail DEF frame
<1> QED BY <1>1, <1>3, <1>4

(* A program takes the place of the instruction.                           *)
LEMMA ProgramStep ==
  ASSUME IInv, todo # <<>>, ~IsRun(frame), UNCHANGED call,
         NEW prog, Fits(Asked, prog, After(Asked)[frame]), Become(prog)
  PROVE  /\ StackTyped' /\ RunsLast(todo)' /\ (RunsIn(todo)' <=> RunsIn(todo))
         /\ Entry(Before(Asked), prog, After(Asked)[frame])
              \subseteq Entry(Before(Asked), todo, Goal)'
         /\ todo' \in Seq(Inner(Ops, Lines))
<1> DEFINE N == Before(Asked)
           L == After(Asked)
           T == Tail(todo)
           G == Goal
<1>1. /\ T \in Seq(Inner(Ops, Lines)) /\ Flow(N, L, T, G)
      /\ L[frame] \subseteq Entry(N, T, G)
      /\ RunsIn(todo) <=> RunsIn(T)
      /\ RunsLast(T)
  BY StackFacts
<1>2. /\ prog \in Seq(Inner(Ops, Lines)) /\ Flow(N, L, prog, L[frame]) /\ ~RunsIn(prog)
      /\ todo' = prog \o T
  BY DEF Fits, Become
<1>3. N' = N /\ L' = L /\ G' = G
  BY CallKept
<1> HIDE DEF N, L, T, G
<1>4. /\ Flow(N, L, prog, Entry(N, T, G))
      /\ Entry(N, prog, L[frame]) \subseteq Entry(N, prog, Entry(N, T, G))
  BY <1>1, <1>2, FlowWeaken
<1>5. /\ Flow(N, L, prog \o T, G)
      /\ Entry(N, prog \o T, G) = Entry(N, prog, Entry(N, T, G))
  BY <1>1, <1>2, <1>4, FlowConcat
<1>6. /\ RunsIn(prog \o T) <=> RunsIn(T)
      /\ RunsLast(prog \o T)
  BY <1>1, <1>2, RunsConcat
<1>7. prog \o T \in Seq(Inner(Ops, Lines))
  BY <1>1, <1>2, ConcatProperties
<1>8. Flow(N', L', todo', G')
  BY <1>2, <1>3, <1>5
<1>9. Entry(N, prog, L[frame]) \subseteq Entry(N', todo', G')
  BY <1>2, <1>3, <1>4, <1>5
<1>10. RunsLast(todo') /\ (RunsIn(todo') <=> RunsIn(todo)) /\ todo' \in Seq(Inner(Ops, Lines))
  BY <1>1, <1>2, <1>6, <1>7
<1> QED BY <1>8, <1>9, <1>10 DEF StackTyped, N, L, G

(* The instruction is done, or given up.                                   *)
LEMMA TailStep ==
  ASSUME IInv, todo # <<>>, UNCHANGED call, todo' = Tail(todo)
  PROVE  /\ StackTyped' /\ RunsLast(todo)' /\ (RunsIn(todo)' => RunsIn(todo))
         /\ ~IsRun(frame) => (RunsIn(todo)' <=> RunsIn(todo))
         /\ After(Asked)[frame] \subseteq Entry(Before(Asked), todo, Goal)'
         /\ todo' \in Seq(Inner(Ops, Lines))
<1> DEFINE N == Before(Asked)
           L == After(Asked)
           G == Goal
<1>1. N' = N /\ L' = L /\ G' = G
  BY CallKept
<1>2. /\ todo' \in Seq(Inner(Ops, Lines)) /\ Flow(N, L, todo', G)
      /\ L[frame] \subseteq Entry(N, todo', G)
      /\ RunsIn(todo) <=> IsRun(frame) \/ RunsIn(todo')
      /\ RunsLast(todo')
  BY StackFacts
<1> HIDE DEF N, L, G
<1>3. Flow(N', L', todo', G') /\ L[frame] \subseteq Entry(N', todo', G')
  BY <1>1, <1>2
<1> QED BY <1>2, <1>3 DEF StackTyped, N, L, G

(* An exchange goes on: the same prompts are waited for.                   *)
LEMMA WaitStep ==
  ASSUME IInv, todo # <<>>, UNCHANGED call,
         todo' \in Seq(Frame(Ops, Lines)), todo' # <<>>, Tail(todo') = Tail(todo),
         frame.op \in {"open", "send", "wait"},
         frame'.op = "wait", frame'.pats = frame.pats
  PROVE  /\ StackTyped' /\ RunsLast(todo)'
         /\ RunsIn(todo)' <=> RunsIn(Tail(todo))
         /\ After(Asked)[frame]' = Reached(Asked, frame.pats)
         /\ After(Asked)[frame] = Reached(Asked, frame.pats)
<1> DEFINE N == Before(Asked)
           L == After(Asked)
           G == Goal
           T == Tail(todo)
<1>1. N' = N /\ L' = L /\ G' = G /\ Asked' = Asked
  BY CallKept
<1>2. /\ T \in Seq(Inner(Ops, Lines)) /\ Flow(N, L, T, G)
      /\ frame \in Frame(Ops, Lines)
      /\ L[frame] \subseteq Entry(N, T, G)
      /\ RunsLast(T)
  BY StackFacts
<1>3. frame' \in Frame(Ops, Lines) /\ frame' = Head(todo')
  BY HeadTailProperties DEF frame
<1>4. L[frame] = Reached(Asked, frame.pats)
  BY <1>2 DEF After
<1>5. L[frame'] = Reached(Asked, frame.pats)
  BY <1>3 DEF After
<1>6. ~IsRun(frame')
  BY DEF IsRun
<1> HIDE DEF N, L, G, T
<1>7. Tail(todo') = T
  BY DEF T
<1>8. Flow(N, L, todo', G)
  BY <1>2, <1>3, <1>4, <1>5, <1>7, FlowHead
<1>9. /\ RunsLast(todo') /\ (RunsIn(todo') <=> RunsIn(T))
  BY <1>2, <1>3, <1>6, <1>7, RunsHeadTail
<1>10. Flow(N', L', todo', G') /\ L'[frame'] = Reached(Asked, frame.pats)
  BY <1>1, <1>5, <1>8
<1> QED BY <1>4, <1>9, <1>10 DEF StackTyped, N, L, G, T

-----------------------------------------------------------------------------
(* Steps of the thread that leave the session alone.                       *)

(* Where the device is known to be, it is somewhere.                       *)
LEMMA HereInPlaces ==
  ASSUME IInv, Trusted
  PROVE  here \in Legal /\ here \in Places
  BY DEF IInv, Located, Trusted, Legal

(* What such a step has to keep: an exception needs no assertion.          *)
LEMMA LocalStep ==
  ASSUME IInv, UNCHANGED <<wire, got, iface, call>>,
         ~Waiting \/ link # "open",
         todo' \in Seq(Inner(Ops, Lines)), exc' \in Excs \cup {"none"},
         StackTyped', RunsLast(todo)', RunsIn(todo)' => RunsIn(todo),
         exc' = "none" =>
           /\ exc = "none" /\ (RunsIn(todo) => RunsIn(todo)')
           /\ Trusted => here \in Entry(Before(Asked), todo, Goal)'
  PROVE  IInv'
<1>1. SessionInv(Ops, Lines)' /\ ~Waiting'
  BY LocalKeepsSession DEF IInv, SessionInv, BaseTypeOK
<1>2. UNCHANGED <<link, dev, typed, inq, rx, lost, got, iface, call>>
  BY DEF wire
<1>3. ConversationInStep'
  BY <1>1, <1>2 DEF IInv, ConversationInStep, Backlog
<1>4. CallTyped' /\ Located' /\ (Trusted' <=> Trusted) /\ here' = here
  BY <1>2 DEF IInv, CallTyped, Located, Trusted, here
<1>5. HereTyped'
  BY <1>4 DEF HereTyped
<1>6. ExchangeTyped'
  <2>1. Trusted => ~Waiting
    BY DEF Trusted
  <2> QED BY <1>1, <1>2, <1>4, <2>1 DEF IInv, ExchangeTyped
<1>7. OneDue'
  <2>1. ~Waiting => \A i \in DOMAIN inq : ~inq[i].due
    BY DEF IInv, OneDue
  <2>2. link # "open" => inq = <<>>
    BY DEF IInv, SessionInv, SentWhileOpen
  <2> QED BY <1>2, <2>1, <2>2 DEF OneDue
<1>8. RunOnce'
  <2>1. RunDue' <=> RunDue
    BY <1>2 DEF RunDue
  <2>2. RunOnce
    BY DEF IInv
  <2> QED BY <1>2, <1>4, <2>1, <2>2 DEF RunOnce
<1>9. OpenedByStart'
  <2>1. todo' # <<>> => frame' \in Inner(Ops, Lines)
    BY HeadTailProperties DEF frame
  <2> QED BY <2>1 DEF OpenedByStart, Inner
<1> QED BY <1>1, <1>3, <1>4, <1>5, <1>6, <1>7, <1>8, <1>9 DEF IInv

(* An exception raised, or on its way up.                                  *)
LEMMA RaiseStep ==
  ASSUME IInv, UNCHANGED <<wire, got, iface, call>>, todo # <<>>,
         ~Waiting \/ link # "open",
         todo' = Tail(todo), exc' \in Excs
  PROVE  IInv'
<1>1. /\ StackTyped' /\ RunsLast(todo)' /\ (RunsIn(todo)' => RunsIn(todo))
      /\ todo' \in Seq(Inner(Ops, Lines))
  BY TailStep
<1>2. exc' # "none"
  BY DEF Excs
<1> QED BY <1>1, <1>2, LocalStep

(* A method called: its program starts where the device is.                *)
LEMMA BecomeStep ==
  ASSUME IInv, UNCHANGED <<wire, got, iface, call, exc>>, todo # <<>>,
         ~Waiting, ~IsRun(frame),
         NEW prog, Fits(Asked, prog, After(Asked)[frame]), Become(prog),
         Trusted => here \in Entry(Before(Asked), prog, After(Asked)[frame])
  PROVE  IInv'
<1>1. /\ StackTyped' /\ RunsLast(todo)' /\ (RunsIn(todo)' <=> RunsIn(todo))
      /\ Entry(Before(Asked), prog, After(Asked)[frame])
           \subseteq Entry(Before(Asked), todo, Goal)'
      /\ todo' \in Seq(Inner(Ops, Lines))
  BY ProgramStep
<1>2. exc' \in Excs \cup {"none"} /\ exc' = exc
  BY DEF IInv, SessionInv, BaseTypeOK
<1>3. exc' = "none" =>
        /\ exc = "none" /\ (RunsIn(todo) => RunsIn(todo)')
        /\ Trusted => here \in Entry(Before(Asked), todo, Goal)'
  BY <1>1, <1>2
<1> QED BY <1>1, <1>2, <1>3, LocalStep

(* What the invariant says of the instruction being executed.              *)
LEMMA HereFacts ==
  ASSUME IInv, NEW op \in Ops \ {"wait"}, Running(op)
  PROVE  /\ todo # <<>> /\ frame \in Frame(Ops, Lines) /\ frame.op = op /\ ~Waiting
         /\ exc = "none" /\ (op # "send" => ~IsRun(frame))
         /\ Trusted => /\ here \in Before(Asked)[frame] /\ got.prompt = dev
                       /\ here \in Places
<1>1. todo # <<>> /\ frame.op = op /\ ~Waiting /\ exc = "none"
  BY DEF Running, Waiting
<1>2. /\ frame \in Frame(Ops, Lines)
      /\ Entry(Before(Asked), todo, Goal) = Before(Asked)[frame]
  BY <1>1, StackFacts
<1>3. Trusted => here \in Before(Asked)[frame] /\ got.prompt = dev
  BY <1>1, <1>2 DEF IInv, HereTyped, ExchangeTyped
<1> QED BY <1>1, <1>2, <1>3, HereInPlaces DEF IsRun

(* The branch an enter_mode_<mode> takes is the one for where the device is. *)
LEMMA GoOnStep ==
  ASSUME IInv, UNCHANGED <<iface, call>>,
         NEW op \in {"normal_from", "enable_from", "config_from"}, NEW to, NEW goal,
         GoOn(op, to), \A g : Leads(g, to, goal),
         \A g : After(g)[Do(op)] = In({goal})
  PROVE  IInv'
<1>1. /\ Running(op) /\ Become(to[got.prompt])
      /\ UNCHANGED <<wire, got, iface, call, exc>>
  BY DEF GoOn, Quiet
<1>2. op \in Ops \ {"wait"} /\ op # "send"
  BY DEF Ops
<1>3. /\ todo # <<>> /\ frame \in Frame(Ops, Lines) /\ frame.op = op /\ ~Waiting
      /\ ~IsRun(frame)
      /\ Trusted => here \in Before(Asked)[frame] /\ got.prompt = dev
  BY <1>1, <1>2, HereFacts
<1>4. After(Asked)[frame] = In({goal}) /\ Before(Asked)[frame] = In(AnyPrompt)
  <2>1. Do(op) \in Frame(Ops, Lines) /\ Do(op).op = op
    BY <1>2, DoInner, InnerIsFrame, IosVocabulary, DoAssertions DEF Do
  <2>2. After(Asked)[frame] = After(Asked)[Do(op)]
    BY <1>3, <2>1 DEF After
  <2>3. Before(Asked)[frame] = In(AnyPrompt)
    BY <1>3 DEF Before
  <2> QED BY <2>2, <2>3
<1>5. got.prompt \in Prompts
  BY DEF IInv, SessionInv, BaseTypeOK, Reply
<1>6. Leads(Asked, to, goal)
  OBVIOUS
<1>7. Fits(Asked, to[got.prompt], After(Asked)[frame])
  BY <1>4, <1>5, <1>6 DEF Leads
<1>8. ASSUME Trusted
      PROVE  here \in Entry(Before(Asked), to[got.prompt], After(Asked)[frame])
  <2>1. here \in In(AnyPrompt) /\ here[1] = got.prompt
    BY <1>3, <1>4, <1>8 DEF here
  <2> QED BY <1>4, <1>5, <1>6, <2>1 DEF Leads
<1> QED BY <1>1, <1>3, <1>7, <1>8, BecomeStep

(* _enable goes on where it is privileged.                                 *)
LEMMA PasswordStep ==
  ASSUME IInv, UNCHANGED <<iface, call>>, Password
  PROVE  IInv'
<1>1. Running("password") /\ UNCHANGED <<wire, got, iface, call>>
  BY DEF Password, Quiet
<1>2. /\ todo # <<>> /\ frame \in Frame(Ops, Lines) /\ frame.op = "password"
      /\ ~Waiting /\ ~IsRun(frame)
      /\ Trusted => here \in Before(Asked)[frame] /\ got.prompt = dev
  BY <1>1, HereFacts DEF Ops
<1>3. CASE Raise("AttributeError")
  BY <1>1, <1>2, <1>3, RaiseStep DEF Raise, Excs
<1>4. CASE got.prompt # "password" /\ Become(<<>>) /\ UNCHANGED exc
  <2>1. Before(Asked)[frame] = In({"enable", "password"})
    BY <1>2 DEF Before
  <2>2. After(Asked)[frame] = In({"enable"})
    BY <1>2 DEF After
  <2>3. ASSUME Trusted
        PROVE  here \in After(Asked)[frame]
    <3>1. here \in In({"enable", "password"}) /\ here[1] # "password"
      BY <1>2, <1>4, <2>1, <2>3 DEF here
    <3> QED BY <2>2, <3>1 DEF In
  <2> QED BY <1>1, <1>2, <1>4, <2>3, FitsNone, BecomeStep
<1> QED BY <1>3, <1>4 DEF Password

(* exec_command looks at the output, and probes the mode before it raises  *)
(* CLIError.                                                               *)
LEMMA CheckStep ==
  ASSUME IInv, UNCHANGED <<iface, call>>, CheckOutput
  PROVE  IInv'
<1>1. Running("check") /\ UNCHANGED <<wire, got, iface, call>>
  BY DEF CheckOutput, Quiet
<1>2. /\ todo # <<>> /\ frame \in Frame(Ops, Lines) /\ frame.op = "check"
      /\ ~Waiting /\ ~IsRun(frame) /\ (Trusted => here \in Places)
  BY <1>1, HereFacts DEF Ops
<1>3. After(Asked)[frame] = Places
  BY <1>2 DEF After
<1>4. CASE Raise("UnexpectedOutput")
  BY <1>1, <1>2, <1>4, RaiseStep DEF Raise, Excs
<1>5. CASE Become(<<>>) /\ UNCHANGED exc
  BY <1>1, <1>2, <1>3, <1>5, FitsNone, BecomeStep
<1>6. CASE Become(<<Probe, Do("cli_error")>>) /\ UNCHANGED exc
  <2>1. /\ Do("cli_error") \in Inner(Ops, Lines) /\ ~IsRun(Do("cli_error"))
        /\ Before(Asked)[Do("cli_error")] = Places
        /\ After(Asked)[Do("cli_error")] = {}
    BY DoAssertions DEF Ops
  <2>2. /\ Probe \in Inner(Ops, Lines) /\ ~IsRun(Probe)
        /\ Before(Asked)[Probe] = Places /\ After(Asked)[Probe] = In(AnyPrompt)
    BY ProbeAssertions
  <2>3. In(AnyPrompt) \subseteq Places
    BY DEF In, Legal
  <2>4. /\ Fits(Asked, <<Probe, Do("cli_error")>>, Places)
        /\ Entry(Before(Asked), <<Probe, Do("cli_error")>>, Places) = Places
    BY <2>1, <2>2, <2>3, FitsTwo
  <2> QED BY <1>1, <1>2, <1>3, <1>6, <2>4, BecomeStep
<1> QED BY <1>4, <1>5, <1>6 DEF CheckOutput

(* Every step of the thread between two exchanges.                         *)
LEMMA LocalKeeps ==
  ASSUME IInv, UNCHANGED call, Local
  PROVE  IInv'
<1>0. UNCHANGED iface
  BY DEF Local
<1>1. /\ \A g : After(g)[Do("normal_from")] = In({"normal"})
      /\ \A g : After(g)[Do("enable_from")] = In({"enable"})
      /\ \A g : After(g)[Do("config_from")] = In({"config"})
  BY DoAssertions DEF Ops
<1>2. CASE GoOn("normal_from", ToNormal)
  BY <1>0, <1>1, <1>2, TablesLead, GoOnStep
<1>3. CASE GoOn("enable_from", ToEnable)
  BY <1>0, <1>1, <1>3, TablesLead, GoOnStep
<1>4. CASE GoOn("config_from", ToConfig)
  BY <1>0, <1>1, <1>4, TablesLead, GoOnStep
<1>5. CASE NoInterface \/ UnknownMode \/ RaiseCliError
  <2>1. PICK op \in {"no_interface", "unknown_mode", "cli_error"},
             e \in Excs : Running(op) /\ Raise(e) /\ Quiet
    BY <1>5 DEF NoInterface, UnknownMode, RaiseCliError, Excs
  <2>2. todo # <<>> /\ ~Waiting
    BY <2>1, HereFacts DEF Ops
  <2> QED BY <1>0, <2>1, <2>2, RaiseStep DEF Raise, Quiet
<1>6. CASE Unwind
  <2>1. /\ todo # <<>> /\ ~Waiting /\ todo' = Tail(todo) /\ exc' \in Excs
        /\ UNCHANGED <<wire, got>>
    BY <1>6 DEF Unwind, Waiting, Running, Quiet, IInv, SessionInv, BaseTypeOK
  <2> QED BY <1>0, <2>1, RaiseStep
<1> QED BY <1>0, <1>2, <1>3, <1>4, <1>5, <1>6, PasswordStep, CheckStep DEF Local

-----------------------------------------------------------------------------
(* Exchanges with the device.                                              *)

(* A start() that fails leaves a session nobody relies on.                 *)
LEMMA OpenFailsStep ==
  ASSUME IInv, iface' = "none", UNCHANGED call, OpenFails
  PROVE  IInv'
<1>1. /\ SessionInv(Ops, Lines)' /\ ~Waiting' /\ exc' # "none"
      /\ link' \in {"fresh", "half"}
      /\ todo # <<>> /\ todo' = Tail(todo)
  BY OpenFailsKeeps DEF IInv
<1>2. inq' = <<>> /\ typed' = FALSE
  BY DEF OpenFails
<1>3. /\ StackTyped' /\ RunsLast(todo)' /\ (RunsIn(todo)' => RunsIn(todo))
      /\ todo' \in Seq(Inner(Ops, Lines))
  BY <1>1, TailStep
<1>4. ~Trusted' /\ CallTyped' /\ Located' /\ ConversationInStep'
  BY <1>1, <1>2 DEF IInv, Trusted, CallTyped, Located, ConversationInStep
<1>5. HereTyped' /\ ExchangeTyped' /\ OneDue'
  BY <1>2, <1>4 DEF HereTyped, ExchangeTyped, OneDue
<1>6. RunOnce'
  <2>1. ~RunDue'
    BY <1>2 DEF RunDue
  <2> QED BY <1>3, <1>4, <2>1 DEF IInv, RunOnce
<1>7. OpenedByStart'
  <2>1. todo' # <<>> => frame' \in Inner(Ops, Lines)
    BY <1>3, HeadTailProperties DEF frame
  <2> QED BY <2>1 DEF OpenedByStart, Inner
<1> QED BY <1>1, <1>3, <1>4, <1>5, <1>6, <1>7 DEF IInv

(* The device greets with the prompt of the mode it starts in.             *)
LEMMA OpenSucceedsStep ==
  ASSUME IInv, iface' = "none", UNCHANGED call, OpenSucceeds({"normal", "enable"})
  PROVE  IInv'
<1>0. {"normal", "enable"} \in SUBSET Prompts
  BY DEF Prompts
<1>1. /\ SessionInv(Ops, Lines)' /\ ConversationInStep' /\ Waiting'
      /\ link' = "open" /\ typed' = FALSE /\ dev' \in {"normal", "enable"}
      /\ exc' = "none" /\ inq' = <<>> /\ rx' # <<>> /\ rx'[1].prompt = dev'
      /\ todo # <<>> /\ todo' # <<>> /\ Tail(todo') = Tail(todo)
      /\ frame.op = "open" /\ frame' = Wait(frame.pats)
  BY <1>0, IosVocabulary, OpenSucceedsKeeps DEF IInv
<1>2. frame'.op = "wait" /\ frame'.pats = frame.pats
  BY <1>1 DEF Wait, Do
<1>3. todo' \in Seq(Frame(Ops, Lines))
  BY <1>1 DEF SessionInv, BaseTypeOK
<1>4. /\ StackTyped' /\ RunsLast(todo)'
      /\ (RunsIn(todo)' <=> RunsIn(Tail(todo)))
      /\ After(Asked)[frame]' = Reached(Asked, frame.pats)
  BY <1>1, <1>2, <1>3, WaitStep
<1>5. here' \in Legal
  BY <1>1 DEF here, Legal, Places, Prompts
<1>6. CallTyped' /\ Located'
  BY <1>1, <1>5 DEF IInv, CallTyped, Located
<1>7. HereTyped'
  BY <1>1 DEF HereTyped
<1>8. ExchangeTyped'
  <2>1. dev' \in frame.pats => here' \in Reached(Asked, frame.pats)
    BY <1>1, <1>5 DEF Reached, In, here
  <2> QED BY <1>1, <1>2, <1>4, <2>1 DEF ExchangeTyped
<1>9. OneDue'
  BY <1>1 DEF OneDue
<1>10. RunOnce'
  <2>1. ~RunDue' /\ call.op = "start"
    BY <1>1 DEF RunDue, IInv, OpenedByStart
  <2>2. RunsIn(todo)' => RunsIn(todo)
    BY <1>1, <1>4, StackFacts
  <2> QED BY <1>4, <2>1, <2>2 DEF IInv, RunOnce
<1>11. OpenedByStart'
  BY <1>2 DEF OpenedByStart
<1> QED BY <1>1, <1>4, <1>6, <1>7, <1>8, <1>9, <1>10, <1>11 DEF IInv

(* A line is sent from where the device has to be for it.                  *)
LEMMA SendSucceedsStep ==
  ASSUME IInv, UNCHANGED <<iface, call>>, SendSucceeds
  PROVE  IInv'
<1> DEFINE sent == [line |-> frame.line, due |-> TRUE]
<1>1. /\ SessionInv(Ops, Lines)' /\ ConversationInStep' /\ ~Waiting /\ Waiting'
      /\ UNCHANGED <<link, dev, typed, rx, exc, got, lost>>
      /\ link = "open" /\ exc = "none"
      /\ todo # <<>> /\ todo' # <<>> /\ Tail(todo') = Tail(todo)
      /\ frame.op = "send" /\ frame' = Wait(frame.pats)
      /\ inq' = Append(inq, sent)
  BY IosVocabulary, SendSucceedsKeeps DEF IInv
<1>2. frame'.op = "wait" /\ frame'.pats = frame.pats
  BY <1>1 DEF Wait, Do
<1>3. todo' \in Seq(Frame(Ops, Lines)) /\ inq \in Seq(Line(Lines))
  BY <1>1 DEF SessionInv, BaseTypeOK, IInv
<1>4. /\ StackTyped' /\ RunsLast(todo)'
      /\ (RunsIn(todo)' <=> RunsIn(Tail(todo)))
  BY <1>1, <1>2, <1>3, WaitStep
<1>5. sent.line = frame.line /\ sent.due /\ (sent = [line |-> Cmd, due |-> TRUE] <=> IsRun(frame))
  BY <1>1 DEF IsRun
<1> HIDE DEF sent
<1>6. /\ \A i \in DOMAIN inq' : inq'[i] = sent \/ (i \in DOMAIN inq /\ inq'[i] = inq[i])
      /\ \A i \in DOMAIN inq' : i \notin DOMAIN inq => i = Len(inq')
      /\ Len(inq') \in DOMAIN inq' /\ inq'[Len(inq')] = sent
  <2>1. inq' = Append(inq, sent)
    BY <1>1
  <2> QED BY <2>1, <1>3
<1>7. \A i \in DOMAIN inq : ~inq[i].due
  BY <1>1 DEF IInv, OneDue
<1>8. OneDue'
  BY <1>1, <1>6, <1>7 DEF OneDue
<1>9. RunDue' <=> IsRun(frame)
  BY <1>5, <1>6, <1>7 DEF RunDue
<1>10. ~RunDue
  BY <1>7 DEF RunDue
<1>11. /\ RunsIn(todo) <=> IsRun(frame) \/ RunsIn(Tail(todo))
       /\ IsRun(frame) => ~RunsIn(Tail(todo))
       /\ Entry(Before(Asked), todo, Goal) = Before(Asked)[frame]
       /\ frame \in Frame(Ops, Lines)
  BY <1>1, StackFacts
<1>12. CallTyped' /\ Located' /\ (Trusted' <=> Trusted) /\ here' = here /\ Asked' = Asked
  BY <1>1 DEF IInv, CallTyped, Located, Trusted, here, Asked
<1>13. RunOnce'
  BY <1>1, <1>4, <1>9, <1>10, <1>11, <1>12 DEF IInv, RunOnce
<1>14. HereTyped'
  BY <1>1 DEF HereTyped
<1>15. ExchangeTyped'
  <2>1. ASSUME Trusted
        PROVE  /\ inq'[1].line = frame.line /\ rx' = <<>>
               /\ here \in SentFrom(Asked, frame.line, frame.pats)
    <3>1. inq = <<>> /\ rx = <<>>
      <4>1. /\ Len(inq) \in Nat /\ Len(rx) \in Nat
            /\ (Len(inq) = 0 => inq = <<>>) /\ (Len(rx) = 0 => rx = <<>>)
        BY EmptySeq DEF IInv, SessionInv, BaseTypeOK
      <4>2. Len(inq) + Len(rx) <= 0
        BY <1>1, <2>1 DEF IInv, ConversationInStep, Backlog, Trusted
      <4> QED BY <4>1, <4>2
    <3>2. inq' = <<sent>>
      BY <1>1, <3>1
    <3>3. here \in Before(Asked)[frame]
      BY <1>1, <1>11, <2>1 DEF IInv, HereTyped
    <3> QED BY <1>1, <1>5, <1>11, <3>1, <3>2, <3>3 DEF Before
  <2> QED BY <1>1, <1>2, <1>12, <2>1 DEF ExchangeTyped
<1>16. OpenedByStart'
  BY <1>2 DEF OpenedByStart
<1> QED BY <1>1, <1>4, <1>8, <1>12, <1>13, <1>14, <1>15, <1>16 DEF IInv

(* The prompt that came back is where the device is.                       *)
LEMMA ExpectMatchStep ==
  ASSUME IInv, UNCHANGED <<iface, call>>, ExpectMatch
  PROVE  IInv'
<1>1. /\ SessionInv(Ops, Lines)' /\ ConversationInStep' /\ Waiting /\ ~Waiting'
      /\ Trusted => inq = <<>>
      /\ \A i \in DOMAIN inq' : ~inq'[i].due
      /\ UNCHANGED <<link, dev, typed, exc, lost>>
      /\ rx # <<>> /\ got'.prompt = rx[1].prompt /\ rx[1].prompt \in frame.pats
      /\ exc = "none" /\ todo # <<>> /\ todo' = Tail(todo)
  BY ExpectMatchKeeps DEF IInv, Trusted
<1>2. /\ StackTyped' /\ RunsLast(todo)'
      /\ (~IsRun(frame) => (RunsIn(todo)' <=> RunsIn(todo)))
      /\ After(Asked)[frame] \subseteq Entry(Before(Asked), todo, Goal)'
      /\ todo' \in Seq(Inner(Ops, Lines))
  BY <1>1, TailStep
<1>3. ~IsRun(frame)
  BY <1>1 DEF IsRun, Waiting, Running
<1>4. CallTyped' /\ Located' /\ (Trusted' <=> Trusted) /\ here' = here
  BY <1>1 DEF IInv, CallTyped, Located, Trusted, here
<1>5. Trusted => got'.prompt = dev /\ here \in After(Asked)[frame]
  BY <1>1 DEF IInv, ExchangeTyped
<1>6. HereTyped'
  BY <1>2, <1>4, <1>5 DEF HereTyped
<1>7. ExchangeTyped'
  BY <1>1, <1>4, <1>5 DEF ExchangeTyped
<1>8. OneDue'
  BY <1>1 DEF OneDue
<1>9. RunOnce'
  <2>1. ~RunDue' /\ (Trusted => ~RunDue)
    BY <1>1 DEF RunDue
  <2> QED BY <1>1, <1>2, <1>3, <1>4, <2>1 DEF IInv, RunOnce
<1>10. OpenedByStart'
  <2>1. todo' # <<>> => frame' \in Inner(Ops, Lines)
    BY <1>2, HeadTailProperties DEF frame
  <2> QED BY <2>1 DEF OpenedByStart, Inner
<1> QED BY <1>1, <1>2, <1>4, <1>6, <1>7, <1>8, <1>9, <1>10 DEF IInv

(* A reply to nothing that was asked leaves the exchange as it was.        *)
LEMMA ExpectMoreStep ==
  ASSUME IInv, UNCHANGED <<iface, call>>, ExpectMore
  PROVE  IInv'
<1>1. /\ SessionInv(Ops, Lines)' /\ ConversationInStep' /\ Waiting /\ Waiting'
      /\ Trusted => inq' = <<>> /\ rx' = <<>>
      /\ UNCHANGED <<link, dev, typed, inq, exc, got, lost>>
      /\ exc = "none" /\ todo # <<>> /\ todo' # <<>> /\ Tail(todo') = Tail(todo)
      /\ frame' = [frame EXCEPT !.out = frame'.out]
  BY ExpectMoreKeeps DEF IInv, Trusted
<1>2. frame.op = "wait" /\ frame \in Frame(Ops, Lines)
  BY <1>1, StackFacts DEF Waiting, Running
<1>3. frame'.op = "wait" /\ frame'.pats = frame.pats
  BY <1>1, <1>2 DEF Frame
<1>4. todo' \in Seq(Frame(Ops, Lines))
  BY <1>1 DEF SessionInv, BaseTypeOK
<1>5. /\ StackTyped' /\ RunsLast(todo)'
      /\ (RunsIn(todo)' <=> RunsIn(Tail(todo)))
  BY <1>1, <1>2, <1>3, <1>4, WaitStep
<1>6. RunsIn(todo)' <=> RunsIn(todo)
  BY <1>1, <1>2, <1>5, StackFacts DEF IsRun
<1>7. CallTyped' /\ Located' /\ (Trusted' <=> Trusted)
  BY <1>1 DEF IInv, CallTyped, Located, Trusted, here
<1>8. HereTyped'
  BY <1>1 DEF HereTyped
<1>9. ExchangeTyped'
  BY <1>1, <1>7 DEF ExchangeTyped
<1>10. OneDue'
  BY <1>1 DEF IInv, OneDue
<1>11. RunOnce'
  <2>1. RunDue' <=> RunDue
    BY <1>1 DEF RunDue
  <2> QED BY <1>1, <1>5, <1>6, <1>7, <2>1 DEF IInv, RunOnce
<1>12. OpenedByStart'
  BY <1>3 DEF OpenedByStart
<1> QED BY <1>1, <1>5, <1>7, <1>8, <1>9, <1>10, <1>11, <1>12 DEF IInv

(* A timeout ends all reliance on the session.                             *)
LEMMA ExpectTimeoutStep ==
  ASSUME IInv, UNCHANGED <<iface, call>>, ExpectTimeout
  PROVE  IInv'
<1>1. /\ SessionInv(Ops, Lines)' /\ ConversationInStep' /\ ~Waiting'
      /\ exc' # "none" /\ lost'
      /\ UNCHANGED <<link, dev, typed, got>>
      /\ \A i \in DOMAIN inq' : ~inq'[i].due
      /\ todo # <<>> /\ todo' = Tail(todo)
  BY ExpectTimeoutKeeps DEF IInv
<1>2. /\ StackTyped' /\ RunsLast(todo)' /\ (RunsIn(todo)' => RunsIn(todo))
      /\ todo' \in Seq(Inner(Ops, Lines))
  BY <1>1, TailStep
<1>3. CallTyped' /\ Located' /\ ~Trusted'
  BY <1>1 DEF IInv, CallTyped, Located, Trusted, here
<1>4. HereTyped' /\ ExchangeTyped' /\ OneDue'
  BY <1>1, <1>3 DEF HereTyped, ExchangeTyped, OneDue
<1>5. RunOnce'
  <2>1. ~RunDue'
    BY <1>1 DEF RunDue
  <2> QED BY <1>1, <1>2, <2>1 DEF IInv, RunOnce
<1>6. OpenedByStart'
  <2>1. todo' # <<>> => frame' \in Inner(Ops, Lines)
    BY <1>2, HeadTailProperties DEF frame
  <2> QED BY <2>1 DEF OpenedByStart, Inner
<1> QED BY <1>1, <1>2, <1>3, <1>4, <1>5, <1>6 DEF IInv

(* start(), as far as the greeting is on its way.                          *)
LEMMA OpeningKeeps ==
  ASSUME IInv, UNCHANGED call, Opening
  PROVE  IInv'
  BY OpenFailsStep, OpenSucceedsStep DEF Opening

(* Every step of an exchange the thread takes.                             *)
LEMMA ExchangeKeeps ==
  ASSUME IInv, UNCHANGED call, Exchange
  PROVE  IInv'
<1>0. UNCHANGED iface
  BY DEF Exchange
<1>1. CASE SendFails
  <2>1. /\ ~Waiting /\ exc' # "none" /\ UNCHANGED <<wire, got>>
        /\ todo # <<>> /\ todo' = Tail(todo) /\ exc' \in Excs \cup {"none"}
    BY <1>1, SendFailsKeeps DEF IInv, SessionInv, BaseTypeOK
  <2> QED BY <1>0, <2>1, RaiseStep
<1>2. CASE ExpectClosed
  <2>1. /\ link = "dead" /\ exc' # "none" /\ UNCHANGED <<wire, got>>
        /\ todo # <<>> /\ todo' = Tail(todo) /\ exc' \in Excs \cup {"none"}
    BY <1>2, ExpectClosedKeeps DEF IInv, SessionInv, BaseTypeOK
  <2> QED BY <1>0, <2>1, RaiseStep
<1> QED BY <1>0, <1>1, <1>2, SendSucceedsStep,
           ExpectMatchStep, ExpectMoreStep, ExpectTimeoutStep DEF Exchange, Expect

-----------------------------------------------------------------------------
(* The device and the network.                                             *)

(* Every answer of the device is one a device can give.                    *)
LEMMA EffectsTyped ==
  ASSUME NEW line
  PROVE  \A mode \in Prompts : Effects(mode, line) \subseteq Effect
<1>1. \A m \in Prompts : /\ Stay(m) \subseteq Effect /\ Refuse(m) \subseteq Effect
                         /\ Show(m) \subseteq Effect
  BY EffectParts
<1>2. {"normal", "enable", "password", "config"} \subseteq Prompts
  BY DEF Prompts
<1>3. FromNormal(line) \subseteq Effect
  BY <1>1, <1>2 DEF FromNormal
<1>4. FromEnable(line) \subseteq Effect
  BY <1>1, <1>2 DEF FromEnable
<1>5. Stay("subif") \subseteq Effect
  BY <1>1 DEF Prompts
<1>6. ASSUME NEW mode \in Prompts
      PROVE  FromConfig(mode, line) \subseteq Effect
  BY <1>1, <1>2, <1>5 DEF FromConfig
<1> QED BY <1>1, <1>2, <1>3, <1>4, <1>6 DEF Effects

(* The device enters sub-interface mode from configuration mode only on    *)
(* the line that names the interface.                                      *)
LEMMA EntersInterface ==
  ASSUME NEW line \in Interfaces, NEW e \in Effects("config", line), e.prompt = "subif"
  PROVE  e.out # "error"
<1>1. line \notin {"", "end", "exit", Cmd}
  BY InterfacesAssumption DEF Cmd
<1>2. Effects("config", line) = Stay("subif") \cup Refuse("config")
  BY <1>1 DEF Effects, FromConfig
<1> QED BY <1>2 DEF Stay, Refuse, To, Unknown

(* An answer moves the device to a place the exchange may end at.          *)
LEMMA AnswerStep ==
  ASSUME IInv, Answer
  PROVE  IInv'
<1> DEFINE line == Head(inq).line
<1>0. Effects(dev, line) \in SUBSET Effect
  BY EffectsTyped DEF IInv, SessionInv, BaseTypeOK
<1>1. /\ SessionInv(Ops, Lines)' /\ ConversationInStep' /\ (Waiting' <=> Waiting)
      /\ Trusted => Waiting /\ inq[1].due /\ inq' = <<>> /\ rx = <<>>
                      /\ rx'[1].prompt = dev' /\ Len(rx') = 1
      /\ UNCHANGED <<link, todo, exc, got, lost>>
      /\ link = "open" /\ inq # <<>> /\ inq' = Tail(inq) /\ Head(inq) = inq[1]
      /\ inq[1] \in Line(Lines)
  BY <1>0, AnswerKeeps DEF Answer, IInv, Trusted
<1>2. call' = IF RunsCommand THEN [call EXCEPT !.runs = @ + 1] ELSE call
  BY DEF Answer
<1>3. /\ call' \in CallRecord
      /\ UNCHANGED <<call.op, call.mode, call.iface, call.ready>>
      /\ RunsCommand => call'.runs = call.runs + 1
      /\ ~RunsCommand => call' = call
      /\ call.runs \in Nat
  <2>1. call \in CallRecord
    BY DEF IInv, CallTyped
  <2>2. /\ [call EXCEPT !.runs = @ + 1] \in CallRecord /\ call.runs \in Nat
        /\ [call EXCEPT !.runs = @ + 1].op = call.op
        /\ [call EXCEPT !.runs = @ + 1].mode = call.mode
        /\ [call EXCEPT !.runs = @ + 1].iface = call.iface
        /\ [call EXCEPT !.runs = @ + 1].ready = call.ready
        /\ [call EXCEPT !.runs = @ + 1].runs = call.runs + 1
    BY <2>1 DEF CallRecord
  <2>3. CASE RunsCommand
    <3>1. call' = [call EXCEPT !.runs = @ + 1]
      BY <1>2, <2>3
    <3> QED BY <2>2, <2>3, <3>1
  <2>4. CASE ~RunsCommand
    BY <1>2, <2>1, <2>2, <2>4
  <2> QED BY <2>3, <2>4
<1>4. Asked' = Asked /\ Goal' = Goal
  BY <1>3 DEF Asked, Goal
<1>5. /\ iface' \in Interfaces \cup {"none"} /\ dev' \in Prompts
      /\ dev' # "subif" => iface' = "none"
  <2>1. iface' = IF dev' # "subif" THEN "none"
                 ELSE IF line \in Interfaces /\ rx'[Len(rx')].out # "error"
                      THEN line ELSE iface
    BY DEF Answer
  <2>2. iface \in Interfaces \cup {"none"}
    BY DEF IInv, CallTyped
  <2>3. dev' \in Prompts
    BY <1>1 DEF SessionInv, BaseTypeOK
  <2> QED BY <2>1, <2>2, <2>3
<1>6. here' \in Legal
  BY <1>5 DEF here, Legal, Places
<1>15. typed' = FALSE
  BY DEF Answer, DeviceAnswers
<1>7. CallTyped' /\ Located' /\ (Trusted' <=> Trusted)
  BY <1>1, <1>3, <1>5, <1>6, <1>15 DEF IInv, CallTyped, Located, Trusted
<1>8. StackTyped'
  BY <1>1, <1>4 DEF IInv, StackTyped
<1>9. HereTyped'
  BY <1>1, <1>7 DEF HereTyped
<1>10. ExchangeTyped'
  <2>1. ASSUME Trusted, dev' \in frame.pats
        PROVE  here' \in After(Asked)[frame]
    <3>1. Waiting /\ here \in SentFrom(Asked, line, frame.pats)
      BY <1>1, <2>1 DEF IInv, ExchangeTyped
    <3>2. frame \in Frame(Ops, Lines) /\ frame.op = "wait"
      BY <3>1, StackFacts DEF Waiting, Running
    <3>3. After(Asked)[frame] = Reached(Asked, frame.pats)
      BY <3>2 DEF After
    <3>4. here' \in In(frame.pats)
      BY <1>6, <2>1 DEF In, here
    <3>5. ASSUME frame.pats = {"subif"}
          PROVE  here'[2] = Asked[2]
      <4>1. /\ here \in In({"config"}) /\ line = Asked[2] /\ line \in Interfaces
            /\ dev' = "subif"
        BY <2>1, <3>1, <3>5 DEF SentFrom
      <4>2. dev = "config"
        BY <4>1 DEF In, here
      <4>3. PICK e \in (IF typed THEN {Unknown(dev)} ELSE Effects(dev, line)) :
              /\ dev' = e.prompt
              /\ rx' = Append(rx, [prompt |-> e.prompt, out |-> e.out,
                                   due |-> Head(inq).due])
        BY DEF Answer, DeviceAnswers
      <4>4. e \in Effects("config", line) /\ e.prompt = "subif"
        BY <4>1, <4>2, <4>3 DEF Unknown
      <4>5. rx'[Len(rx')].out # "error"
        <5>1. rx'[Len(rx')] = [prompt |-> e.prompt, out |-> e.out,
                               due |-> Head(inq).due]
          BY <1>1, <2>1, <4>3
        <5> QED BY <4>1, <4>4, <5>1, EntersInterface
      <4>6. iface' = line
        BY <4>1, <4>5 DEF Answer
      <4> QED BY <4>1, <4>6 DEF here
    <3> QED BY <3>3, <3>4, <3>5 DEF Reached
  <2>2. frame' = frame
    BY <1>1 DEF frame
  <2> QED BY <1>1, <1>4, <1>7, <2>1, <2>2 DEF ExchangeTyped
<1>11. /\ DOMAIN inq = 1 .. Len(inq) /\ Len(inq) \in Nat /\ 1 \in DOMAIN inq
       /\ \A i \in DOMAIN inq' : i + 1 \in DOMAIN inq /\ inq'[i] = inq[i + 1] /\ i \in Nat
       /\ \A i \in DOMAIN inq : i # 1 => i - 1 \in DOMAIN inq' /\ inq'[i - 1] = inq[i]
       /\ \A i \in DOMAIN inq' : i + 1 # 1
       /\ \A i, j \in DOMAIN inq' : i + 1 = j + 1 => i = j
  <2>1. inq \in Seq(Line(Lines)) /\ inq # <<>> /\ inq' = Tail(inq)
    BY <1>1 DEF IInv, SessionInv, BaseTypeOK
  <2>2. /\ DOMAIN inq = 1 .. Len(inq) /\ Len(inq) \in Nat /\ Len(inq) >= 1
        /\ DOMAIN inq' = 1 .. Len(inq) - 1
        /\ \A i \in 1 .. Len(inq) - 1 : inq'[i] = inq[i + 1]
    BY <2>1
  <2>3. \A i \in DOMAIN inq : i # 1 => i - 1 \in DOMAIN inq' /\ inq'[i - 1] = inq[i]
    <3>1. ASSUME NEW i \in DOMAIN inq, i # 1
          PROVE  i - 1 \in 1 .. Len(inq) - 1 /\ (i - 1) + 1 = i
      BY <2>2, <3>1
    <3> QED BY <2>2, <3>1
  <2> QED BY <2>2, <2>3
<1>12. OneDue'
  <2>1. OneDue
    BY DEF IInv
  <2>2. ~Waiting' => \A i \in DOMAIN inq' : ~inq'[i].due
    BY <1>1, <1>11, <2>1 DEF OneDue
  <2>3. ASSUME NEW i \in DOMAIN inq', NEW j \in DOMAIN inq', inq'[i].due, inq'[j].due
        PROVE  i = j
    BY <1>11, <2>1, <2>3 DEF OneDue
  <2> QED BY <2>2, <2>3 DEF OneDue
<1>13. RunOnce'
  <2> DEFINE run == [line |-> Cmd, due |-> TRUE]
  <2>1. RunOnce /\ OneDue
    BY DEF IInv
  <2>2. CASE Head(inq) = run
    <3>1. RunDue
      BY <1>1, <1>11, <2>2 DEF RunDue
    <3>2. ~RunDue'
      <4>1. ASSUME NEW i \in DOMAIN inq', inq'[i] = run
            PROVE  FALSE
        <5>1. i + 1 = 1
          BY <1>1, <1>11, <2>1, <2>2, <4>1 DEF OneDue
        <5> QED BY <5>1, <1>11
      <4> QED BY <4>1 DEF RunDue
    <3>3. call.ready /\ Trusted => call'.runs >= 1
      <4>1. ASSUME call.ready, Trusted
            PROVE  RunsCommand
        <5>1. here \in SentFrom(Asked, Cmd, frame.pats)
          BY <1>1, <2>2, <4>1 DEF IInv, ExchangeTyped
        <5>2. here \in RunFrom(Asked)
          BY <5>1, InterfacesAssumption DEF SentFrom, Cmd
        <5>3. dev # "password" /\ ~typed
          BY <4>1, <5>2 DEF RunFrom, Asked, here, IInv, Located, CallTyped, CallRecord, Modes
        <5> QED BY <2>2, <5>3 DEF RunsCommand, AtEmptyPrompt
      <4> QED BY <1>3, <2>1, <3>1, <4>1 DEF RunOnce
    <3>4. ~RunsIn(todo) /\ todo' = todo
      BY <1>1, <2>1, <3>1 DEF RunOnce
    <3> QED BY <1>1, <1>3, <1>7, <2>1, <3>1, <3>2, <3>3, <3>4 DEF RunOnce
  <2>3. CASE Head(inq) # run
    <3>1. RunDue' <=> RunDue
      <4>1. ASSUME NEW i \in DOMAIN inq, inq[i] = run
            PROVE  RunDue'
        <5>1. i - 1 \in DOMAIN inq' /\ inq'[i - 1] = run
          BY <1>1, <1>11, <2>3, <4>1
        <5> QED BY <5>1, Zenon DEF RunDue
      <4>2. ASSUME NEW i \in DOMAIN inq', inq'[i] = run
            PROVE  RunDue
        <5>1. i + 1 \in DOMAIN inq /\ inq[i + 1] = run
          BY <1>11, <4>2
        <5> QED BY <5>1, Zenon DEF RunDue
      <4> QED BY <4>1, <4>2 DEF RunDue
    <3>2. ~RunsCommand
      BY <2>3 DEF RunsCommand
    <3> QED BY <1>1, <1>3, <1>7, <2>1, <3>1, <3>2 DEF RunOnce
  <2> QED BY <2>2, <2>3
<1>14. OpenedByStart'
  BY <1>1, <1>3 DEF IInv, OpenedByStart, frame
<1> QED BY <1>1, <1>7, <1>8, <1>9, <1>10, <1>12, <1>13, <1>14 DEF IInv

(* A lost connection takes what was under way with it.                     *)
LEMMA DropStep ==
  ASSUME IInv, UNCHANGED <<iface, call>>, Drop
  PROVE  IInv'
<1>1. /\ SessionInv(Ops, Lines)' /\ ConversationInStep'
      /\ link' = "dead" /\ inq' = <<>> /\ UNCHANGED <<todo, exc, got>>
  BY DropKeeps DEF IInv
<1>2. CallTyped' /\ Located' /\ ~Trusted'
  BY <1>1 DEF Drop, IInv, CallTyped, Located, Trusted
<1>3. StackTyped' /\ OpenedByStart'
  BY <1>1 DEF IInv, StackTyped, OpenedByStart, frame, Asked, Goal
<1>4. HereTyped' /\ ExchangeTyped' /\ OneDue'
  BY <1>1, <1>2 DEF HereTyped, ExchangeTyped, OneDue
<1>5. RunOnce'
  <2>1. ~RunDue'
    BY <1>1 DEF RunDue
  <2> QED BY <1>1, <1>2, <2>1 DEF IInv, RunOnce
<1> QED BY <1>1, <1>2, <1>3, <1>4, <1>5 DEF IInv

-----------------------------------------------------------------------------
(* The user.                                                               *)

(* A call asks for a place; its program starts wherever the device is and  *)
(* ends where the call asks for.                                           *)
LEMMA CallKeeps ==
  ASSUME IInv, NEW op, NEW mode, NEW i, NEW prog,
         Call(op, mode, i, prog), NewCall(op, mode, i) \in CallRecord,
         op = "enter_mode" => mode # "none",
         prog \in Seq(Frame(Ops, Lines)), prog # <<>>,
         Tail(prog) \in Seq(Inner(Ops, Lines)), Head(prog).op # "wait",
         Head(prog).op = "open" => op = "start",
         NEW goal, goal = IF op = "enter_mode" THEN {<<mode, i>>} ELSE Places,
         NEW g, g = <<mode, i, mode # "none" \/ AtEmptyPrompt>>,
         Flow(Before(g), After(g), prog, goal),
         Entry(Before(g), prog, goal) =
           IF op = "exec_command" /\ mode = "none" THEN RunFrom(g) ELSE Places,
         RunsLast(prog), RunsIn(prog) <=> op = "exec_command"
  PROVE  IInv'
<1>1. /\ todo = <<>> /\ todo' = prog /\ exc' = "none"
      /\ UNCHANGED <<wire, got, iface>> /\ call' = NewCall(op, mode, i)
  BY DEF Call, Idle
<1>2. UNCHANGED <<link, dev, typed, inq, rx, lost>>
  BY <1>1 DEF wire
<1>3. /\ call'.op = op /\ call'.mode = mode /\ call'.iface = i /\ call'.runs = 0
      /\ call'.ready = (mode # "none" \/ AtEmptyPrompt)
  BY <1>1 DEF NewCall
<1>4. Asked' = g /\ Goal' = goal
  BY <1>3 DEF Asked, Goal
<1>5. ~Waiting /\ ~Waiting' /\ frame' = Head(prog)
  BY <1>1 DEF Waiting, Running, frame
<1>6. SessionInv(Ops, Lines)'
  <2>1. BaseTypeOK(Ops, Lines)'
    BY <1>1, <1>2 DEF IInv, SessionInv, BaseTypeOK
  <2>2. StackShape(Ops, Lines)'
    BY <1>1, <1>2, <1>5 DEF StackShape
  <2> QED BY <1>2, <2>1, <2>2 DEF IInv, SessionInv, SentWhileOpen
<1>7. ConversationInStep'
  BY <1>2, <1>5 DEF IInv, ConversationInStep, Backlog
<1>8. CallTyped' /\ Located' /\ (Trusted' <=> Trusted) /\ here' = here
  BY <1>1, <1>2, <1>3 DEF IInv, CallTyped, Located, Trusted, here
<1>9. StackTyped'
  BY <1>1, <1>4 DEF StackTyped
<1>10. HereTyped'
  <2>1. ASSUME Trusted, mode = "none"
        PROVE  here \in RunFrom(g)
    BY <2>1, HereInPlaces DEF RunFrom, AtEmptyPrompt, here
  <2>2. Trusted => here \in Entry(Before(g), prog, goal)
    BY <2>1, HereInPlaces
  <2>3. Trusted => here \in Entry(Before(Asked'), todo', Goal')
    BY <1>1, <1>4, <2>2
  <2> QED BY <1>8, <2>3 DEF HereTyped
<1>11. ExchangeTyped'
  BY <1>1, <1>2, <1>5, <1>8 DEF IInv, ExchangeTyped
<1>12. OneDue' /\ ~RunDue'
  BY <1>2, <1>5 DEF IInv, OneDue, RunDue
<1>13. RunOnce'
  BY <1>1, <1>3, <1>12 DEF RunOnce
<1>14. OpenedByStart'
  BY <1>1, <1>3, <1>5 DEF OpenedByStart
<1> QED BY <1>6, <1>7, <1>8, <1>9, <1>10, <1>11, <1>12, <1>13, <1>14 DEF IInv

(* A program of inner instructions is one a call may start with.           *)
LEMMA InnerProgram ==
  ASSUME NEW prog \in Seq(Inner(Ops, Lines)), prog # <<>>
  PROVE  /\ prog \in Seq(Frame(Ops, Lines)) /\ Tail(prog) \in Seq(Inner(Ops, Lines))
         /\ Head(prog).op \notin {"open", "wait"}
<1>1. Head(prog) \in Inner(Ops, Lines) /\ Tail(prog) \in Seq(Inner(Ops, Lines))
  BY HeadTailProperties
<1> QED BY <1>1, InnerIsFrame DEF Inner

(* enter_mode's program is not empty and does not run the user's command.  *)
LEMMA EnterModeNotEmpty ==
  ASSUME NEW mode \in Modes, NEW i
  PROVE  EnterMode(mode, i) # <<>>
<1>1. CASE mode \in {"normal", "enable", "config", "shell"}
  BY <1>1 DEF EnterMode, EnterModeNormal, EnterModeEnable, EnterModeConfig
<1>2. CASE mode = "subif"
  <2>1. Len(EnterModeConfig \o <<Send(i, {"subif"})>>) = 3
    BY DEF EnterModeConfig
  <2> QED BY <1>2, <2>1 DEF EnterMode, EnterModeSubif
<1> QED BY <1>1, <1>2 DEF Modes

(* Every call of the user, and exit.                                       *)
LEMMA UserKeeps ==
  ASSUME IInv, User
  PROVE  IInv'
<1>1. CASE CallStart
  <2> DEFINE g == <<"none", "none", "none" # "none" \/ AtEmptyPrompt>>
  <2>1. Call("start", "none", "none", Start)
    BY <1>1 DEF CallStart
  <2>2. /\ Start \in Seq(Frame(Ops, Lines)) /\ Start # <<>>
        /\ Head(Start) = Open({"normal"}) /\ Tail(Start) = <<DisablePaging>>
        /\ Flow(Before(g), After(g), Start, Places)
        /\ Entry(Before(g), Start, Places) = Places
        /\ ~RunsIn(Start)
        /\ <<DisablePaging>> \in Seq(Inner(Ops, Lines))
    BY StartFits
  <2>3. NewCall("start", "none", "none") \in CallRecord
    BY DEF NewCall, CallRecord, AtEmptyPrompt
  <2>4. Head(Start).op = "open" /\ Tail(Start) \in Seq(Inner(Ops, Lines))
    BY <2>2 DEF Open, Do
  <2>5. RunsLast(Start)
    BY <2>2 DEF RunsIn, RunsLast
  <2> QED BY <2>1, <2>2, <2>3, <2>4, <2>5, CallKeeps
<1>2. CASE CallEnterMode
  <2>1. PICK mode \in Modes, i \in Interfaces \cup {"none"} :
          /\ mode # "subif" => i = "none"
          /\ Call("enter_mode", mode, i, EnterMode(mode, i))
    BY <1>2 DEF CallEnterMode
  <2> DEFINE prog == EnterMode(mode, i)
             g    == <<mode, i, mode # "none" \/ AtEmptyPrompt>>
  <2>2. /\ Fits(g, prog, {<<mode, i>>})
        /\ Entry(Before(g), prog, {<<mode, i>>}) = Places
    BY <2>1, EnterModeFits
  <2>3. /\ prog \in Seq(Inner(Ops, Lines)) /\ ~RunsIn(prog) /\ prog # <<>>
        /\ Flow(Before(g), After(g), prog, {<<mode, i>>})
    BY <2>2, EnterModeNotEmpty DEF Fits
  <2>4. NewCall("enter_mode", mode, i) \in CallRecord /\ mode # "none"
    BY DEF NewCall, CallRecord, Modes, AtEmptyPrompt
  <2>5. RunsLast(prog)
    BY <2>3 DEF RunsIn, RunsLast
  <2> HIDE DEF prog
  <2>6. Call("enter_mode", mode, i, prog)
    BY <2>1 DEF prog
  <2>7. /\ prog \in Seq(Frame(Ops, Lines)) /\ Tail(prog) \in Seq(Inner(Ops, Lines))
        /\ Head(prog).op \notin {"open", "wait"}
    BY <2>3, InnerProgram
  <2>8. g = <<mode, i, mode # "none" \/ AtEmptyPrompt>>
    OBVIOUS
  <2> HIDE DEF g
  <2> QED BY <2>2, <2>3, <2>4, <2>5, <2>6, <2>7, <2>8, CallKeeps
<1>3. CASE CallExecCommand
  <2>1. PICK mode \in (Modes \ {"shell"}) \cup {"none"},
             i \in Interfaces \cup {"none"}, errorOk \in BOOLEAN,
             output \in {"any", "none", "text"} :
          /\ mode # "subif" => i = "none"
          /\ Call("exec_command", mode, i, ExecCommand(mode, i, errorOk, output))
    BY <1>3 DEF CallExecCommand
  <2> DEFINE prog == ExecCommand(mode, i, errorOk, output)
             g    == <<mode, i, mode # "none" \/ AtEmptyPrompt>>
  <2>2. /\ prog \in Seq(Inner(Ops, Lines)) /\ prog # <<>>
        /\ Flow(Before(g), After(g), prog, Places)
        /\ Entry(Before(g), prog, Places) = IF mode = "none" THEN RunFrom(g) ELSE Places
        /\ RunsIn(prog) /\ RunsLast(prog)
    BY <2>1, ExecFits
  <2>3. NewCall("exec_command", mode, i) \in CallRecord
    BY DEF NewCall, CallRecord, Modes, AtEmptyPrompt
  <2> HIDE DEF prog
  <2>4. Call("exec_command", mode, i, prog)
    BY <2>1 DEF prog
  <2>5. /\ prog \in Seq(Frame(Ops, Lines)) /\ Tail(prog) \in Seq(Inner(Ops, Lines))
        /\ Head(prog).op \notin {"open", "wait"}
    BY <2>2, InnerProgram
  <2>6. g = <<mode, i, mode # "none" \/ AtEmptyPrompt>>
    OBVIOUS
  <2> HIDE DEF g
  <2> QED BY <2>2, <2>3, <2>4, <2>5, <2>6, CallKeeps
<1>4. CASE Exit
  <2>1. /\ todo' = <<>> /\ exc' = "none" /\ got' = got /\ link' = "none"
        /\ inq' = <<>> /\ typed' = FALSE /\ iface' = "none" /\ CleanupHelper
        /\ call' = NewCall("exit", "none", "none")
    BY <1>4 DEF Exit, Idle, CleanupHelper
  <2>2. SessionInv(Ops, Lines)'
    <3>1. todo' \in Seq(Frame(Ops, Lines)) /\ StackShape(Ops, Lines)'
      BY <2>1 DEF StackShape
    <3> QED BY <2>1, <3>1, CleanupKeepsSession DEF IInv, SessionInv, BaseTypeOK
  <2>3. /\ NewCall("exit", "none", "none") \in CallRecord
        /\ NewCall("exit", "none", "none").op = "exit"
        /\ NewCall("exit", "none", "none").mode = "none"
    BY DEF NewCall, CallRecord, AtEmptyPrompt
  <2>4. CallTyped' /\ Located' /\ ~Trusted' /\ ConversationInStep'
    BY <2>1, <2>3 DEF CallTyped, Located, Trusted, ConversationInStep
  <2>5. HereTyped' /\ ExchangeTyped' /\ OneDue' /\ StackTyped' /\ OpenedByStart'
    BY <2>1, <2>4 DEF HereTyped, ExchangeTyped, OneDue, StackTyped, Flow, OpenedByStart
  <2>6. RunOnce'
    BY <2>1, <2>3 DEF RunOnce, RunsIn, RunsLast, RunDue
  <2> QED BY <2>2, <2>4, <2>5, <2>6 DEF IInv
<1> QED BY <1>1, <1>2, <1>3, <1>4 DEF User

-----------------------------------------------------------------------------
(* The invariant holds in every state of every behaviour.                  *)

(* Before the first call.                                                  *)
LEMMA InitIInv == Init => IInv
<1> SUFFICES ASSUME Init PROVE IInv
  OBVIOUS
<1>1. /\ link = "none" /\ dev = "shell" /\ typed = FALSE /\ inq = <<>> /\ rx = <<>>
      /\ lost = FALSE /\ todo = <<>> /\ exc = "none"
      /\ got = [prompt |-> "shell", out |-> "none", due |-> TRUE]
      /\ iface = "none" /\ call = NewCall("none", "none", "none")
  BY DEF Init, BaseInit, NoSession
<1>2. SessionInv(Ops, Lines)
  <2>1. got \in Reply
    BY <1>1 DEF Reply, Prompts, Outs
  <2>2. inq \in Seq(Line(Lines)) /\ rx \in Seq(Reply) /\ todo \in Seq(Frame(Ops, Lines))
    BY <1>1
  <2>3. BaseTypeOK(Ops, Lines)
    BY <1>1, <2>1, <2>2 DEF BaseTypeOK, Links, Prompts
  <2> QED BY <1>1, <2>3 DEF SessionInv, StackShape, SentWhileOpen
<1>3. call \in CallRecord /\ call.op = "none" /\ call.mode = "none"
  BY <1>1 DEF NewCall, CallRecord, AtEmptyPrompt
<1>4. CallTyped /\ Located /\ ~Trusted /\ ConversationInStep
  BY <1>1, <1>3 DEF CallTyped, Located, Trusted, ConversationInStep
<1>5. HereTyped /\ ExchangeTyped /\ OneDue /\ StackTyped /\ OpenedByStart
  BY <1>1, <1>4 DEF HereTyped, ExchangeTyped, OneDue, StackTyped, Flow, OpenedByStart
<1>6. RunOnce
  BY <1>1, <1>3 DEF RunOnce, RunsIn, RunsLast, RunDue
<1> QED BY <1>2, <1>4, <1>5, <1>6 DEF IInv

(* When nothing happens.                                                   *)
LEMMA StutterIInv == IInv /\ UNCHANGED vars => IInv'
<1> SUFFICES ASSUME IInv, UNCHANGED vars PROVE IInv'
  OBVIOUS
<1>1. UNCHANGED <<link, dev, typed, inq, rx, lost, todo, exc, got, iface, call>>
  BY DEF vars, baseVars, wire
<1>2. UNCHANGED <<Waiting, frame, Asked, Goal, here, Trusted, RunDue, Backlog>>
  BY <1>1 DEF Waiting, Running, frame, Asked, Goal, here, Trusted, RunDue, Backlog
<1>3. SessionInv(Ops, Lines)'
  BY <1>1, <1>2 DEF IInv, SessionInv, BaseTypeOK, StackShape, SentWhileOpen
<1>4. /\ ConversationInStep' /\ CallTyped' /\ Located' /\ StackTyped' /\ HereTyped'
      /\ OpenedByStart'
  BY <1>1, <1>2 DEF IInv, ConversationInStep, CallTyped, Located, StackTyped, HereTyped,
                    OpenedByStart
<1>5. ExchangeTyped' /\ OneDue' /\ RunOnce'
  BY <1>1, <1>2 DEF IInv, ExchangeTyped, OneDue, RunOnce
<1> QED BY <1>3, <1>4, <1>5 DEF IInv

(* Every step of the user, the thread, the device and the network.         *)
LEMMA NextIInv == IInv /\ Next => IInv'
<1> SUFFICES ASSUME IInv, Next PROVE IInv'
  OBVIOUS
<1> QED BY UserKeeps, OpeningKeeps, ExchangeKeeps, LocalKeeps, AnswerStep, DropStep
    DEF Next, Client

(* At every point of every call the assertions of all that is left to do   *)
(* fit together, and the next one holds of the device.                     *)
THEOREM Invariance == Spec => []IInv
<1>1. IInv /\ [Next]_vars => IInv'
  BY NextIInv, StutterIInv
<1> QED BY <1>1, InitIInv, PTL DEF Spec

-----------------------------------------------------------------------------
(* What the invariant shows.                                               *)

(* The variables always have their types: no method is called on what is   *)
(* not there, and the stack never holds anything but instructions.         *)
THEOREM TypeCorrect == Spec => []TypeOK
<1>1. IInv => TypeOK
  BY DEF IInv, SessionInv, CallTyped, TypeOK
<1> QED BY <1>1, Invariance, PTL

(* On a session where no answer was given up, the reply the thread waits   *)
(* for is the only one outstanding, and it is the one to its line.         *)
THEOREM InStep == Spec => []ConversationInStep
<1>1. IInv => ConversationInStep
  BY DEF IInv
<1> QED BY <1>1, Invariance, PTL

(* enter_mode returns only in the mode asked for, on the interface asked   *)
(* for.                                                                    *)
THEOREM Lands == Spec => []EnterModeLands
<1>1. IInv => EnterModeLands
  <2> SUFFICES ASSUME IInv, Idle, exc = "none", call.op = "enter_mode",
                      link = "open", ~lost
               PROVE  dev = call.mode /\ iface = call.iface
    BY DEF EnterModeLands
  <2>1. Trusted /\ ~Waiting /\ todo = <<>>
    BY DEF Trusted, Waiting, Running, Idle
  <2>2. here \in Entry(Before(Asked), todo, Goal)
    BY <2>1 DEF IInv, HereTyped
  <2>3. here \in {<<call.mode, call.iface>>}
    BY <2>1, <2>2 DEF Entry, Goal
  <2> QED BY <2>3 DEF here
<1> QED BY <1>1, Invariance, PTL

(* How often the command ran changes only when the device answers it.      *)
LEMMA RunsOnAnswer ==
  ASSUME IInv, [Next]_vars, call'.runs = call.runs + 1
  PROVE  Answer /\ RunsCommand
<1>0. call.runs \in Nat
  BY DEF IInv, CallTyped, CallRecord
<1>1. call' # call
  BY <1>0
<1>2. call'.runs # 0
  BY <1>0
<1>3. ~UNCHANGED vars
  BY <1>1 DEF vars
<1>4. \A op, mode, i, prog : ~Call(op, mode, i, prog)
  BY <1>2 DEF Call, NewCall
<1>5. ~User
  BY <1>2, <1>4 DEF User, CallStart, CallEnterMode, CallExecCommand, Exit, NewCall
<1>6. Answer
  BY <1>1, <1>3, <1>5 DEF Next, Client
<1> QED BY <1>1, <1>6 DEF Answer

(* Where the device is when it runs the command of a call in progress.     *)
LEMMA RunsWhereSent ==
  ASSUME IInv, Trusted, Answer, RunsCommand
  PROVE  /\ todo # <<>> /\ here \in Places
         /\ call.mode # "none" => here = <<call.mode, call.iface>>
<1>0. Effects(dev, Head(inq).line) \in SUBSET Effect
  BY EffectsTyped DEF IInv, SessionInv, BaseTypeOK
<1>1. Waiting /\ Head(inq) = inq[1] /\ inq # <<>>
  BY <1>0, AnswerKeeps DEF Answer, IInv, Trusted
<1>2. inq[1].line = Cmd
  BY <1>1 DEF RunsCommand
<1>3. here \in SentFrom(Asked, Cmd, frame.pats)
  BY <1>1, <1>2 DEF IInv, ExchangeTyped
<1>4. Cmd \notin Interfaces
  BY InterfacesAssumption DEF Cmd
<1>5. call.mode # "none" => here = <<call.mode, call.iface>>
  BY <1>3, <1>4 DEF SentFrom, RunFrom, Asked
<1>6. todo # <<>> /\ here \in Places
  BY <1>1, HereInPlaces DEF Waiting, Running
<1> QED BY <1>5, <1>6

(* The device runs the user's command in the mode and on the interface the *)
(* call asked for.                                                         *)
THEOREM RunsWhereAsked == Spec => CommandInRequestedMode
<1>1. ASSUME IInv, [Next]_vars
      PROVE  call'.runs = call.runs + 1 /\ ~lost /\ call.mode # "none"
               => dev = call.mode /\ iface = call.iface
  <2> SUFFICES ASSUME call'.runs = call.runs + 1, ~lost, call.mode # "none"
               PROVE  dev = call.mode /\ iface = call.iface
    OBVIOUS
  <2>1. Answer /\ RunsCommand
    BY <1>1, RunsOnAnswer
  <2>2. Trusted
    BY <2>1 DEF Answer, Trusted
  <2>3. here = <<call.mode, call.iface>>
    BY <1>1, <2>1, <2>2, RunsWhereSent
  <2> QED BY <2>3 DEF here
<1> QED BY <1>1, Invariance, PTL DEF Spec, CommandInRequestedMode

-----------------------------------------------------------------------------
(* The class keeps the promise of CliService.                              *)

(* The first state promises nothing.                                       *)
LEMMA ServiceInit == Init => Service!Init
<1> SUFFICES ASSUME Init PROVE Service!Init
  OBVIOUS
<1>1. /\ link = "none" /\ dev = "shell" /\ todo = <<>> /\ exc = "none"
      /\ iface = "none" /\ call = NewCall("none", "none", "none")
  BY DEF Init, BaseInit, NoSession
<1>2. Phase = "ok" /\ AtEmptyPrompt \in BOOLEAN
  BY <1>1 DEF Phase, AtEmptyPrompt
<1>3. Request = [kind |-> "other", goal |-> Prompts \X (Interfaces \cup {"none"}),
                 ready |-> AtEmptyPrompt, runs |-> 0, retried |-> FALSE]
  BY <1>1 DEF Request, NewCall, AtEmptyPrompt
<1>4. <<dev, iface>> \in Prompts \X (Interfaces \cup {"none"})
  BY <1>1 DEF Prompts
<1> QED BY <1>1, <1>2, <1>3, <1>4 DEF Service!Init, Service!Call

(* The device is always at one of the places.                              *)
LEMMA AtPlace ==
  ASSUME IInv'
  PROVE  Service!Anywhere
<1>1. <<dev, iface>>' \in Prompts \X (Interfaces \cup {"none"})
  BY DEF IInv, SessionInv, BaseTypeOK, CallTyped
<1>2. AtEmptyPrompt' \in BOOLEAN
  BY DEF AtEmptyPrompt
<1> QED BY <1>1, <1>2 DEF Service!Anywhere

(* A call that returns has done what it was to do.                         *)
LEMMA ReturnKeeps ==
  ASSUME IInv', todo' = <<>>, exc' = "none", Trusted'
  PROVE  /\ Request'.kind = "enter" => <<dev, iface>>' \in Request'.goal
         /\ Request'.kind = "exec"  => (Request'.ready => Request'.runs >= 1)
<1>1. ~Waiting' /\ ~RunsIn(todo)'
  BY DEF Waiting, Running, RunsIn
<1>2. ~RunDue'
  BY <1>1 DEF IInv, OneDue, RunDue
<1>3. ASSUME call'.op = "enter_mode"
      PROVE  <<dev, iface>>' \in Request'.goal
  <2>1. here' \in Entry(Before(Asked), todo, Goal)'
    BY <1>1 DEF IInv, HereTyped
  <2>2. here' = <<call.mode, call.iface>>'
    BY <1>3, <2>1 DEF Entry, Goal
  <2>3. Request'.goal = {<<call.mode, call.iface>>'}
    BY <1>3 DEF IInv, CallTyped, Request
  <2> QED BY <2>2, <2>3 DEF here
<1>4. ASSUME call'.op = "exec_command", Request'.ready
      PROVE  Request'.runs >= 1
  <2>0. call'.ready
    BY <1>4 DEF Request
  <2>1. call'.runs >= 1
    BY <2>0, <1>1, <1>2, <1>4 DEF IInv, RunOnce
  <2> QED BY <2>1 DEF Request
<1>5. /\ Request'.kind = "enter" => call'.op = "enter_mode"
      /\ Request'.kind = "exec" => call'.op = "exec_command"
  BY DEF Request
<1> QED BY <1>3, <1>4, <1>5

(* A step of the thread that leaves the device where it is, or gives up on *)
(* the session, ends the call or shows nothing.                            *)
LEMMA ThreadServes ==
  ASSUME IInv, IInv', UNCHANGED call, todo # <<>>,
         UNCHANGED <<link, dev, typed, lost, iface>> \/ ~Trusted'
  PROVE  [Service!Next]_(Service!vars)
<1>1. Request' = Request /\ Phase = "busy" /\ Service!Anywhere
  <2>1. Request' = Request
    BY DEF Request
  <2>2. Phase = "busy"
    BY DEF Phase
  <2> QED BY <2>1, <2>2, AtPlace
<1>2. \/ UNCHANGED <<Service!here, (link = "open" /\ ~lost)>>
      \/ ~(link = "open" /\ ~lost)' /\ Service!Anywhere
  BY <1>1 DEF Trusted, Service!here, AtEmptyPrompt
<1>3. CASE todo' # <<>>
  <2>1. Phase' = Phase
    BY <1>1, <1>3 DEF Phase
  <2> QED BY <1>1, <1>2, <2>1 DEF Service!vars, Service!Next, Service!Lose
<1>4. CASE todo' = <<>>
  <2>1. Phase' \in {"ok", "failed"} /\ (Phase' = "ok" => exc' = "none")
    BY <1>4 DEF Phase
  <2>2. ASSUME Phase' = "ok", (link = "open" /\ ~lost)'
        PROVE  /\ Request.kind = "enter" => <<dev, iface>> \in Request.goal
               /\ Request.kind = "exec"  => (Request.ready => Request.runs >= 1)
    <3>1. Trusted' /\ UNCHANGED <<link, dev, lost, iface>>
      BY <2>2 DEF Trusted
    <3>2. /\ Request'.kind = "enter" => <<dev, iface>>' \in Request'.goal
          /\ Request'.kind = "exec"  => (Request'.ready => Request'.runs >= 1)
      BY <1>4, <2>1, <2>2, <3>1, ReturnKeeps
    <3> QED BY <1>1, <3>1, <3>2
  <2>3. Service!KeepOrLose
    BY <1>2 DEF Service!KeepOrLose
  <2>4. Phase' = "ok" /\ (link = "open" /\ ~lost)' => Service!Kept
    BY <2>2 DEF Service!Kept
  <2>5. Service!Return
    BY <1>1, <2>1, <2>3, <2>4 DEF Service!Return
  <2> QED BY <2>5 DEF Service!Next
<1> QED BY <1>3, <1>4

(* Every step of the thread.                                               *)
LEMMA ClientServes ==
  ASSUME IInv, IInv', Client
  PROVE  [Service!Next]_(Service!vars)
<1>0. UNCHANGED call
  BY DEF Client
<1>1. CASE Local
  <2>1. Quiet /\ todo # <<>> /\ UNCHANGED iface
    BY <1>1 DEF Local, GoOn, Password, NoInterface, UnknownMode, CheckOutput,
                RaiseCliError, Unwind, Running
  <2>2. UNCHANGED <<link, dev, typed, lost>>
    BY <2>1 DEF Quiet, wire
  <2> QED BY <1>0, <2>1, <2>2, ThreadServes
<1>2. CASE OpenFails
  <2>1. todo # <<>> /\ ~Trusted'
    BY <1>2, OpenFailsKeeps DEF IInv, Trusted
  <2> QED BY <1>0, <2>1, ThreadServes
<1>3. CASE OpenSucceeds({"normal", "enable"})
  <2>1. todo # <<>> /\ link' = "open" /\ todo' # <<>>
    <3>1. {"normal", "enable"} \in SUBSET Prompts
      BY DEF Prompts
    <3> QED BY <1>3, <3>1, IosVocabulary, OpenSucceedsKeeps DEF IInv
  <2>2. ~lost'
    BY <1>3 DEF OpenSucceeds
  <2>3. Phase = "busy" /\ Phase' = "busy"
    BY <2>1 DEF Phase
  <2>4. Request' = Request
    BY <1>0 DEF Request
  <2>5. Service!Anywhere
    BY AtPlace
  <2>6. CASE Trusted
    <3>1. Service!Move
      BY <2>1, <2>2, <2>3, <2>4, <2>5, <2>6 DEF Service!Move, Trusted
    <3> QED BY <3>1 DEF Service!Next
  <2>7. CASE ~Trusted
    <3>1. Service!Open
      BY <2>1, <2>2, <2>3, <2>4, <2>5, <2>7 DEF Service!Open, Trusted
    <3> QED BY <3>1 DEF Service!Next
  <2> QED BY <2>6, <2>7
<1>4. CASE Exchange
  <2>0. UNCHANGED iface
    BY <1>4 DEF Exchange
  <2>1. CASE SendFails \/ ExpectClosed
    <3>1. todo # <<>> /\ UNCHANGED wire
      BY <2>1 DEF SendFails, ExpectClosed, Running
    <3> QED BY <1>0, <2>0, <3>1, ThreadServes DEF wire
  <2>2. CASE SendSucceeds \/ ExpectMatch \/ ExpectMore
    <3>1. todo # <<>> /\ UNCHANGED <<link, dev, typed, lost>>
      BY <2>2 DEF SendSucceeds, ExpectMatch, ExpectMore, Running
    <3> QED BY <1>0, <2>0, <3>1, ThreadServes
  <2>3. CASE ExpectTimeout
    <3>1. todo # <<>> /\ ~Trusted'
      BY <2>3 DEF ExpectTimeout, Running, Trusted
    <3> QED BY <1>0, <3>1, ThreadServes
  <2> QED BY <1>4, <2>1, <2>2, <2>3 DEF Exchange, Expect
<1> QED BY <1>1, <1>2, <1>3, <1>4 DEF Client, Opening

(* A call of the user, with what the promise calls it and asks of it.      *)
LEMMA CallServes ==
  ASSUME IInv, NEW op \in {"start", "enter_mode", "exec_command"},
         NEW mode \in Modes \cup {"none"}, NEW i \in Interfaces \cup {"none"},
         NEW prog, prog # <<>>, Call(op, mode, i, prog),
         op = "start" => mode = "none"
  PROVE  Service!Next
<1> DEFINE P == Prompts \X (Interfaces \cup {"none"})
<1>1. /\ todo = <<>> /\ todo' # <<>> /\ UNCHANGED <<wire, iface>>
      /\ call' = NewCall(op, mode, i)
  BY DEF Call, Idle
<1>2. Phase # "busy" /\ Phase' = "busy"
  BY <1>1 DEF Phase
<1>3. UNCHANGED <<Service!here, (link = "open" /\ ~lost)>>
  BY <1>1 DEF wire, Service!here, AtEmptyPrompt
<1>4. Request' = [kind |-> CASE op = "enter_mode" -> "enter"
                             [] op = "exec_command" -> "exec"
                             [] OTHER -> "other",
                  goal |-> IF mode = "none" THEN P ELSE {<<mode, i>>},
                  ready |-> mode # "none" \/ AtEmptyPrompt,
                  runs |-> 0, retried |-> FALSE]
  BY <1>1 DEF Request, NewCall
<1>5. mode # "none" => <<mode, i>> \in P /\ {<<mode, i>>} # P
  <2>1. <<"shell", "none">> \in P /\ <<"normal", "none">> \in P
    BY DEF Prompts
  <2> QED BY <2>1 DEF Modes, Prompts
<1>6. CASE op = "start"
  <2>1. Request' = [kind |-> "other", goal |-> P, ready |-> P # P \/ AtEmptyPrompt,
                    runs |-> 0, retried |-> FALSE]
    BY <1>4, <1>6
  <2>2. Service!Invoke
    BY <1>2, <1>3, <2>1 DEF Service!Invoke, Service!Call
  <2> QED BY <2>2 DEF Service!Next
<1>7. CASE op # "start"
  <2>1. PICK kind \in {"enter", "exec"}, goal \in {{p} : p \in P} \cup {P} :
          Request' = [kind |-> kind, goal |-> goal, ready |-> goal # P \/ AtEmptyPrompt,
                      runs |-> 0, retried |-> FALSE]
    <3> DEFINE kind == IF op = "enter_mode" THEN "enter" ELSE "exec"
               goal == IF mode = "none" THEN P ELSE {<<mode, i>>}
    <3>1. kind \in {"enter", "exec"} /\ goal \in {{p} : p \in P} \cup {P}
      BY <1>5
    <3>2. (mode # "none" \/ AtEmptyPrompt) = (goal # P \/ AtEmptyPrompt)
      BY <1>5 DEF AtEmptyPrompt
    <3>3. Request' = [kind |-> kind, goal |-> goal, ready |-> goal # P \/ AtEmptyPrompt,
                      runs |-> 0, retried |-> FALSE]
      BY <1>4, <1>7, <3>2
    <3> HIDE DEF kind, goal, P
    <3> QED BY <3>1, <3>3
  <2>2. Service!Invoke
    BY <1>2, <1>3, <2>1 DEF Service!Invoke, Service!Call
  <2> QED BY <2>2 DEF Service!Next
<1> QED BY <1>6, <1>7

(* The calls of the user.                                                  *)
LEMMA UserServes ==
  ASSUME IInv, IInv', User
  PROVE  Service!Next
<1>1. CASE CallStart
  <2>1. Call("start", "none", "none", Start) /\ Start # <<>>
    BY <1>1 DEF CallStart, Start
  <2> QED BY <2>1, CallServes
<1>2. CASE CallEnterMode
  <2>1. PICK mode \in Modes, i \in Interfaces \cup {"none"} :
          Call("enter_mode", mode, i, EnterMode(mode, i))
    BY <1>2 DEF CallEnterMode
  <2>2. EnterMode(mode, i) # <<>>
    BY EnterModeNotEmpty
  <2> QED BY <2>1, <2>2, CallServes
<1>3. CASE CallExecCommand
  <2>1. PICK mode \in (Modes \ {"shell"}) \cup {"none"},
             i \in Interfaces \cup {"none"}, errorOk \in BOOLEAN,
             output \in {"any", "none", "text"} :
          /\ mode # "subif" => i = "none"
          /\ Call("exec_command", mode, i, ExecCommand(mode, i, errorOk, output))
    BY <1>3 DEF CallExecCommand
  <2>2. ExecCommand(mode, i, errorOk, output) # <<>>
    BY <2>1, ExecFits
  <2> QED BY <2>1, <2>2, CallServes
<1>4. CASE Exit
  <2>1. /\ todo = <<>> /\ todo' = <<>> /\ exc' = "none" /\ link' = "none"
        /\ call' = NewCall("exit", "none", "none")
    BY <1>4 DEF Exit, Idle, CleanupHelper
  <2>2. Phase # "busy" /\ Phase' = "ok"
    BY <2>1 DEF Phase
  <2> DEFINE P == Prompts \X (Interfaces \cup {"none"})
  <2>3. Request' = [kind |-> "other", goal |-> P,
                    ready |-> (P # P \/ AtEmptyPrompt), runs |-> 0, retried |-> FALSE]
    BY <2>1 DEF Request, NewCall
  <2>4. Service!Anywhere
    BY AtPlace
  <2>5. Service!Manage
    BY <2>1, <2>2, <2>3, <2>4 DEF Service!Manage, Service!Call, Service!KeepOrLose
  <2> QED BY <2>5 DEF Service!Next
<1> QED BY <1>1, <1>2, <1>3, <1>4 DEF User

(* What the device does is on behalf of the call in progress, as long as   *)
(* the session is in step.                                                 *)
LEMMA AnswerServes ==
  ASSUME IInv, IInv', Answer
  PROVE  Service!Next
<1>1. /\ link = "open" /\ inq # <<>> /\ UNCHANGED <<link, lost, todo, exc>>
      /\ call' = IF RunsCommand THEN [call EXCEPT !.runs = @ + 1] ELSE call
  BY DEF Answer, DeviceAnswers
<1>2. Phase' = Phase /\ (todo # <<>> => Phase = "busy")
  BY <1>1 DEF Phase
<1>3. Service!Anywhere
  BY AtPlace
<1>4. (link = "open" /\ ~lost)' = (link = "open" /\ ~lost)
  BY <1>1
<1>5. CASE RunsCommand
  <2>1. 1 \in DOMAIN inq /\ Head(inq) = inq[1]
    <3>1. inq \in Seq(Line(Lines))
      BY DEF IInv, SessionInv, BaseTypeOK
    <3> QED BY <1>1, <3>1
  <2>2. RunDue
    <3>1. inq[1] = [line |-> Cmd, due |-> TRUE]
      BY <1>5, <2>1 DEF RunsCommand
    <3> QED BY <2>1, <3>1, Zenon DEF RunDue
  <2>3. call.op = "exec_command" /\ call.runs = 0
    BY <2>2 DEF IInv, RunOnce
  <2>4. todo # <<>>
    BY <1>5, <2>1 DEF RunsCommand, IInv, OneDue, Waiting, Running
  <2>5. /\ Request.kind = "exec" /\ Request.runs = 0 /\ Request.retried = FALSE
        /\ Request.goal = IF call.mode = "none" THEN Prompts \X (Interfaces \cup {"none"})
                          ELSE {<<call.mode, call.iface>>}
    BY <2>3 DEF Request
  <2>6. ASSUME link = "open" /\ ~lost
        PROVE  <<dev, iface>> \in Request.goal
    <3>1. here \in Places /\ (call.mode # "none" => here = <<call.mode, call.iface>>)
      BY <1>5, <2>6, RunsWhereSent DEF Trusted
    <3> QED BY <2>5, <3>1 DEF here, Places
  <2>7. Request' = [Request EXCEPT !.runs = Request.runs + 1]
    <3>1. call \in CallRecord
      BY DEF IInv, CallTyped
    <3>2. call' = [call EXCEPT !.runs = @ + 1]
      BY <1>1, <1>5
    <3>3. /\ call'.op = call.op /\ call'.mode = call.mode
          /\ call'.iface = call.iface /\ call'.ready = call.ready
          /\ call'.runs = call.runs + 1
      BY <3>1, <3>2 DEF CallRecord
    <3> DEFINE kind == CASE call.op = "enter_mode"   -> "enter"
                         [] call.op = "exec_command" -> "exec"
                         [] OTHER                    -> "other"
               goal == IF call.mode = "none" THEN Prompts \X (Interfaces \cup {"none"})
                       ELSE {<<call.mode, call.iface>>}
    <3>4. Request = [kind |-> kind, goal |-> goal, ready |-> call.ready, runs |-> call.runs, retried |-> FALSE]
      BY DEF Request
    <3>5. kind' = kind /\ goal' = goal
      BY <3>3
    <3>6. Request' = [kind |-> kind', goal |-> goal', ready |-> call'.ready, runs |-> call'.runs, retried |-> FALSE]
      BY DEF Request
    <3> HIDE DEF kind, goal
    <3>7. Request' = [kind |-> kind, goal |-> goal, ready |-> call.ready,
                      runs |-> call'.runs, retried |-> FALSE]
      BY <3>3, <3>5, <3>6
    <3>8. call.runs \in Nat /\ call'.runs = call.runs + 1
      BY <3>1, <3>3 DEF CallRecord
    <3> DEFINE no    == FALSE
               ready == call.ready
    <3>9. /\ Request = [kind |-> kind, goal |-> goal, ready |-> ready, runs |-> call.runs, retried |-> no]
          /\ Request' = [kind |-> kind, goal |-> goal, ready |-> ready, runs |-> call'.runs, retried |-> no]
      BY <3>4, <3>7
    <3> HIDE DEF no, ready
    <3> QED BY <3>8, <3>9, RunCounted
  <2>8. Service!Run
    BY <1>2, <1>3, <1>4, <2>4, <2>5, <2>6, <2>7 DEF Service!Run
  <2> QED BY <2>8 DEF Service!Next
<1>6. CASE ~RunsCommand
  <2>1. Request' = Request
    BY <1>1, <1>6 DEF Request
  <2>2. CASE todo # <<>>
    <3>1. Service!Move
      BY <1>2, <1>3, <1>4, <2>1, <2>2 DEF Service!Move
    <3> QED BY <3>1 DEF Service!Next
  <2>3. CASE todo = <<>>
    <3>1. ~Trusted
      <4>1. Effects(dev, Head(inq).line) \in SUBSET Effect
        BY EffectsTyped DEF IInv, SessionInv, BaseTypeOK
      <4>2. Trusted => Waiting
        BY <4>1, AnswerKeeps DEF Answer, IInv, Trusted
      <4> QED BY <2>3, <4>2 DEF Waiting, Running
    <3>2. Service!Lose
      BY <1>1, <1>2, <1>3, <2>1, <3>1 DEF Service!Lose, Trusted
    <3> QED BY <3>2 DEF Service!Next
  <2> QED BY <2>2, <2>3
<1> QED BY <1>5, <1>6

(* A dropped connection ends the promise, wherever the call is.            *)
LEMMA DropServes ==
  ASSUME IInv, IInv', Drop, UNCHANGED <<iface, call>>
  PROVE  Service!Next
<1>1. link' = "dead" /\ UNCHANGED <<todo, exc, call>>
  BY DEF Drop
<1>2. Phase' = Phase /\ Request' = Request
  BY <1>1 DEF Phase, Request
<1>3. Service!Anywhere
  BY AtPlace
<1>4. Service!Lose
  BY <1>1, <1>2, <1>3 DEF Service!Lose
<1> QED BY <1>4 DEF Service!Next

(* IOS_CLI implements CliService: whatever the connection does, the device *)
(* stays where it is between calls, enter_mode ends where it says, a       *)
(* command runs once, where it was asked for, and a call that returns has  *)
(* had it run, if it names a mode or found the device at an empty prompt.  *)
THEOREM Implements == Spec => ImplementsService
<1>1. ASSUME IInv, IInv', [Next]_vars
      PROVE  [Service!Next]_(Service!vars)
  <2>1. CASE UNCHANGED vars
    <3>1. UNCHANGED <<link, dev, typed, lost, todo, exc, iface, call>>
      BY <2>1 DEF vars, baseVars, wire
    <3>2. Phase' = Phase /\ Request' = Request
      BY <3>1 DEF Phase, Request
    <3> QED BY <3>1, <3>2 DEF Service!vars, Service!here, AtEmptyPrompt
  <2> QED BY <1>1, <2>1, UserServes, ClientServes, AnswerServes, DropServes DEF Next
<1> QED BY <1>1, ServiceInit, Invariance, PTL DEF Spec, ImplementsService, Service!Spec
=============================================================================
