--------------------------- MODULE VyattaCliProofs ---------------------------
(***************************************************************************)
(* Proofs about VyattaCli, for every backlog.                              *)
(*                                                                         *)
(* A refused exit leaves a prompt behind, so the session is not in step,   *)
(* and a prompt the CLI matches may be an older one.  The inductive        *)
(* invariant says exactly how far behind the CLI can be: by one            *)
(* configuration prompt, or by one line that leaves a router in            *)
(* configuration mode there (Slack, Exchanged).  That is why what it       *)
(* believes is true all the same: the assertions Before and After each     *)
(* instruction of the stack relate the mode the router is in to the prompt *)
(* matched last.                                                           *)
(***************************************************************************)
EXTENDS VyattaCli, CliSessionProofs

-----------------------------------------------------------------------------
(* What is so and what the CLI saw: the router's mode, the last prompt.    *)
Places  == Prompts \X Prompts
here    == <<dev, got.prompt>>
Asked   == <<call.mode, call.force>>
Trusted == link = "open" /\ ~lost

(* A prompt tells the mode; the refusal is only seen in configuration mode. *)
Seen(pats) == {q \in Places : /\ q[2] \in pats
                              /\ q[1] = IF q[2] = "cannot" THEN "config" ELSE q[2]}

(* In which mode a call with arguments g sends a line, and which prompts   *)
(* it then waits for.                                                      *)
SentIn(g, line, pats, mode) ==
  \/ line = "" /\ pats = AnyPrompt
  \/ line = Paging /\ pats = {"normal"} /\ mode = "normal"
  \/ line = "configure" /\ pats = {"config"} /\ mode = "normal"
  \/ line = "exit" /\ pats = {"cannot", "normal"} /\ mode = "config"
  \/ line = "exit discard" /\ pats = {"normal"} /\ mode = "config" /\ g[2]
  \/ line \in Cmds /\ pats = AnyPrompt /\ (g[1] # "none" => mode = g[1])

(* What holds before an instruction ...                                    *)
Before(g) == [x \in Frame(Ops, Lines) |->
  CASE x.op = "normal_from" -> {q \in Seen(AnyPrompt) : x.flag => g[2]}
    [] x.op = "config_from" -> Seen(AnyPrompt)
    [] x.op = "refused"     -> Seen({"cannot", "normal"})
    [] x.op = "send"        -> {q \in Places : SentIn(g, x.line, x.pats, q[1])}
    [] OTHER                -> Places]

(* ... and after it, if it raises no exception.                            *)
After(g) == [x \in Frame(Ops, Lines) |->
  CASE x.op \in {"normal_from", "refused"} -> Seen({"normal"})
    [] x.op = "config_from" -> Seen({"config"})
    [] x.op \in {"open", "send", "wait"} -> Seen(x.pats)
    [] x.op = "check"       -> Places
    [] OTHER                -> {}]

(* Where the call may end.                                                 *)
Goal == IF call.op = "enter_mode" THEN {q \in Places : q[1] = call.mode} ELSE Places

-----------------------------------------------------------------------------
(* The parts of the inductive invariant.                                   *)
CallTyped == call \in CallRecord /\ dirty \in BOOLEAN

(* Only configuration mode holds changes.                                  *)
Located == /\ ~typed
           /\ link = "open" => dev \in AnyPrompt
           /\ dirty => link = "open" /\ dev = "config"

StackTyped == /\ Flow(Before(Asked), After(Asked), todo, Goal)
              /\ todo # <<>> /\ frame.op = "open" => call.op = "start"

HereTyped == Trusted /\ exc = "none" /\ ~Waiting =>
               here \in Entry(Before(Asked), todo, Goal)

(* A prompt left behind, a line nobody waits for any more.                 *)
Stale(reply)   == reply.prompt = "config"
Harmless(line) == line.line \in {""} \cup Cmds /\ ~line.due

(* Between exchanges: at most one of the two, in configuration mode.       *)
Slack == \/ Len(inq) = 0 /\ Len(rx) = 0
         \/ Len(inq) = 0 /\ Len(rx) = 1 /\ dev = "config" /\ Stale(rx[1])
         \/ Len(inq) = 1 /\ Len(rx) = 0 /\ dev = "config" /\ Harmless(inq[1])

(* During an exchange, before the router has read the line ...             *)
Own(line) == SentIn(Asked, line.line, frame.pats, dev)

Unread == \/ Len(inq) = 1 /\ Len(rx) = 0 /\ Own(inq[1])
          \/ Len(inq) = 1 /\ Len(rx) = 1 /\ Own(inq[1]) /\ dev = "config" /\ Stale(rx[1])
          \/ Len(inq) = 2 /\ Len(rx) = 0 /\ Own(inq[2]) /\ dev = "config" /\ Harmless(inq[1])

(* ... after it answered ...                                               *)
Answered ==
  Len(inq) = 0 /\ \/ Len(rx) = 0
                  \/ Len(rx) = 1 /\ rx[1].prompt = dev
                  \/ Len(rx) = 2 /\ Stale(rx[1]) /\ rx[2].prompt = dev
                       /\ ("config" \in frame.pats => dev = "config")

(* ... and after it refused.                                               *)
Denied ==
  Len(inq) = 0 /\ dev = "config" /\ frame.pats = {"cannot", "normal"} /\
    \/ Len(rx) = 2 /\ rx[1].prompt = "cannot" /\ Stale(rx[2])
    \/ Len(rx) = 3 /\ Stale(rx[1]) /\ rx[2].prompt = "cannot" /\ Stale(rx[3])

Exchanged == Trusted => IF Waiting THEN Unread \/ Answered \/ Denied ELSE Slack

IInv == /\ SessionInv(Ops, Lines) /\ CallTyped /\ Located
        /\ StackTyped /\ HereTyped /\ Exchanged

-----------------------------------------------------------------------------
(* Instructions, their types and their assertions.                         *)

(* What every CLI sends and executes is part of this one's vocabulary.     *)
LEMMA VyattaVocabulary == Vocabulary(Ops, Lines)
  BY DEF Vocabulary, Ops, Lines

(* The user's commands are none of the lines the CLI sends on its own.     *)
LEMMA OwnLines ==
  /\ \A line \in Cmds : line \notin {"", Paging, "configure", "exit", "exit discard"}
  /\ {"", Paging, "configure", "exit", "exit discard"} \subseteq Lines
  /\ Cmds \subseteq Lines
  /\ AnyPrompt \subseteq Prompts /\ {"normal"} \subseteq Prompts
  /\ {"config"} \subseteq Prompts /\ {"cannot", "normal"} \subseteq Prompts
  /\ AnyPrompt # {"normal"} /\ AnyPrompt # {"config"} /\ AnyPrompt # {"cannot", "normal"}
  BY DEF Cmds, Paging, Lines, AnyPrompt, Prompts

(* An exchange leaves the router where the prompts waited for say.         *)
LEMMA SendAssertions ==
  ASSUME NEW g, NEW line \in Lines, NEW pats \in SUBSET Prompts
  PROVE  /\ Send(line, pats) \in Inner(Ops, Lines)
         /\ Before(g)[Send(line, pats)] = {q \in Places : SentIn(g, line, pats, q[1])}
         /\ After(g)[Send(line, pats)] = Seen(pats)
<1>1. Send(line, pats) \in Inner(Ops, Lines)
  BY VyattaVocabulary, SendInner
<1>2. Send(line, pats) \in Frame(Ops, Lines)
  BY <1>1, InnerIsFrame
<1>3. /\ Send(line, pats).op = "send" /\ Send(line, pats).line = line
      /\ Send(line, pats).pats = pats
  BY DEF Send, Do
<1> QED BY <1>1, <1>2, <1>3 DEF Before, After

(* Every place is a pair of a mode and a prompt.                           *)
LEMMA PlaceParts ==
  ASSUME NEW q \in Places
  PROVE  q[1] \in Prompts /\ q[2] \in Prompts
  BY DEF Places

(* The probe of current_cli_mode may be sent anywhere.                     *)
LEMMA ProbeAssertions ==
  ASSUME NEW g
  PROVE  /\ Probe \in Inner(Ops, Lines)
         /\ Before(g)[Probe] = Places /\ After(g)[Probe] = Seen(AnyPrompt)
<1>1. "" \in Lines /\ AnyPrompt \in SUBSET Prompts
  BY OwnLines
<1>2. {q \in Places : SentIn(g, "", AnyPrompt, q[1])} = Places
  BY DEF SentIn
<1> QED BY <1>1, <1>2, SendAssertions DEF Probe

(* The branch of enter_mode_normal, told whether to discard changes.       *)
LEMMA NormalFromAssertions ==
  ASSUME NEW g, NEW force \in BOOLEAN, force => g[2],
         NEW x, x = [Do("normal_from") EXCEPT !.flag = force]
  PROVE  /\ x \in Inner(Ops, Lines)
         /\ Before(g)[x] = Seen(AnyPrompt) /\ After(g)[x] = Seen({"normal"})
<1>1. /\ Do("normal_from") \in Inner(Ops, Lines) /\ Do("normal_from").op = "normal_from"
      /\ Do("normal_from") \in Frame(Ops, Lines)
  BY VyattaVocabulary, DoInner, InnerIsFrame DEF Ops, Do
<1>2. x \in Frame(Ops, Lines) /\ x.op = "normal_from" /\ x.flag = force
  BY <1>1 DEF Frame
<1>3. Before(g)[x] = {q \in Seen(AnyPrompt) : x.flag => g[2]}
  BY <1>2 DEF Before
<1>4. Before(g)[x] = Seen(AnyPrompt)
  BY <1>2, <1>3
<1> QED BY <1>2, <1>4 DEF Inner, After

(* The instructions without operands.                                      *)
LEMMA DoAssertions ==
  ASSUME NEW g
  PROVE  /\ Do("config_from") \in Inner(Ops, Lines)
         /\ Before(g)[Do("config_from")] = Seen(AnyPrompt)
         /\ After(g)[Do("config_from")] = Seen({"config"})
         /\ Do("refused") \in Inner(Ops, Lines)
         /\ Before(g)[Do("refused")] = Seen({"cannot", "normal"})
         /\ After(g)[Do("refused")] = Seen({"normal"})
         /\ Do("unknown_mode") \in Inner(Ops, Lines)
         /\ Before(g)[Do("unknown_mode")] = Places
         /\ After(g)[Do("unknown_mode")] = {}
<1>1. ASSUME NEW op \in {"config_from", "refused", "unknown_mode"}
      PROVE  /\ Do(op) \in Inner(Ops, Lines) /\ Do(op) \in Frame(Ops, Lines)
             /\ Do(op).op = op
  BY VyattaVocabulary, DoInner, InnerIsFrame DEF Ops, Do
<1> QED BY <1>1 DEF Before, After

(* exec_command's look at the output.                                      *)
LEMMA CheckAssertions ==
  ASSUME NEW g, NEW mode \in Modes \cup {"none"}, NEW output \in {"any", "none", "text"}
  PROVE  /\ Check(mode, output) \in Inner(Ops, Lines)
         /\ Before(g)[Check(mode, output)] = Places
         /\ After(g)[Check(mode, output)] = Places
<1>1. /\ Check(mode, output).op = "check"
      /\ Check(mode, output) \in Inner(Ops, Lines)
  BY DEF Check, Do, Inner, Frame, Prompts, Outs, Ops, Lines
<1>2. Check(mode, output) \in Frame(Ops, Lines)
  BY <1>1, InnerIsFrame
<1> QED BY <1>1, <1>2 DEF Before, After

-----------------------------------------------------------------------------
(* Programs.                                                               *)
Fits(g, prog, B) == /\ prog \in Seq(Inner(Ops, Lines))
                    /\ Flow(Before(g), After(g), prog, B)

(* The empty program fits anywhere.                                        *)
LEMMA FitsNone ==
  ASSUME NEW g, NEW B
  PROVE  Fits(g, <<>>, B) /\ Entry(Before(g), <<>>, B) = B
<1>1. <<>> \in Seq(Inner(Ops, Lines))
  OBVIOUS
<1> QED BY <1>1, FlowNone DEF Fits

(* A program of one inner instruction.                                     *)
LEMMA FitsOne ==
  ASSUME NEW g, NEW B, NEW a \in Inner(Ops, Lines), After(g)[a] \subseteq B
  PROVE  Fits(g, <<a>>, B) /\ Entry(Before(g), <<a>>, B) = Before(g)[a]
<1>1. <<a>> \in Seq(Inner(Ops, Lines))
  BY One
<1>2. /\ Flow(Before(g), After(g), <<a>>, B)
      /\ Entry(Before(g), <<a>>, B) = Before(g)[a]
  BY FlowOne
<1> QED BY <1>1, <1>2 DEF Fits

(* As FitsOne, for two instructions.                                       *)
LEMMA FitsTwo ==
  ASSUME NEW g, NEW B, NEW a \in Inner(Ops, Lines), NEW b \in Inner(Ops, Lines),
         After(g)[a] \subseteq Before(g)[b], After(g)[b] \subseteq B
  PROVE  Fits(g, <<a, b>>, B) /\ Entry(Before(g), <<a, b>>, B) = Before(g)[a]
<1>1. <<a, b>> \in Seq(Inner(Ops, Lines))
  BY Two
<1>2. /\ Flow(Before(g), After(g), <<a, b>>, B)
      /\ Entry(Before(g), <<a, b>>, B) = Before(g)[a]
  BY FlowTwo
<1> QED BY <1>1, <1>2 DEF Fits

(* A program of two programs.                                              *)
LEMMA FitsConcat ==
  ASSUME NEW g, NEW B, NEW p, NEW q,
         Fits(g, p, Entry(Before(g), q, B)), Fits(g, q, B)
  PROVE  /\ Fits(g, p \o q, B)
         /\ Entry(Before(g), p \o q, B) = Entry(Before(g), p, Entry(Before(g), q, B))
<1>1. /\ p \in Seq(Inner(Ops, Lines)) /\ q \in Seq(Inner(Ops, Lines))
      /\ Flow(Before(g), After(g), p, Entry(Before(g), q, B))
      /\ Flow(Before(g), After(g), q, B)
  BY DEF Fits
<1>2. p \o q \in Seq(Inner(Ops, Lines))
  BY <1>1, ConcatProperties
<1>3. /\ Flow(Before(g), After(g), p \o q, B)
      /\ Entry(Before(g), p \o q, B) = Entry(Before(g), p, Entry(Before(g), q, B))
  BY <1>1, FlowConcat
<1> QED BY <1>2, <1>3 DEF Fits

(* The disabling of paging, from the prompt the session starts with.       *)
LEMMA StartFits ==
  ASSUME NEW g
  PROVE  /\ Start \in Seq(Frame(Ops, Lines)) /\ Start # <<>>
         /\ Head(Start) = Open({"normal"}) /\ Tail(Start) \in Seq(Inner(Ops, Lines))
         /\ Flow(Before(g), After(g), Start, Places)
         /\ Entry(Before(g), Start, Places) = Places
<1> DEFINE o == Open({"normal"})
           s == Send(Paging, {"normal"})
<1>1. Paging \in Lines /\ {"normal"} \in SUBSET Prompts
  BY OwnLines
<1>2. /\ s \in Inner(Ops, Lines) /\ After(g)[s] = Seen({"normal"})
      /\ Before(g)[s] = {q \in Places : SentIn(g, Paging, {"normal"}, q[1])}
  BY <1>1, SendAssertions
<1>3. o \in Frame(Ops, Lines) /\ o.op = "open" /\ o.pats = {"normal"}
  BY <1>1, VyattaVocabulary, WaitOpenFrame DEF Open, Do
<1>4. After(g)[o] = Seen({"normal"}) /\ Before(g)[o] = Places
  BY <1>3 DEF After, Before
<1>5. Seen({"normal"}) \subseteq {q \in Places : SentIn(g, Paging, {"normal"}, q[1])}
  BY DEF Seen, SentIn
<1>6. Seen({"normal"}) \subseteq Places
  BY DEF Seen
<1>7. s \in Frame(Ops, Lines)
  BY <1>2, InnerIsFrame
<1>8. Start = <<o, s>>
  BY DEF Start
<1> HIDE DEF o, s
<1>9. /\ Flow(Before(g), After(g), <<o, s>>, Places)
      /\ Entry(Before(g), <<o, s>>, Places) = Places
  BY <1>2, <1>4, <1>5, <1>6, FlowTwo
<1>10. <<o, s>> \in Seq(Frame(Ops, Lines)) /\ <<s>> \in Seq(Inner(Ops, Lines))
  BY <1>2, <1>3, <1>7, One, Two
<1>11. Head(<<o, s>>) = o /\ Tail(<<o, s>>) = <<s>> /\ <<o, s>> # <<>>
  OBVIOUS
<1> QED BY <1>8, <1>9, <1>10, <1>11 DEF o

(* enter_mode may be called anywhere and ends in the mode asked for.       *)
LEMMA EnterModeFits ==
  ASSUME NEW mode \in {"normal", "config", "enable"}, NEW force \in BOOLEAN,
         NEW g, g = <<mode, force>>,
         NEW goal, goal = {q \in Places : q[1] = mode}
  PROVE  /\ Fits(g, EnterMode(mode, force), goal)
         /\ Entry(Before(g), EnterMode(mode, force), goal) = Places
         /\ EnterMode(mode, force) # <<>>
<1>1. g[1] = mode /\ g[2] = force
  OBVIOUS
<1>2. /\ Probe \in Inner(Ops, Lines)
      /\ Before(g)[Probe] = Places /\ After(g)[Probe] = Seen(AnyPrompt)
  BY ProbeAssertions
<1>3. CASE mode = "normal"
  <2> DEFINE x == [Do("normal_from") EXCEPT !.flag = force]
  <2>1. /\ x \in Inner(Ops, Lines)
        /\ Before(g)[x] = Seen(AnyPrompt) /\ After(g)[x] = Seen({"normal"})
    BY <1>1, NormalFromAssertions
  <2>2. Seen({"normal"}) \subseteq goal
    BY <1>3 DEF Seen
  <2>3. EnterMode(mode, force) = <<Probe, x>>
    BY <1>3 DEF EnterMode, EnterModeNormal
  <2> HIDE DEF x
  <2>4. /\ Fits(g, <<Probe, x>>, goal)
        /\ Entry(Before(g), <<Probe, x>>, goal) = Places
    BY <1>2, <2>1, <2>2, FitsTwo
  <2> QED BY <2>3, <2>4
<1>4. CASE mode = "config"
  <2> DEFINE x == Do("config_from")
  <2>1. /\ x \in Inner(Ops, Lines)
        /\ Before(g)[x] = Seen(AnyPrompt) /\ After(g)[x] = Seen({"config"})
    BY DoAssertions
  <2>2. Seen({"config"}) \subseteq goal
    BY <1>4 DEF Seen
  <2>3. EnterMode(mode, force) = <<Probe, x>>
    BY <1>4 DEF EnterMode, EnterModeConfig
  <2> HIDE DEF x
  <2>4. /\ Fits(g, <<Probe, x>>, goal)
        /\ Entry(Before(g), <<Probe, x>>, goal) = Places
    BY <1>2, <2>1, <2>2, FitsTwo
  <2> QED BY <2>3, <2>4
<1>5. CASE mode = "enable"
  <2> DEFINE x == Do("unknown_mode")
  <2>1. x \in Inner(Ops, Lines) /\ Before(g)[x] = Places /\ After(g)[x] = {}
    BY DoAssertions
  <2>2. EnterMode(mode, force) = <<x>>
    BY <1>5 DEF EnterMode
  <2> HIDE DEF x
  <2>3. Fits(g, <<x>>, goal) /\ Entry(Before(g), <<x>>, goal) = Places
    BY <2>1, FitsOne
  <2> QED BY <2>2, <2>3
<1> QED BY <1>3, <1>4, <1>5

(* exec_command sends its command in the mode asked for.                   *)
LEMMA ExecFits ==
  ASSUME NEW cmd \in Cmds, NEW mode \in {"normal", "config", "none"},
         NEW force \in BOOLEAN, NEW output \in {"any", "none", "text"},
         NEW g, g = <<mode, force>>
  PROVE  LET prog == ExecCommand(cmd, mode, force, output)
         IN  /\ Fits(g, prog, Places) /\ prog # <<>>
             /\ Entry(Before(g), prog, Places) = Places
<1> DEFINE check == Check(mode, output)
           send  == Send(cmd, AnyPrompt)
           run   == <<send, check>>
           enter == IF mode = "none" THEN <<>> ELSE EnterMode(mode, force)
           at    == {q \in Places : SentIn(g, cmd, AnyPrompt, q[1])}
<1>1. g[1] = mode /\ g[2] = force
  OBVIOUS
<1>2. AnyPrompt \in SUBSET Prompts /\ cmd \in Lines
  BY OwnLines
<1>3. /\ send \in Inner(Ops, Lines) /\ Before(g)[send] = at
      /\ After(g)[send] = Seen(AnyPrompt)
  BY <1>2, SendAssertions
<1>4. /\ check \in Inner(Ops, Lines)
      /\ Before(g)[check] = Places /\ After(g)[check] = Places
  BY CheckAssertions DEF Modes
<1>5. Seen(AnyPrompt) \subseteq Places
  BY DEF Seen
<1>6. at = IF mode = "none" THEN Places ELSE {q \in Places : q[1] = mode}
  BY <1>1, OwnLines DEF SentIn
<1> HIDE DEF check, send, at
<1>7. Fits(g, run, Places) /\ Entry(Before(g), run, Places) = at
  BY <1>3, <1>4, <1>5, FitsTwo
<1>8. Fits(g, enter, at) /\ Entry(Before(g), enter, at) = Places
  <2>1. CASE mode = "none"
    BY <1>6, <2>1, FitsNone
  <2>2. CASE mode # "none"
    BY <1>6, <2>2, EnterModeFits
  <2> QED BY <2>1, <2>2
<1>9. run # <<>>
  OBVIOUS
<1> HIDE DEF run, enter
<1>10. Fits(g, enter \o run, Places) /\ Entry(Before(g), enter \o run, Places) = Places
  BY <1>7, <1>8, FitsConcat
<1>11. enter \o run # <<>>
  BY <1>7, <1>8, <1>9, ConcatProperties DEF Fits
<1>12. ExecCommand(cmd, mode, force, output) = enter \o run
  BY DEF ExecCommand, enter, run, check, send
<1> QED BY <1>10, <1>11, <1>12

-----------------------------------------------------------------------------
(* What the three ways to change the stack do to its assertions.           *)

(* The call in progress keeps what it asks for.                            *)
LEMMA CallKept ==
  ASSUME UNCHANGED call
  PROVE  Asked' = Asked /\ Goal' = Goal
  BY DEF Asked, Goal

(* What the invariant says of a stack that is not empty.                   *)
LEMMA StackFacts ==
  ASSUME IInv, todo # <<>>
  PROVE  /\ frame \in Frame(Ops, Lines)
         /\ Tail(todo) \in Seq(Inner(Ops, Lines))
         /\ Flow(Before(Asked), After(Asked), Tail(todo), Goal)
         /\ After(Asked)[frame] \subseteq Entry(Before(Asked), Tail(todo), Goal)
         /\ Entry(Before(Asked), todo, Goal) = Before(Asked)[frame]
<1> DEFINE N == Before(Asked)
           L == After(Asked)
           G == Goal
           S == Frame(Ops, Lines)
           t == Tail(todo)
<1>1. frame \in S /\ t \in Seq(Inner(Ops, Lines)) /\ todo \in Seq(S)
  BY HeadTyped DEF IInv, SessionInv, BaseTypeOK
<1>2. Flow(N, L, todo, G) /\ frame = Head(todo) /\ t = Tail(todo)
  BY DEF IInv, StackTyped, frame
<1> HIDE DEF N, L, G, S, t
<1>3. Flow(N, L, t, G)
  BY <1>1, <1>2, FlowTail, Zenon
<1>4. L[frame] \subseteq Entry(N, t, G)
  BY <1>1, <1>2, FlowTail, Zenon
<1>5. Entry(N, todo, G) = N[frame]
  <2>1. Head(todo) = todo[1]
    BY <1>1
  <2> QED BY <1>2, <2>1 DEF Entry
<1> QED BY <1>1, <1>3, <1>4, <1>5 DEF N, L, G, S, t

(* A program takes the place of the instruction.                           *)
LEMMA ProgramStep ==
  ASSUME IInv, todo # <<>>, UNCHANGED call,
         NEW prog, Fits(Asked, prog, After(Asked)[frame]), Become(prog)
  PROVE  /\ StackTyped'
         /\ Entry(Before(Asked), prog, After(Asked)[frame])
              \subseteq Entry(Before(Asked), todo, Goal)'
         /\ todo' \in Seq(Inner(Ops, Lines))
<1> DEFINE N == Before(Asked)
           L == After(Asked)
           T == Tail(todo)
           G == Goal
<1>1. /\ T \in Seq(Inner(Ops, Lines)) /\ Flow(N, L, T, G)
      /\ L[frame] \subseteq Entry(N, T, G)
  BY StackFacts
<1>2. /\ prog \in Seq(Inner(Ops, Lines)) /\ Flow(N, L, prog, L[frame])
      /\ todo' = prog \o T
  BY DEF Fits, Become
<1>3. N' = N /\ L' = L /\ G' = G
  BY CallKept
<1> HIDE DEF N, L, T, G
<1>4. /\ Flow(N, L, prog, Entry(N, T, G))
      /\ Entry(N, prog, L[frame]) \subseteq Entry(N, prog, Entry(N, T, G))
  BY <1>1, <1>2, FlowWeaken
<1>5. /\ Flow(N, L, prog \o T, G)
      /\ Entry(N, prog \o T, G) = Entry(N, prog, Entry(N, T, G))
  BY <1>1, <1>2, <1>4, FlowConcat
<1>6. todo' \in Seq(Inner(Ops, Lines))
  BY <1>1, <1>2, ConcatProperties
<1>7. Flow(N', L', todo', G') /\ Entry(N, prog, L[frame]) \subseteq Entry(N', todo', G')
  BY <1>2, <1>3, <1>4, <1>5
<1> QED BY <1>6, <1>7, InnerShape DEF StackTyped, N, L, G

(* The instruction is done, or given up.                                   *)
LEMMA TailStep ==
  ASSUME IInv, todo # <<>>, UNCHANGED call, todo' = Tail(todo)
  PROVE  /\ StackTyped'
         /\ After(Asked)[frame] \subseteq Entry(Before(Asked), todo, Goal)'
         /\ todo' \in Seq(Inner(Ops, Lines))
<1> DEFINE N == Before(Asked)
           L == After(Asked)
           G == Goal
<1>1. N' = N /\ L' = L /\ G' = G
  BY CallKept
<1>2. /\ todo' \in Seq(Inner(Ops, Lines)) /\ Flow(N, L, todo', G)
      /\ L[frame] \subseteq Entry(N, todo', G)
  BY StackFacts
<1> HIDE DEF N, L, G
<1>3. Flow(N', L', todo', G') /\ L[frame] \subseteq Entry(N', todo', G')
  BY <1>1, <1>2
<1> QED BY <1>2, <1>3, InnerShape DEF StackTyped, N, L, G

(* An exchange goes on: the same prompts are waited for.                   *)
LEMMA WaitStep ==
  ASSUME IInv, todo # <<>>, UNCHANGED call,
         todo' \in Seq(Frame(Ops, Lines)), todo' # <<>>, Tail(todo') = Tail(todo),
         frame.op \in {"open", "send", "wait"},
         frame'.op = "wait", frame'.pats = frame.pats
  PROVE  StackTyped'
<1> DEFINE N == Before(Asked)
           L == After(Asked)
           G == Goal
           T == Tail(todo)
<1>1. N' = N /\ L' = L /\ G' = G
  BY CallKept
<1>2. /\ T \in Seq(Inner(Ops, Lines)) /\ Flow(N, L, T, G)
      /\ frame \in Frame(Ops, Lines)
      /\ L[frame] \subseteq Entry(N, T, G)
  BY StackFacts
<1>3. frame' \in Frame(Ops, Lines) /\ frame' = Head(todo')
  BY HeadTailProperties DEF frame
<1>4. L[frame] = Seen(frame.pats)
  BY <1>2 DEF After
<1>5. L[frame'] = Seen(frame.pats)
  BY <1>3 DEF After
<1> HIDE DEF N, L, G, T
<1>6. Tail(todo') = T
  BY DEF T
<1>7. Flow(N, L, todo', G)
  BY <1>2, <1>3, <1>4, <1>5, <1>6, FlowHead
<1>8. Flow(N', L', todo', G')
  BY <1>1, <1>7
<1> QED BY <1>8 DEF StackTyped, N, L, G

-----------------------------------------------------------------------------
(* Steps of the thread that leave the session alone.                       *)

(* What such a step has to keep: an exception needs no assertion.          *)
LEMMA LocalStep ==
  ASSUME IInv, UNCHANGED <<wire, got, dirty, call>>,
         ~Waiting \/ link # "open",
         todo' \in Seq(Inner(Ops, Lines)), exc' \in Excs \cup {"none"},
         StackTyped',
         exc' = "none" /\ Trusted => here \in Entry(Before(Asked), todo, Goal)'
  PROVE  IInv'
<1>1. SessionInv(Ops, Lines)' /\ ~Waiting'
  BY LocalKeepsSession DEF IInv, SessionInv, BaseTypeOK
<1>2. UNCHANGED <<link, dev, typed, inq, rx, lost, got, dirty, call>>
  BY DEF wire
<1>3. CallTyped' /\ Located' /\ (Trusted' <=> Trusted) /\ here' = here
  BY <1>2 DEF IInv, CallTyped, Located, Trusted, here
<1>4. HereTyped'
  BY <1>3 DEF HereTyped
<1>5. Exchanged'
  <2>1. Trusted => Slack
    BY DEF Trusted, IInv, Exchanged
  <2>2. Slack' <=> Slack
    BY <1>2 DEF Slack
  <2> QED BY <1>1, <1>3, <2>1, <2>2 DEF Exchanged
<1> QED BY <1>1, <1>3, <1>4, <1>5 DEF IInv

(* An exception raised, or on its way up.                                  *)
LEMMA RaiseStep ==
  ASSUME IInv, UNCHANGED <<wire, got, dirty, call>>, todo # <<>>,
         ~Waiting \/ link # "open",
         todo' = Tail(todo), exc' \in Excs
  PROVE  IInv'
<1>1. StackTyped' /\ todo' \in Seq(Inner(Ops, Lines))
  BY TailStep
<1>2. exc' # "none"
  BY DEF Excs
<1> QED BY <1>1, <1>2, LocalStep

(* A method called: its program starts where the router is.                *)
LEMMA BecomeStep ==
  ASSUME IInv, UNCHANGED <<wire, got, dirty, call, exc>>, todo # <<>>, ~Waiting,
         NEW prog, Fits(Asked, prog, After(Asked)[frame]), Become(prog),
         Trusted => here \in Entry(Before(Asked), prog, After(Asked)[frame])
  PROVE  IInv'
<1>1. /\ StackTyped'
      /\ Entry(Before(Asked), prog, After(Asked)[frame])
           \subseteq Entry(Before(Asked), todo, Goal)'
      /\ todo' \in Seq(Inner(Ops, Lines))
  BY ProgramStep
<1>2. exc' \in Excs \cup {"none"}
  BY DEF IInv, SessionInv, BaseTypeOK
<1>3. Trusted => here \in Entry(Before(Asked), todo, Goal)'
  BY <1>1
<1> QED BY <1>1, <1>2, <1>3, LocalStep

(* What is known is somewhere.                                             *)
LEMMA HereInPlaces ==
  ASSUME IInv
  PROVE  here \in Places /\ here[1] = dev /\ here[2] = got.prompt
  BY DEF here, Places, IInv, SessionInv, BaseTypeOK, Reply

(* What the invariant says of the instruction being executed.              *)
LEMMA HereFacts ==
  ASSUME IInv, NEW op \in Ops \ {"wait"}, Running(op)
  PROVE  /\ todo # <<>> /\ frame \in Frame(Ops, Lines) /\ frame.op = op /\ ~Waiting
         /\ exc = "none" /\ (Trusted => here \in Before(Asked)[frame])
<1>1. todo # <<>> /\ frame.op = op /\ ~Waiting /\ exc = "none"
  BY DEF Running, Waiting
<1>2. /\ frame \in Frame(Ops, Lines)
      /\ Entry(Before(Asked), todo, Goal) = Before(Asked)[frame]
  BY <1>1, StackFacts
<1> QED BY <1>1, <1>2 DEF IInv, HereTyped

(* A prompt that is there is where the router is.                          *)
LEMMA SeenThere ==
  ASSUME IInv, NEW pats, here \in Seen(pats)
  PROVE  /\ got.prompt \in pats
         /\ dev = IF got.prompt = "cannot" THEN "config" ELSE got.prompt
         /\ \A other : got.prompt \in other => here \in Seen(other)
  BY HereInPlaces DEF Seen

(* enter_mode_normal leaves configuration mode, by force only if told to.  *)
LEMMA NormalFromStep ==
  ASSUME IInv, UNCHANGED <<dirty, call>>, NormalFrom
  PROVE  IInv'
<1> DEFINE B == After(Asked)[frame]
<1>1. Running("normal_from") /\ UNCHANGED <<wire, got, dirty, call, exc>>
  BY DEF NormalFrom, Quiet
<1>2. /\ todo # <<>> /\ frame \in Frame(Ops, Lines) /\ frame.op = "normal_from" /\ ~Waiting
      /\ Trusted => here \in Before(Asked)[frame]
  BY <1>1, HereFacts DEF Ops
<1>3. B = Seen({"normal"})
  BY <1>2 DEF After
<1>4. Trusted => here \in Seen(AnyPrompt) /\ (frame.flag => Asked[2])
  BY <1>2 DEF Before
<1>5. CASE got.prompt = "normal"
  <2>1. Become(<<>>)
    BY <1>5 DEF NormalFrom
  <2>2. Trusted => here \in B
    BY <1>3, <1>4, <1>5, SeenThere
  <2> QED BY <1>1, <1>2, <2>1, <2>2, FitsNone, BecomeStep
<1>6. ASSUME got.prompt # "normal", Trusted
      PROVE  dev = "config"
  BY <1>4, <1>6, SeenThere DEF AnyPrompt
<1>7. CASE got.prompt # "normal" /\ frame.flag
  <2> DEFINE s == Send("exit discard", {"normal"})
  <2>1. Become(<<s>>)
    BY <1>7 DEF NormalFrom
  <2>2. /\ s \in Inner(Ops, Lines) /\ After(Asked)[s] = Seen({"normal"})
        /\ Before(Asked)[s] = {q \in Places : SentIn(Asked, "exit discard", {"normal"}, q[1])}
    <3>1. "exit discard" \in Lines /\ {"normal"} \in SUBSET Prompts
      BY OwnLines
    <3> QED BY <3>1, SendAssertions
  <2>3. Trusted => here \in Before(Asked)[s]
    BY <1>4, <1>6, <1>7, <2>2, HereInPlaces DEF SentIn
  <2> HIDE DEF s, B
  <2>4. Fits(Asked, <<s>>, B) /\ Entry(Before(Asked), <<s>>, B) = Before(Asked)[s]
    BY <1>3, <2>2, FitsOne
  <2> QED BY <1>1, <1>2, <2>1, <2>3, <2>4, BecomeStep DEF B
<1>8. CASE got.prompt # "normal" /\ ~frame.flag
  <2> DEFINE s == Send("exit", {"cannot", "normal"})
             r == Do("refused")
  <2>1. Become(<<s, r>>)
    BY <1>8 DEF NormalFrom
  <2>2. /\ s \in Inner(Ops, Lines) /\ After(Asked)[s] = Seen({"cannot", "normal"})
        /\ Before(Asked)[s] = {q \in Places : SentIn(Asked, "exit", {"cannot", "normal"}, q[1])}
    <3>1. "exit" \in Lines /\ {"cannot", "normal"} \in SUBSET Prompts
      BY OwnLines
    <3> QED BY <3>1, SendAssertions
  <2>3. /\ r \in Inner(Ops, Lines) /\ Before(Asked)[r] = Seen({"cannot", "normal"})
        /\ After(Asked)[r] = Seen({"normal"})
    BY DoAssertions
  <2>4. Trusted => here \in Before(Asked)[s]
    BY <1>6, <1>8, <2>2, HereInPlaces DEF SentIn
  <2> HIDE DEF s, r, B
  <2>5. Fits(Asked, <<s, r>>, B) /\ Entry(Before(Asked), <<s, r>>, B) = Before(Asked)[s]
    BY <1>3, <2>2, <2>3, FitsTwo
  <2> QED BY <1>1, <1>2, <2>1, <2>4, <2>5, BecomeStep DEF B
<1> QED BY <1>5, <1>7, <1>8

(* enter_mode_config.                                                      *)
LEMMA ConfigFromStep ==
  ASSUME IInv, UNCHANGED <<dirty, call>>, ConfigFrom
  PROVE  IInv'
<1> DEFINE B == After(Asked)[frame]
<1>1. Running("config_from") /\ UNCHANGED <<wire, got, dirty, call, exc>>
  BY DEF ConfigFrom, Quiet
<1>2. /\ todo # <<>> /\ frame \in Frame(Ops, Lines) /\ frame.op = "config_from" /\ ~Waiting
      /\ Trusted => here \in Before(Asked)[frame]
  BY <1>1, HereFacts DEF Ops
<1>3. B = Seen({"config"})
  BY <1>2 DEF After
<1>4. Trusted => here \in Seen(AnyPrompt)
  BY <1>2 DEF Before
<1>5. CASE got.prompt = "config"
  <2>1. Become(<<>>)
    BY <1>5 DEF ConfigFrom
  <2>2. Trusted => here \in B
    BY <1>3, <1>4, <1>5, SeenThere
  <2> QED BY <1>1, <1>2, <2>1, <2>2, FitsNone, BecomeStep
<1>6. CASE got.prompt # "config"
  <2> DEFINE s == Send("configure", {"config"})
  <2>1. Become(<<s>>)
    BY <1>6 DEF ConfigFrom
  <2>2. /\ s \in Inner(Ops, Lines) /\ After(Asked)[s] = Seen({"config"})
        /\ Before(Asked)[s] = {q \in Places : SentIn(Asked, "configure", {"config"}, q[1])}
    <3>1. "configure" \in Lines /\ {"config"} \in SUBSET Prompts
      BY OwnLines
    <3> QED BY <3>1, SendAssertions
  <2>3. Trusted => dev = "normal"
    BY <1>4, <1>6, SeenThere DEF AnyPrompt
  <2>4. Trusted => here \in Before(Asked)[s]
    BY <2>2, <2>3, HereInPlaces DEF SentIn
  <2> HIDE DEF s, B
  <2>5. Fits(Asked, <<s>>, B) /\ Entry(Before(Asked), <<s>>, B) = Before(Asked)[s]
    BY <1>3, <2>2, FitsOne
  <2> QED BY <1>1, <1>2, <2>1, <2>4, <2>5, BecomeStep DEF B
<1> QED BY <1>5, <1>6

(* An exit that was not refused ends in normal mode.                       *)
LEMMA RefusedStep ==
  ASSUME IInv, UNCHANGED <<dirty, call>>, Refused
  PROVE  IInv'
<1>1. Running("refused") /\ UNCHANGED <<wire, got, dirty, call>>
  BY DEF Refused, Quiet
<1>2. /\ todo # <<>> /\ frame \in Frame(Ops, Lines) /\ frame.op = "refused" /\ ~Waiting
      /\ Trusted => here \in Before(Asked)[frame]
  BY <1>1, HereFacts DEF Ops
<1>3. CASE Raise("CLIError")
  BY <1>1, <1>2, <1>3, RaiseStep DEF Raise, Excs
<1>4. CASE got.prompt # "cannot" /\ Become(<<>>) /\ UNCHANGED exc
  <2>1. /\ Before(Asked)[frame] = Seen({"cannot", "normal"})
        /\ After(Asked)[frame] = Seen({"normal"})
    BY <1>2 DEF Before, After
  <2>2. Trusted => here \in After(Asked)[frame]
    BY <1>2, <1>4, <2>1, SeenThere
  <2> QED BY <1>1, <1>2, <1>4, <2>2, FitsNone, BecomeStep
<1> QED BY <1>3, <1>4 DEF Refused

(* Every step of the thread between two exchanges.                         *)
LEMMA LocalKeeps ==
  ASSUME IInv, UNCHANGED <<dirty, call>>, Local
  PROVE  IInv'
<1>1. CASE UnknownMode
  <2>1. /\ Running("unknown_mode") /\ Raise("UnknownCLIMode")
        /\ UNCHANGED <<wire, got>>
    BY <1>1 DEF UnknownMode, Quiet
  <2>2. todo # <<>> /\ ~Waiting
    BY <2>1, HereFacts DEF Ops
  <2> QED BY <2>1, <2>2, RaiseStep DEF Raise, Excs
<1>2. CASE CheckOutput
  <2>1. Running("check") /\ UNCHANGED <<wire, got>>
    BY <1>2 DEF CheckOutput, Quiet
  <2>2. todo # <<>> /\ frame \in Frame(Ops, Lines) /\ frame.op = "check" /\ ~Waiting
    BY <2>1, HereFacts DEF Ops
  <2>3. CASE Raise("UnexpectedOutput")
    BY <2>1, <2>2, <2>3, RaiseStep DEF Raise, Excs
  <2>4. CASE Become(<<>>) /\ UNCHANGED exc
    <3>1. After(Asked)[frame] = Places
      BY <2>2 DEF After
    <3> QED BY <2>1, <2>2, <2>4, <3>1, HereInPlaces, FitsNone, BecomeStep
  <2> QED BY <1>2, <2>3, <2>4 DEF CheckOutput
<1>3. CASE Unwind
  <2>1. /\ todo # <<>> /\ ~Waiting /\ todo' = Tail(todo) /\ exc' \in Excs
        /\ UNCHANGED <<wire, got>>
    BY <1>3 DEF Unwind, Waiting, Running, Quiet, IInv, SessionInv, BaseTypeOK
  <2> QED BY <2>1, RaiseStep
<1> QED BY <1>1, <1>2, <1>3, NormalFromStep, ConfigFromStep, RefusedStep DEF Local

-----------------------------------------------------------------------------
(* Exchanges with the router.                                              *)

(* What an expect() leaves of the replies, and of the lines on their way.  *)
LEMMA Forgotten ==
  /\ \A q \in Seq(Line(Lines)) :
       /\ NotDue(q) \in Seq(Line(Lines)) /\ Len(NotDue(q)) = Len(q)
       /\ \A i \in 1 .. Len(q) : NotDue(q)[i].line = q[i].line /\ ~NotDue(q)[i].due
  /\ \A q \in Seq(Reply) : \A n \in 1 .. Len(q) :
       LET rest == NotDue(SubSeq(q, n + 1, Len(q)))
       IN  /\ Len(rest) = Len(q) - n
           /\ \A i \in 1 .. Len(q) - n : rest[i].prompt = q[n + i].prompt
<1>1. ASSUME NEW q \in Seq(Line(Lines))
      PROVE  /\ NotDue(q) \in Seq(Line(Lines)) /\ Len(NotDue(q)) = Len(q)
             /\ \A i \in 1 .. Len(q) : NotDue(q)[i].line = q[i].line /\ ~NotDue(q)[i].due
  <2>1. NotDue(q) \in Seq(Line(Lines)) /\ Len(NotDue(q)) = Len(q)
    BY NotDueProperties
  <2>2. DOMAIN q = 1 .. Len(q)
    OBVIOUS
  <2>3. ASSUME NEW i \in 1 .. Len(q)
        PROVE  NotDue(q)[i].line = q[i].line /\ ~NotDue(q)[i].due
    <3>1. q[i] \in Line(Lines)
      BY ElementOfSeq
    <3>2. NotDue(q)[i] = [q[i] EXCEPT !.due = FALSE]
      BY <2>2 DEF NotDue
    <3> QED BY <3>1, <3>2 DEF Line
  <2> QED BY <2>1, <2>3
<1>2. ASSUME NEW q \in Seq(Reply), NEW n \in 1 .. Len(q), NEW rest,
             rest = NotDue(SubSeq(q, n + 1, Len(q)))
      PROVE  /\ Len(rest) = Len(q) - n
             /\ \A i \in 1 .. Len(q) - n : rest[i].prompt = q[n + i].prompt
  <2> DEFINE s == SubSeq(q, n + 1, Len(q))
  <2>1. /\ s \in Seq(Reply) /\ Len(s) = Len(q) - n
        /\ \A i \in 1 .. Len(q) - n : s[i] = q[n + i]
    <3>1. Len(q) \in Nat /\ n \in Nat /\ n >= 1 /\ n <= Len(q)
      OBVIOUS
    <3>2. s \in Seq(Reply) /\ Len(s) = Len(q) - n
      BY <3>1
    <3>3. ASSUME NEW i \in 1 .. Len(q) - n
          PROVE  s[i] = q[n + i]
      BY <3>1, <3>3
    <3> QED BY <3>2, <3>3
  <2>2. rest = NotDue(s)
    BY <1>2
  <2> HIDE DEF s
  <2>3. Len(rest) = Len(q) - n
    BY <2>1, <2>2, NotDueProperties
  <2>4. DOMAIN s = 1 .. Len(q) - n
    BY <2>1
  <2>5. ASSUME NEW i \in 1 .. Len(q) - n
        PROVE  rest[i].prompt = q[n + i].prompt
    <3>1. s[i] \in Reply /\ s[i] = q[n + i]
      BY <2>1, ElementOfSeq
    <3>2. rest[i] = [s[i] EXCEPT !.due = FALSE]
      BY <2>2, <2>4 DEF NotDue
    <3> QED BY <3>1, <3>2 DEF Reply
  <2> QED BY <2>3, <2>5
<1> QED BY <1>1, <1>2

(* The queues are sequences.                                               *)
LEMMA Queues ==
  ASSUME IInv
  PROVE  /\ inq \in Seq(Line(Lines)) /\ rx \in Seq(Reply)
         /\ Len(inq) \in Nat /\ Len(rx) \in Nat
         /\ (inq = <<>> <=> Len(inq) = 0) /\ (rx = <<>> <=> Len(rx) = 0)
<1>1. inq \in Seq(Line(Lines)) /\ rx \in Seq(Reply)
  BY DEF IInv, SessionInv, BaseTypeOK
<1> QED BY <1>1, EmptySeq

(* The configuration prompt is waited for in configuration mode only by    *)
(* calls that leave the router there.                                      *)
LEMMA OwnStays ==
  ASSUME NEW g, NEW line, NEW pats, SentIn(g, line, pats, "config"), "config" \in pats
  PROVE  line \in {""} \cup Cmds
<1>1. /\ "config" # "normal" /\ pats # {"normal"} /\ pats # {"cannot", "normal"}
  OBVIOUS
<1>2. line = "" \/ line \in Cmds
  BY ONLY <1>1, SentIn(g, line, pats, "config") DEF SentIn
<1> QED BY <1>2

(* A start() that fails leaves a session nobody relies on.                 *)
LEMMA OpenFailsStep ==
  ASSUME IInv, dirty' = FALSE, UNCHANGED call, OpenFails
  PROVE  IInv'
<1>1. /\ SessionInv(Ops, Lines)' /\ link' \in {"fresh", "half"}
      /\ todo # <<>> /\ todo' = Tail(todo)
  BY OpenFailsKeeps DEF IInv
<1>2. StackTyped'
  BY <1>1, TailStep
<1>3. ~Trusted' /\ CallTyped' /\ Located'
  BY <1>1 DEF IInv, Trusted, CallTyped, Located, OpenFails
<1>4. HereTyped' /\ Exchanged'
  BY <1>3 DEF HereTyped, Exchanged
<1> QED BY <1>1, <1>2, <1>3, <1>4 DEF IInv

(* The router greets with the operational prompt.                          *)
LEMMA OpenSucceedsStep ==
  ASSUME IInv, dirty' = FALSE, UNCHANGED call, OpenSucceeds({"normal"})
  PROVE  IInv'
<1>0. {"normal"} \in SUBSET Prompts
  BY OwnLines
<1>1. /\ SessionInv(Ops, Lines)' /\ ConversationInStep' /\ Waiting'
      /\ link' = "open" /\ dev' \in {"normal"}
      /\ inq' = <<>> /\ rx' # <<>> /\ rx'[1].prompt = dev'
      /\ todo # <<>> /\ todo' # <<>> /\ Tail(todo') = Tail(todo)
      /\ frame.op = "open" /\ frame' = Wait(frame.pats)
  BY <1>0, VyattaVocabulary, OpenSucceedsKeeps DEF IInv
<1>2. frame'.op = "wait" /\ frame'.pats = frame.pats
  BY <1>1 DEF Wait, Do
<1>3. todo' \in Seq(Frame(Ops, Lines)) /\ rx' \in Seq(Reply)
  BY <1>1 DEF SessionInv, BaseTypeOK
<1>4. StackTyped'
  BY <1>1, <1>2, <1>3, WaitStep
<1>5. CallTyped' /\ Located'
  BY <1>1 DEF IInv, CallTyped, Located, AnyPrompt, OpenSucceeds
<1>6. HereTyped'
  BY <1>1 DEF HereTyped
<1>7. Exchanged'
  <2> SUFFICES ASSUME Trusted'
               PROVE  Answered'
    BY <1>1 DEF Exchanged
  <2>1. Len(inq') = 0
    BY <1>1
  <2>2. Len(inq') + Len(rx') <= 1
    BY <1>1 DEF Trusted, ConversationInStep, Backlog
  <2>3. Len(rx') \in Nat
    BY <1>3
  <2>4. \A n \in Nat : 0 + n <= 1 => n = 0 \/ n = 1
    OBVIOUS
  <2>5. Len(rx') = 0 \/ Len(rx') = 1
    BY <2>1, <2>2, <2>3, <2>4
  <2> QED BY <1>1, <2>1, <2>5 DEF Answered
<1> QED BY <1>1, <1>4, <1>5, <1>6, <1>7 DEF IInv

(* A line is sent from where the router has to be for it.                  *)
LEMMA SendSucceedsStep ==
  ASSUME IInv, UNCHANGED <<dirty, call>>, SendSucceeds
  PROVE  IInv'
<1> DEFINE sent == [line |-> frame.line, due |-> TRUE]
<1>1. /\ SessionInv(Ops, Lines)' /\ ~Waiting /\ Waiting'
      /\ UNCHANGED <<link, dev, typed, rx, exc, got, lost>>
      /\ link = "open" /\ exc = "none"
      /\ todo # <<>> /\ todo' # <<>> /\ Tail(todo') = Tail(todo)
      /\ frame.op = "send" /\ frame' = Wait(frame.pats)
      /\ inq' = Append(inq, sent)
  BY VyattaVocabulary, SendSucceedsKeeps DEF IInv
<1>2. frame'.op = "wait" /\ frame'.pats = frame.pats
  BY <1>1 DEF Wait, Do
<1>3. todo' \in Seq(Frame(Ops, Lines)) /\ inq \in Seq(Line(Lines)) /\ Len(inq) \in Nat
  BY <1>1, Queues DEF SessionInv, BaseTypeOK
<1>4. StackTyped'
  BY <1>1, <1>2, <1>3, WaitStep
<1>5. CallTyped' /\ Located' /\ (Trusted' <=> Trusted) /\ Asked' = Asked
  BY <1>1 DEF IInv, CallTyped, Located, Trusted, Asked
<1>6. HereTyped'
  BY <1>1 DEF HereTyped
<1>7. /\ Len(inq') = Len(inq) + 1 /\ inq'[Len(inq) + 1] = sent
      /\ \A i \in 1 .. Len(inq) : inq'[i] = inq[i]
  BY <1>1, <1>3
<1>8. Exchanged'
  <2> SUFFICES ASSUME Trusted
               PROVE  Unread'
    BY <1>1, <1>5 DEF Exchanged
  <2>1. Slack
    BY <1>1 DEF IInv, Exchanged
  <2>2. SentIn(Asked, frame.line, frame.pats, dev)
    <3>1. /\ frame \in Frame(Ops, Lines)
          /\ here \in Before(Asked)[frame]
      <4>1. frame \in Frame(Ops, Lines) /\ Entry(Before(Asked), todo, Goal) = Before(Asked)[frame]
        BY <1>1, StackFacts
      <4> QED BY <1>1, <4>1 DEF IInv, HereTyped
    <3>2. here \in {q \in Places : SentIn(Asked, frame.line, frame.pats, q[1])}
      BY <1>1, <3>1 DEF Before
    <3> QED BY <3>2, HereInPlaces
  <2>3. ASSUME NEW k, inq'[k] = sent
        PROVE  SentIn(Asked', inq'[k].line, frame'.pats, dev')
    <3>1. inq'[k].line = frame.line
      BY <2>3
    <3> QED BY <1>1, <1>2, <1>5, <2>2, <3>1
  <2>4. CASE Len(inq) = 0
    <3>1. Len(inq') = 1 /\ inq'[1] = sent /\ Len(rx') = Len(rx) /\ rx' = rx /\ dev' = dev
      BY <1>1, <1>7, <2>4
    <3>2. SentIn(Asked', inq'[1].line, frame'.pats, dev')
      BY <2>3, <3>1
    <3> HIDE DEF sent
    <3> QED BY <2>1, <2>4, <3>1, <3>2 DEF Slack, Unread, Own, Stale
  <2>5. CASE Len(inq) # 0
    <3>1. Len(inq) = 1 /\ Len(rx) = 0 /\ dev = "config" /\ Harmless(inq[1])
      BY <2>1, <2>5 DEF Slack
    <3>2. Len(inq') = 2 /\ inq'[2] = sent /\ inq'[1] = inq[1] /\ rx' = rx /\ dev' = dev
      BY <1>1, <1>7, <3>1
    <3>3. SentIn(Asked', inq'[2].line, frame'.pats, dev')
      BY <2>3, <3>2
    <3> HIDE DEF sent
    <3> QED BY <3>1, <3>2, <3>3 DEF Unread, Own, Harmless
  <2> QED BY <2>4, <2>5
<1> QED BY <1>1, <1>4, <1>5, <1>6, <1>8 DEF IInv

(* The prompt matched is true of the router, the answer it comes from may  *)
(* be an older one; no more than one is left behind.                       *)
LEMMA ExpectMatchStep ==
  ASSUME IInv, UNCHANGED <<dirty, call>>, ExpectMatch
  PROVE  IInv'
<1>1. /\ SessionInv(Ops, Lines)' /\ Waiting /\ ~Waiting'
      /\ UNCHANGED <<link, dev, typed, exc, lost>>
      /\ rx # <<>> /\ got'.prompt = rx[1].prompt /\ rx[1].prompt \in frame.pats
      /\ exc = "none" /\ todo # <<>> /\ todo' = Tail(todo)
  BY ExpectMatchKeeps DEF IInv
<1>2. /\ StackTyped'
      /\ After(Asked)[frame] \subseteq Entry(Before(Asked), todo, Goal)'
  BY <1>1, TailStep
<1>3. CallTyped' /\ Located' /\ (Trusted' <=> Trusted) /\ here' = <<dev, rx[1].prompt>>
  BY <1>1 DEF IInv, CallTyped, Located, Trusted, here
<1>4. /\ inq \in Seq(Line(Lines)) /\ rx \in Seq(Reply)
      /\ Len(inq) \in Nat /\ Len(rx) \in Nat /\ Len(rx) >= 1
  BY <1>1, Queues
<1>5. /\ inq' = NotDue(inq)
      /\ \E n \in 1 .. Len(rx) : rx' = NotDue(SubSeq(rx, n + 1, Len(rx)))
  BY DEF ExpectMatch
<1>6. /\ Len(inq') = Len(inq)
      /\ \A i \in 1 .. Len(inq) : inq'[i].line = inq[i].line /\ ~inq'[i].due
  BY <1>4, <1>5, Forgotten
<1>7. PICK n \in 1 .. Len(rx) : rx' = NotDue(SubSeq(rx, n + 1, Len(rx)))
  BY <1>5
<1>8. /\ Len(rx') = Len(rx) - n
      /\ \A i \in 1 .. Len(rx) - n : rx'[i].prompt = rx[n + i].prompt
  BY <1>4, <1>7, Forgotten
<1>9. After(Asked)[frame] = Seen(frame.pats)
  <2>1. frame \in Frame(Ops, Lines) /\ frame.op = "wait"
    BY <1>1, StackFacts DEF Waiting, Running
  <2> QED BY <2>1 DEF After
<1>10. ASSUME Len(rx) = 2
        PROVE  Len(rx') = 0 \/ (Len(rx') = 1 /\ rx'[1].prompt = rx[2].prompt)
  <2>1. n = 1 \/ n = 2
    BY <1>7, <1>10
  <2>2. CASE n = 1
    <3>1. Len(rx') = 1 /\ 1 \in 1 .. Len(rx) - n /\ n + 1 = 2
      BY <1>8, <1>10, <2>2
    <3> QED BY <1>8, <3>1
  <2>3. CASE n = 2
    BY <1>8, <1>10, <2>3
  <2> QED BY <2>1, <2>2, <2>3
<1>11. ASSUME Trusted
       PROVE  Slack' /\ dev = IF rx[1].prompt = "cannot" THEN "config" ELSE rx[1].prompt
  <2>0. dev \in AnyPrompt /\ dev' = dev
    BY <1>1, <1>11 DEF IInv, Located, Trusted
  <2>1. CASE Unread
    <3>1. /\ Len(inq) = 1 /\ Len(rx) = 1 /\ Own(inq[1]) /\ dev = "config"
          /\ rx[1].prompt = "config"
      BY <1>4, <2>1 DEF Unread, Stale
    <3>2. inq[1].line \in {""} \cup Cmds
      BY <1>1, <3>1, OwnStays DEF Own
    <3>3. Len(rx') = 0
      BY <1>7, <1>8, <3>1
    <3>4. Len(inq') = 1 /\ inq'[1].line = inq[1].line /\ ~inq'[1].due
      BY <1>6, <3>1
    <3>5. Harmless(inq'[1])
      BY <3>2, <3>4 DEF Harmless
    <3>6. Slack'
      BY <2>0, <3>1, <3>3, <3>4, <3>5 DEF Slack, Harmless
    <3> QED BY <3>1, <3>6
  <2>2. CASE Answered
    <3>1. Len(inq') = 0
      BY <1>6, <2>2 DEF Answered
    <3>2. CASE Len(rx) = 1
      <4>1. rx[1].prompt = dev
        BY <2>2, <3>2 DEF Answered
      <4>2. Len(rx') = 0
        BY <1>7, <1>8, <3>2
      <4> QED BY <2>0, <3>1, <4>1, <4>2 DEF Slack, AnyPrompt
    <3>3. CASE Len(rx) = 2
      <4>1. /\ rx[1].prompt = "config" /\ rx[2].prompt = dev
            /\ "config" \in frame.pats => dev = "config"
        BY <2>2, <3>3 DEF Answered, Stale
      <4>2. dev = "config"
        BY <1>1, <4>1
      <4>3. Len(rx') = 0 \/ (Len(rx') = 1 /\ rx'[1].prompt = rx[2].prompt)
        BY <1>10, <3>3
      <4> QED BY <2>0, <3>1, <4>1, <4>2, <4>3 DEF Slack, Stale
    <3> QED BY <1>4, <2>2, <3>2, <3>3 DEF Answered
  <2>3. CASE Denied
    <3>1. /\ Len(inq') = 0 /\ dev = "config" /\ frame.pats = {"cannot", "normal"}
      BY <1>6, <2>3 DEF Denied
    <3>2. Len(rx) = 2 /\ rx[1].prompt = "cannot" /\ rx[2].prompt = "config"
      BY <1>1, <2>3, <3>1 DEF Denied, Stale
    <3>3. Len(rx') = 0 \/ (Len(rx') = 1 /\ rx'[1].prompt = rx[2].prompt)
      BY <1>10, <3>2
    <3> QED BY <2>0, <3>1, <3>2, <3>3 DEF Slack, Stale
  <2> QED BY <1>1, <1>11, <2>1, <2>2, <2>3 DEF IInv, Exchanged
<1>12. Exchanged'
  BY <1>1, <1>3, <1>11 DEF Exchanged
<1>13. HereTyped'
  <2>1. ASSUME Trusted
        PROVE  here' \in Seen(frame.pats)
    <3>1. dev \in Prompts /\ rx[1].prompt \in Prompts
      <4>1. rx[1] \in Reply
        BY <1>4, ElementOfSeq
      <4> QED BY <4>1 DEF Reply, IInv, SessionInv, BaseTypeOK
    <3> QED BY <1>1, <1>3, <1>11, <2>1, <3>1 DEF Seen, Places
  <2> QED BY <1>2, <1>3, <1>9, <2>1 DEF HereTyped
<1> QED BY <1>1, <1>2, <1>3, <1>12, <1>13 DEF IInv

(* A reply that is not waited for is read over.                            *)
LEMMA ExpectMoreStep ==
  ASSUME IInv, UNCHANGED <<dirty, call>>, ExpectMore
  PROVE  IInv'
<1>1. /\ SessionInv(Ops, Lines)' /\ Waiting /\ Waiting'
      /\ UNCHANGED <<link, dev, typed, inq, exc, got, lost>>
      /\ exc = "none" /\ todo # <<>> /\ todo' # <<>> /\ Tail(todo') = Tail(todo)
      /\ rx # <<>> /\ rx[1].prompt \notin frame.pats /\ rx' = Tail(rx)
      /\ frame' = [frame EXCEPT !.out = frame'.out]
  BY ExpectMoreKeeps DEF IInv
<1>2. frame.op = "wait" /\ frame \in Frame(Ops, Lines)
  BY <1>1, StackFacts DEF Waiting, Running
<1>3. frame'.op = "wait" /\ frame'.pats = frame.pats
  BY <1>1, <1>2 DEF Frame
<1>4. todo' \in Seq(Frame(Ops, Lines))
  BY <1>1 DEF SessionInv, BaseTypeOK
<1>5. StackTyped'
  BY <1>1, <1>2, <1>3, <1>4, WaitStep
<1>6. CallTyped' /\ Located' /\ (Trusted' <=> Trusted) /\ Asked' = Asked
  BY <1>1 DEF IInv, CallTyped, Located, Trusted, Asked
<1>7. HereTyped'
  BY <1>1 DEF HereTyped
<1>8. /\ Len(rx) \in Nat /\ Len(rx) >= 1 /\ Len(rx') = Len(rx) - 1
      /\ \A i \in 1 .. Len(rx) - 1 : rx'[i] = rx[i + 1]
  <2>1. rx \in Seq(Reply) /\ Len(rx) \in Nat /\ Len(rx) >= 1
    BY <1>1, Queues
  <2> QED BY <1>1, <2>1
<1>9. ASSUME Trusted
      PROVE  (Unread \/ Answered \/ Denied)'
  <2>1. CASE Unread
    <3>1. Len(inq) = 1 /\ Len(rx) = 1 /\ Own(inq[1])
      BY <1>8, <2>1 DEF Unread
    <3>2. Len(inq') = 1 /\ Len(rx') = 0 /\ Own(inq[1])'
      BY <1>1, <1>3, <1>6, <1>8, <3>1 DEF Own
    <3> QED BY <3>2 DEF Unread
  <2>2. CASE Answered
    <3>1. Len(inq') = 0 /\ dev' = dev
      BY <1>1, <2>2 DEF Answered
    <3>2. CASE Len(rx) = 1
      <4>1. Len(rx') = 0
        BY <1>8, <3>2
      <4> QED BY <3>1, <4>1 DEF Answered
    <3>3. CASE Len(rx) = 2
      <4>1. Len(rx') = 1 /\ rx'[1] = rx[2] /\ rx[2].prompt = dev
        BY <1>8, <2>2, <3>3 DEF Answered
      <4> QED BY <3>1, <4>1 DEF Answered
    <3> QED BY <1>8, <2>2, <3>2, <3>3 DEF Answered
  <2>3. CASE Denied
    <3>1. /\ Len(inq') = 0 /\ dev' = "config" /\ frame'.pats = {"cannot", "normal"}
          /\ frame.pats = {"cannot", "normal"}
      BY <1>1, <1>3, <2>3 DEF Denied
    <3>2. Len(rx) = 3 /\ rx[2].prompt = "cannot" /\ Stale(rx[3])
      BY <1>1, <2>3, <3>1 DEF Denied
    <3>3. Len(rx') = 2 /\ rx'[1] = rx[2] /\ rx'[2] = rx[3]
      BY <1>8, <3>2
    <3> QED BY <3>1, <3>2, <3>3 DEF Denied, Stale
  <2> QED BY <1>1, <1>9, <2>1, <2>2, <2>3 DEF IInv, Exchanged
<1>10. Exchanged'
  BY <1>1, <1>6, <1>9 DEF Exchanged
<1> QED BY <1>1, <1>5, <1>6, <1>7, <1>10 DEF IInv

(* A timeout ends all reliance on the session.                             *)
LEMMA ExpectTimeoutStep ==
  ASSUME IInv, UNCHANGED <<dirty, call>>, ExpectTimeout
  PROVE  IInv'
<1>1. /\ SessionInv(Ops, Lines)' /\ lost' /\ UNCHANGED <<link, dev, typed>>
      /\ todo # <<>> /\ todo' = Tail(todo)
  BY ExpectTimeoutKeeps DEF IInv
<1>2. StackTyped'
  BY <1>1, TailStep
<1>3. CallTyped' /\ Located' /\ ~Trusted'
  BY <1>1 DEF IInv, CallTyped, Located, Trusted
<1>4. HereTyped' /\ Exchanged'
  BY <1>3 DEF HereTyped, Exchanged
<1> QED BY <1>1, <1>2, <1>3, <1>4 DEF IInv

(* Every step of an exchange the thread takes, once the session is open.   *)
LEMMA ExchangeKeeps ==
  ASSUME IInv, UNCHANGED <<dirty, call>>, Exchange
  PROVE  IInv'
<1>1. CASE SendFails
  <2>1. /\ ~Waiting /\ exc' # "none" /\ UNCHANGED <<wire, got>>
        /\ todo # <<>> /\ todo' = Tail(todo) /\ exc' \in Excs \cup {"none"}
    BY <1>1, SendFailsKeeps DEF IInv, SessionInv, BaseTypeOK
  <2> QED BY <2>1, RaiseStep
<1>2. CASE ExpectClosed
  <2>1. /\ link = "dead" /\ exc' # "none" /\ UNCHANGED <<wire, got>>
        /\ todo # <<>> /\ todo' = Tail(todo) /\ exc' \in Excs \cup {"none"}
    BY <1>2, ExpectClosedKeeps DEF IInv, SessionInv, BaseTypeOK
  <2> QED BY <2>1, RaiseStep
<1> QED BY <1>1, <1>2, SendSucceedsStep, ExpectMatchStep, ExpectMoreStep, ExpectTimeoutStep DEF Exchange, Expect

-----------------------------------------------------------------------------
(* The router and the network.                                             *)

(* What the router answers with, and which lines take it out of            *)
(* configuration mode.                                                     *)
LEMMA EffectsTyped ==
  ASSUME NEW line
  PROVE  /\ FromNormal(line) \in SUBSET Effect /\ FromConfig(line) \in SUBSET Effect
         /\ \A e \in FromNormal(line) \cup FromConfig(line) : e.prompt \in AnyPrompt
         /\ line \notin {"exit", "exit discard"} =>
              \A e \in FromConfig(line) : e.prompt = "config"
<1>1. "normal" \in Prompts /\ "config" \in Prompts
  BY DEF Prompts
<1>2. ASSUME NEW m \in AnyPrompt
      PROVE  /\ Stay(m) \subseteq Effect /\ Refuse(m) \subseteq Effect
             /\ Show(m) \subseteq Effect
             /\ \A e \in Stay(m) \cup Refuse(m) \cup Show(m) : e.prompt = m
  <2>1. m \in Prompts
    BY <1>1 DEF AnyPrompt
  <2> QED BY <2>1, EffectParts DEF Stay, Refuse, Show, To, Unknown
<1>3. "normal" \in AnyPrompt /\ "config" \in AnyPrompt
  BY DEF AnyPrompt
<1>4. FromNormal(line) \in {Stay("normal"), Stay("config"), Show("normal"), Refuse("normal")}
  BY DEF FromNormal
<1>5. /\ FromConfig(line) \in {Stay("config"), Stay("normal"), Show("config"), Refuse("config")}
      /\ line \notin {"exit", "exit discard"} =>
           FromConfig(line) \in {Stay("config"), Show("config"), Refuse("config")}
  BY OwnLines DEF FromConfig
<1>6. FromNormal(line) \in SUBSET Effect /\ FromConfig(line) \in SUBSET Effect
  BY <1>2, <1>3, <1>4, <1>5
<1>7. \A e \in FromNormal(line) \cup FromConfig(line) : e.prompt \in AnyPrompt
  <2>1. \A m \in AnyPrompt : \A e \in Stay(m) \cup Refuse(m) \cup Show(m) : e.prompt \in AnyPrompt
    BY <1>2
  <2>2. \A e \in FromNormal(line) : e.prompt \in AnyPrompt
    BY <1>3, <1>4, <2>1
  <2>3. \A e \in FromConfig(line) : e.prompt \in AnyPrompt
    BY <1>3, <1>5, <2>1
  <2> QED BY <2>2, <2>3
<1>8. ASSUME line \notin {"exit", "exit discard"}, NEW e \in FromConfig(line)
      PROVE  e.prompt = "config"
  BY <1>2, <1>3, <1>5, <1>8
<1> QED BY <1>6, <1>7, <1>8

(* What is known of every answer, whoever waits for it.                    *)
LEMMA AnswerFacts ==
  ASSUME IInv, Answer
  PROVE  /\ SessionInv(Ops, Lines)' /\ (Waiting' <=> Waiting)
         /\ UNCHANGED <<link, todo, exc, got, lost>>
         /\ link = "open" /\ Head(inq) = inq[1] /\ Len(inq) # 0
         /\ typed' = FALSE /\ dev' \in AnyPrompt
         /\ Len(inq) = 1 => Len(inq') = 0
         /\ Len(inq) = 2 => Len(inq') = 1 /\ inq'[1] = inq[2]
         /\ Len(rx) = 0 => Len(rx') = 1 /\ rx'[1].prompt = dev'
         /\ Len(rx) = 1 => Len(rx') = 2 /\ rx'[1] = rx[1] /\ rx'[2].prompt = dev'
         /\ dev = "config" /\ inq[1].line \notin {"exit", "exit discard"} => dev' = "config"
<1> DEFINE line == Head(inq).line
           effects == IF dev = "config" THEN FromConfig(line) ELSE FromNormal(line)
<1>1. effects \in SUBSET Effect
  BY EffectsTyped
<1>2. DeviceAnswers(effects)
  BY DEF Answer
<1>3. /\ SessionInv(Ops, Lines)' /\ (Waiting' <=> Waiting)
      /\ UNCHANGED <<link, todo, exc, got, lost>>
      /\ link = "open" /\ inq # <<>> /\ inq' = Tail(inq) /\ Head(inq) = inq[1]
  <2> HIDE DEF effects
  <2> QED BY <1>1, <1>2, AnswerKeeps DEF IInv
<1>4. /\ inq \in Seq(Line(Lines)) /\ rx \in Seq(Reply)
      /\ Len(inq) \in Nat /\ Len(rx) \in Nat /\ Len(inq) >= 1
  BY <1>3, Queues
<1>5. typed = FALSE
  BY DEF IInv, Located, SessionInv, BaseTypeOK
<1>6. PICK e \in effects :
        /\ dev' = e.prompt
        /\ rx' = Append(rx, [prompt |-> e.prompt, out |-> e.out,
                             due |-> Head(inq).due])
  BY <1>2, <1>5 DEF DeviceAnswers
<1>7. dev' \in AnyPrompt
  BY <1>6, EffectsTyped
<1>8. dev = "config" /\ inq[1].line \notin {"exit", "exit discard"} => dev' = "config"
  BY <1>3, <1>6, EffectsTyped
<1>9. /\ Len(inq') = Len(inq) - 1
      /\ \A i \in 1 .. Len(inq) - 1 : inq'[i] = inq[i + 1]
  BY <1>3, <1>4
<1> DEFINE r == [prompt |-> e.prompt, out |-> e.out, due |-> Head(inq).due]
<1>10. rx' = Append(rx, r) /\ r.prompt = dev'
  BY <1>6
<1> HIDE DEF r
<1>11. /\ Len(rx') = Len(rx) + 1 /\ rx'[Len(rx) + 1] = r
       /\ \A i \in 1 .. Len(rx) : rx'[i] = rx[i]
  BY <1>4, <1>10
<1>12. /\ Len(inq) # 0
       /\ Len(inq) = 1 => Len(inq') = 0
       /\ Len(inq) = 2 => Len(inq') = 1 /\ inq'[1] = inq[2]
  <2>1. ASSUME Len(inq) = 2
        PROVE  inq'[1] = inq[2]
    <3>1. 1 \in 1 .. Len(inq) - 1 /\ 1 + 1 = 2
      BY <2>1
    <3> QED BY <1>9, <3>1
  <2> QED BY <1>4, <1>9, <2>1
<1>13. /\ Len(rx) = 0 => Len(rx') = 1 /\ rx'[1].prompt = dev'
       /\ Len(rx) = 1 => Len(rx') = 2 /\ rx'[1] = rx[1] /\ rx'[2].prompt = dev'
  BY <1>4, <1>10, <1>11
<1>14. typed' = FALSE
  BY <1>2 DEF DeviceAnswers
<1> QED BY <1>3, <1>4, <1>7, <1>8, <1>12, <1>13, <1>14

(* An answer counts a run of the user's command, and changes nothing else  *)
(* of the call.                                                            *)
LEMMA CallAnswered ==
  ASSUME IInv, Ran(Head(inq))
  PROVE  call' \in CallRecord /\ Asked' = Asked /\ Goal' = Goal /\ call'.op = call.op
<1>1. call \in CallRecord
  BY DEF IInv, CallTyped
<1>2. /\ [call EXCEPT !.runs = @ + 1] \in CallRecord
      /\ [call EXCEPT !.runs = @ + 1].op = call.op
      /\ [call EXCEPT !.runs = @ + 1].mode = call.mode
      /\ [call EXCEPT !.runs = @ + 1].force = call.force
  BY <1>1 DEF CallRecord
<1>3. call' = [call EXCEPT !.runs = @ + 1] \/ call' = call
  BY DEF Ran
<1>4. /\ call' \in CallRecord /\ call'.op = call.op
      /\ call'.mode = call.mode /\ call'.force = call.force
  BY <1>1, <1>2, <1>3
<1> QED BY <1>4 DEF Asked, Goal

(* An answer: the router moves as the line it read says.                   *)
LEMMA AnswerStep ==
  ASSUME IInv, Answer
  PROVE  IInv'
<1>1. /\ SessionInv(Ops, Lines)' /\ (Waiting' <=> Waiting)
      /\ UNCHANGED <<link, todo, exc, got, lost>>
      /\ link = "open" /\ Head(inq) = inq[1] /\ Len(inq) # 0
      /\ typed' = FALSE /\ dev' \in AnyPrompt
      /\ Len(inq) = 1 => Len(inq') = 0
      /\ Len(inq) = 2 => Len(inq') = 1 /\ inq'[1] = inq[2]
      /\ Len(rx) = 0 => Len(rx') = 1 /\ rx'[1].prompt = dev'
      /\ Len(rx) = 1 => Len(rx') = 2 /\ rx'[1] = rx[1] /\ rx'[2].prompt = dev'
      /\ dev = "config" /\ inq[1].line \notin {"exit", "exit discard"} => dev' = "config"
  BY AnswerFacts
<1>2. call' \in CallRecord /\ Asked' = Asked /\ Goal' = Goal /\ call'.op = call.op
  BY CallAnswered DEF Answer
<1>3. dirty \in BOOLEAN /\ dirty' \in BOOLEAN /\ (dirty' => dev' = "config")
  <2>1. dirty \in BOOLEAN
    BY DEF IInv, CallTyped
  <2>2. CASE dev # "config" \/ Head(inq).line = "exit discard"
    BY <2>1, <2>2 DEF Answer
  <2>3. CASE dev = "config" /\ Head(inq).line = "exit"
    <3>1. ~dirty
      BY <2>3 DEF Answer, RefusesToExit
    <3>2. dirty' \in {dirty}
      BY <2>3 DEF Answer
    <3> QED BY <2>1, <3>1, <3>2
  <2>4. CASE dev = "config" /\ Head(inq).line \notin {"exit", "exit discard"}
    <3>1. dirty' \in {dirty, TRUE, FALSE}
      BY <2>4 DEF Answer
    <3> QED BY <1>1, <2>1, <2>4, <3>1
  <2> QED BY <2>2, <2>3, <2>4
<1>4. CallTyped' /\ Located' /\ (Trusted' <=> Trusted)
  BY <1>1, <1>2, <1>3 DEF CallTyped, Located, Trusted
<1>5. StackTyped'
  <2> DEFINE N == Before(Asked)
             L == After(Asked)
             G == Goal
  <2>1. N' = N /\ L' = L /\ G' = G
    BY <1>2
  <2>2. Flow(N, L, todo, G) /\ todo' = todo
    BY <1>1 DEF IInv, StackTyped
  <2> HIDE DEF N, L, G
  <2>3. Flow(N', L', todo', G')
    BY <2>1, <2>2
  <2>4. todo' # <<>> /\ frame'.op = "open" => call'.op = "start"
    BY <1>1, <1>2 DEF IInv, StackTyped, frame
  <2> QED BY <2>3, <2>4 DEF StackTyped, N, L, G
<1>6. Len(inq) # 0
  BY <1>1
<1>7. frame' = frame
  BY <1>1 DEF frame
<1>8. ASSUME Trusted, ~Waiting
      PROVE  Slack' /\ dev' = dev
  <2>1. /\ Len(inq) = 1 /\ Len(rx) = 0 /\ dev = "config"
        /\ inq[1].line \in {""} \cup Cmds
    BY <1>6, <1>8 DEF IInv, Exchanged, Slack, Harmless
  <2>2. dev' = "config"
    BY <1>1, <2>1, OwnLines
  <2>3. Len(inq') = 0 /\ Len(rx') = 1 /\ rx'[1].prompt = dev'
    BY <1>1, <2>1
  <2> QED BY <2>1, <2>2, <2>3 DEF Slack, Stale
<1>9. ASSUME Trusted, Waiting
      PROVE  (Unread \/ Answered \/ Denied)'
  <2>0. Unread
    BY <1>6, <1>9 DEF IInv, Exchanged, Answered, Denied
  <2>1. CASE Len(inq) = 1 /\ Len(rx) = 0
    <3>1. Len(inq') = 0 /\ Len(rx') = 1 /\ rx'[1].prompt = dev'
      BY <1>1, <2>1
    <3> QED BY <3>1 DEF Answered
  <2>2. CASE Len(inq) = 1 /\ Len(rx) = 1 /\ Own(inq[1]) /\ dev = "config" /\ Stale(rx[1])
    <3>1. /\ Len(inq') = 0 /\ Len(rx') = 2 /\ rx'[1] = rx[1] /\ rx'[2].prompt = dev'
      BY <1>1, <2>2
    <3>2. "config" \in frame'.pats => dev' = "config"
      <4>1. ASSUME "config" \in frame.pats
            PROVE  dev' = "config"
        <5>1. inq[1].line \in {""} \cup Cmds
          BY <2>2, <4>1, OwnStays DEF Own
        <5> QED BY <1>1, <2>2, <5>1, OwnLines
      <4> QED BY <1>7, <4>1
    <3> QED BY <2>2, <3>1, <3>2 DEF Answered, Stale
  <2>3. CASE Len(inq) = 2 /\ Len(rx) = 0 /\ Own(inq[2]) /\ dev = "config" /\ Harmless(inq[1])
    <3>1. dev' = "config"
      BY <1>1, <2>3, OwnLines DEF Harmless
    <3>2. /\ Len(inq') = 1 /\ inq'[1] = inq[2]
          /\ Len(rx') = 1 /\ rx'[1].prompt = dev'
      BY <1>1, <2>3
    <3>3. SentIn(Asked', inq'[1].line, frame'.pats, dev')
      BY <1>2, <1>7, <2>3, <3>1, <3>2 DEF Own
    <3> QED BY <3>1, <3>2, <3>3 DEF Unread, Own, Stale
  <2> QED BY <2>0, <2>1, <2>2, <2>3 DEF Unread
<1>10. Exchanged'
  BY <1>1, <1>4, <1>8, <1>9 DEF Exchanged
<1>11. HereTyped'
  <2> DEFINE N == Before(Asked)
             G == Goal
  <2>1. N' = N /\ G' = G
    BY <1>2
  <2>2. ASSUME Trusted, exc = "none", ~Waiting
        PROVE  here' \in Entry(N', todo', G')
    <3>1. here \in Entry(N, todo, G) /\ here' = here /\ todo' = todo
      BY <1>1, <1>8, <2>2 DEF IInv, HereTyped, here
    <3> HIDE DEF N, G
    <3> QED BY <2>1, <3>1
  <2> QED BY <1>1, <1>4, <2>2 DEF HereTyped
<1> QED BY <1>1, <1>4, <1>5, <1>10, <1>11 DEF IInv

(* A refused exit: two replies to one line.                                *)
LEMMA RefuseExitStep ==
  ASSUME IInv, RefuseExit
  PROVE  IInv'
<1> DEFINE due == Head(inq).due
<1>1. /\ link = "open" /\ inq # <<>> /\ dev = "config" /\ dirty /\ Head(inq).line = "exit"
      /\ UNCHANGED <<link, dev, typed, todo, exc, got, lost, dirty, call>>
      /\ inq' = Tail(inq)
  BY DEF RefuseExit, RefusesToExit
<1>2. PICK rest \in {"none", "text"} :
        rx' = rx \o <<[prompt |-> "cannot", out |-> "none", due |-> due],
                      [prompt |-> "config", out |-> rest, due |-> due]>>
  BY DEF RefuseExit
<1>3. /\ inq \in Seq(Line(Lines)) /\ rx \in Seq(Reply)
      /\ Len(inq) \in Nat /\ Len(rx) \in Nat /\ Len(inq) >= 1
  BY <1>1, Queues
<1>4. Head(inq) = inq[1] /\ due \in BOOLEAN
  <2>1. Head(inq) = inq[1] /\ inq[1] \in Line(Lines)
    BY <1>3
  <2> QED BY <2>1 DEF Line
<1> DEFINE a == [prompt |-> "cannot", out |-> "none", due |-> due]
           b == [prompt |-> "config", out |-> rest, due |-> due]
<1>5. a \in Reply /\ b \in Reply /\ a.prompt = "cannot" /\ b.prompt = "config"
  BY <1>4 DEF Reply, Prompts, Outs
<1>6. rx' = rx \o <<a, b>>
  BY <1>2
<1> HIDE DEF a, b, due
<1>7. /\ rx' \in Seq(Reply) /\ Len(rx') = Len(rx) + 2
      /\ \A i \in 1 .. Len(rx) : rx'[i] = rx[i]
      /\ rx'[Len(rx) + 1] = a /\ rx'[Len(rx) + 2] = b
  <2>1. /\ <<a, b>> \in Seq(Reply) /\ Len(<<a, b>>) = 2
        /\ <<a, b>>[1] = a /\ <<a, b>>[2] = b /\ 1 \in 1 .. 2 /\ 2 \in 1 .. 2
    BY <1>5
  <2> DEFINE p == <<a, b>>
  <2> HIDE DEF p
  <2>2. /\ p \in Seq(Reply) /\ Len(p) = 2 /\ p[1] = a /\ p[2] = b
    BY <2>1 DEF p
  <2>3. rx' = rx \o p
    BY <1>6 DEF p
  <2>4. /\ rx' \in Seq(Reply) /\ Len(rx') = Len(rx) + Len(p)
        /\ \A i \in 1 .. Len(rx) : rx'[i] = rx[i]
        /\ \A i \in 1 .. Len(p) : rx'[Len(rx) + i] = p[i]
    <3>1. rx \in Seq(Reply) /\ p \in Seq(Reply)
      BY <1>3, <2>2
    <3>2. /\ rx \o p \in Seq(Reply) /\ Len(rx \o p) = Len(rx) + Len(p)
          /\ \A i \in 1 .. Len(rx) : (rx \o p)[i] = rx[i]
          /\ \A i \in 1 .. Len(p) : (rx \o p)[Len(rx) + i] = p[i]
      BY ONLY <3>1, ConcatProperties
    <3> QED BY <2>3, <3>2
  <2> QED BY <2>1, <2>2, <2>4
<1>8. inq' \in Seq(Line(Lines)) /\ Len(inq') = Len(inq) - 1
  BY <1>1, <1>3
<1>9. SessionInv(Ops, Lines)' /\ (Waiting' <=> Waiting) /\ frame' = frame
  <2>1. BaseTypeOK(Ops, Lines)'
    BY <1>1, <1>7, <1>8 DEF IInv, SessionInv, BaseTypeOK
  <2>2. frame' = frame /\ (Waiting' <=> Waiting)
    BY <1>1 DEF frame, Waiting, Running
  <2>3. StackShape(Ops, Lines)'
    BY <1>1, <2>2 DEF IInv, SessionInv, StackShape
  <2>4. SentWhileOpen'
    BY <1>1 DEF SentWhileOpen
  <2> QED BY <2>1, <2>2, <2>3, <2>4 DEF SessionInv
<1>10. CallTyped' /\ Located' /\ (Trusted' <=> Trusted) /\ here' = here
  BY <1>1 DEF IInv, CallTyped, Located, Trusted, here
<1>11. StackTyped'
  BY <1>1 DEF IInv, StackTyped, Asked, Goal, frame
<1>12. HereTyped'
  <2>1. HereTyped
    BY DEF IInv
  <2>2. Asked' = Asked /\ Goal' = Goal
    BY <1>1 DEF Asked, Goal
  <2> QED BY <1>1, <1>9, <1>10, <2>1, <2>2 DEF HereTyped
<1>13. ASSUME Trusted
       PROVE  Waiting /\ Denied'
  <2>1. /\ ~Harmless(inq[1])
        /\ Own(inq[1]) => frame.pats = {"cannot", "normal"}
    BY <1>1, <1>4, OwnLines DEF Harmless, Own, SentIn, Paging
  <2>2. Waiting /\ Unread
    BY <1>3, <1>13, <2>1 DEF IInv, Exchanged, Slack, Answered, Denied
  <2>3. frame'.pats = {"cannot", "normal"} /\ dev' = "config"
    BY <1>1, <1>9, <2>1, <2>2 DEF Unread
  <2>4. CASE Len(inq) = 1 /\ Len(rx) = 0
    <3>1. Len(inq') = 0 /\ Len(rx') = 2 /\ rx'[1] = a /\ rx'[2] = b
      BY <1>7, <1>8, <2>4
    <3> QED BY <1>5, <2>2, <2>3, <3>1 DEF Denied, Stale
  <2>5. CASE Len(inq) = 1 /\ Len(rx) = 1 /\ Stale(rx[1])
    <3>1. /\ Len(inq') = 0 /\ Len(rx') = 3 /\ rx'[1] = rx[1]
          /\ rx'[2] = a /\ rx'[3] = b
      BY <1>7, <1>8, <2>5
    <3> QED BY <1>5, <2>2, <2>3, <2>5, <3>1 DEF Denied, Stale
  <2> QED BY <2>1, <2>2, <2>4, <2>5 DEF Unread
<1>14. Exchanged'
  BY <1>9, <1>10, <1>13 DEF Exchanged
<1> QED BY <1>9, <1>10, <1>11, <1>12, <1>14 DEF IInv

(* A lost connection takes the changes with it.                            *)
LEMMA LoseSessionStep ==
  ASSUME IInv, LoseSession
  PROVE  IInv'
<1>1. /\ SessionInv(Ops, Lines)' /\ link' = "dead" /\ typed' = FALSE /\ dirty' = FALSE
      /\ UNCHANGED <<todo, exc, got, call>>
  BY DropKeeps DEF IInv, LoseSession, Drop
<1>2. CallTyped' /\ Located' /\ ~Trusted'
  BY <1>1 DEF IInv, CallTyped, Located, Trusted
<1>3. StackTyped'
  BY <1>1 DEF IInv, StackTyped, Asked, Goal, frame
<1>4. HereTyped' /\ Exchanged'
  BY <1>2 DEF HereTyped, Exchanged
<1> QED BY <1>1, <1>2, <1>3, <1>4 DEF IInv

-----------------------------------------------------------------------------
(* The user.                                                               *)

(* A call asks for a mode; its program starts wherever the router is and   *)
(* ends where the call asks for.                                           *)
LEMMA CallKeeps ==
  ASSUME IInv, NEW op, NEW mode, NEW force, NEW cmd, NEW prog,
         Idle, Call(op, mode, force, cmd, prog), NewCall(op, mode, force, cmd) \in CallRecord,
         prog \in Seq(Frame(Ops, Lines)), prog # <<>>,
         Tail(prog) \in Seq(Inner(Ops, Lines)), Head(prog).op # "wait",
         Head(prog).op = "open" => op = "start",
         NEW goal, goal = IF op = "enter_mode" THEN {q \in Places : q[1] = mode} ELSE Places,
         Flow(Before(<<mode, force>>), After(<<mode, force>>), prog, goal),
         Entry(Before(<<mode, force>>), prog, goal) = Places
  PROVE  IInv'
<1>1. /\ todo = <<>> /\ todo' = prog /\ exc' = "none"
      /\ UNCHANGED <<wire, got, dirty>> /\ call' = NewCall(op, mode, force, cmd)
  BY DEF Call, Idle
<1>2. UNCHANGED <<link, dev, typed, inq, rx, lost>>
  BY <1>1 DEF wire
<1>3. call'.op = op /\ call'.mode = mode /\ call'.force = force
  BY <1>1 DEF NewCall
<1>4. Asked' = <<mode, force>> /\ Goal' = goal
  BY <1>3 DEF Asked, Goal
<1>5. ~Waiting /\ ~Waiting' /\ frame' = Head(prog)
  BY <1>1 DEF Waiting, Running, frame
<1>6. SessionInv(Ops, Lines)'
  <2>1. BaseTypeOK(Ops, Lines)'
    BY <1>1, <1>2 DEF IInv, SessionInv, BaseTypeOK
  <2>2. StackShape(Ops, Lines)'
    BY <1>1, <1>2, <1>5 DEF StackShape
  <2> QED BY <1>2, <2>1, <2>2 DEF IInv, SessionInv, SentWhileOpen
<1>7. CallTyped' /\ Located' /\ (Trusted' <=> Trusted) /\ here' = here
  BY <1>1, <1>2 DEF IInv, CallTyped, Located, Trusted, here
<1>8. StackTyped'
  BY <1>1, <1>3, <1>4, <1>5 DEF StackTyped
<1>9. HereTyped'
  <2>1. Trusted => here \in Entry(Before(Asked'), todo', Goal')
    BY <1>1, <1>4, HereInPlaces
  <2> QED BY <1>7, <2>1 DEF HereTyped
<1>10. Exchanged'
  <2>1. Trusted => Slack
    BY <1>5 DEF IInv, Exchanged
  <2>2. Slack' <=> Slack
    BY <1>2 DEF Slack
  <2> QED BY <1>5, <1>7, <2>1, <2>2 DEF Exchanged
<1> QED BY <1>6, <1>7, <1>8, <1>9, <1>10 DEF IInv

(* As CallKeeps, for a program of inner instructions.                      *)
LEMMA InnerCallKeeps ==
  ASSUME IInv, NEW op, NEW mode, NEW force, NEW cmd, NEW prog,
         Idle, Call(op, mode, force, cmd, prog), NewCall(op, mode, force, cmd) \in CallRecord,
         prog # <<>>,
         NEW goal, goal = IF op = "enter_mode" THEN {q \in Places : q[1] = mode} ELSE Places,
         Fits(<<mode, force>>, prog, goal),
         Entry(Before(<<mode, force>>), prog, goal) = Places
  PROVE  IInv'
<1>1. /\ prog \in Seq(Inner(Ops, Lines))
      /\ Flow(Before(<<mode, force>>), After(<<mode, force>>), prog, goal)
  BY DEF Fits
<1>2. Head(prog) \in Inner(Ops, Lines) /\ Tail(prog) \in Seq(Inner(Ops, Lines))
  BY <1>1, HeadTailProperties
<1>3. prog \in Seq(Frame(Ops, Lines)) /\ Head(prog).op \notin {"open", "wait"}
  BY <1>1, <1>2, InnerIsFrame DEF Inner
<1> QED BY <1>1, <1>2, <1>3, CallKeeps

(* Every call of the user, and exit.                                       *)
LEMMA UserKeeps ==
  ASSUME IInv, User
  PROVE  IInv'
<1>1. CASE CallStart
  <2> DEFINE no == FALSE
             g  == <<"none", no>>
  <2>1. Idle /\ Call("start", "none", no, "none", Start)
    BY <1>1 DEF CallStart, Ready
  <2>2. NewCall("start", "none", no, "none") \in CallRecord
    BY DEF NewCall, CallRecord
  <2> HIDE DEF no
  <2>3. /\ Start \in Seq(Frame(Ops, Lines)) /\ Start # <<>>
        /\ Head(Start) = Open({"normal"}) /\ Tail(Start) \in Seq(Inner(Ops, Lines))
        /\ Flow(Before(g), After(g), Start, Places)
        /\ Entry(Before(g), Start, Places) = Places
    BY StartFits
  <2>4. Head(Start).op = "open"
    BY <2>3 DEF Open, Do
  <2> QED BY <2>1, <2>2, <2>3, <2>4, CallKeeps
<1>2. CASE CallEnterMode
  <2>1. PICK mode \in {"normal", "config", "enable"}, force \in BOOLEAN :
          Call("enter_mode", mode, force, "none", EnterMode(mode, force))
    BY <1>2 DEF CallEnterMode
  <2>2. Idle /\ NewCall("enter_mode", mode, force, "none") \in CallRecord
    BY <1>2 DEF CallEnterMode, Ready, NewCall, CallRecord, Modes
  <2> DEFINE goal == {q \in Places : q[1] = mode}
  <2>3. /\ Fits(<<mode, force>>, EnterMode(mode, force), goal)
        /\ Entry(Before(<<mode, force>>), EnterMode(mode, force), goal) = Places
        /\ EnterMode(mode, force) # <<>>
    BY EnterModeFits
  <2> QED BY <2>1, <2>2, <2>3, InnerCallKeeps
<1>3. CASE CallExecCommand
  <2>1. PICK cmd \in Cmds, mode \in {"normal", "config", "none"}, force \in BOOLEAN,
             output \in {"any", "none", "text"} :
          Call("exec_command", mode, force, cmd, ExecCommand(cmd, mode, force, output))
    BY <1>3 DEF CallExecCommand
  <2>2. Idle /\ NewCall("exec_command", mode, force, cmd) \in CallRecord
    BY <1>3 DEF CallExecCommand, Ready, NewCall, CallRecord, Modes
  <2> DEFINE prog == ExecCommand(cmd, mode, force, output)
  <2>3. /\ Fits(<<mode, force>>, prog, Places) /\ prog # <<>>
        /\ Entry(Before(<<mode, force>>), prog, Places) = Places
    BY ExecFits
  <2>4. Call("exec_command", mode, force, cmd, prog)
    BY <2>1
  <2> HIDE DEF prog
  <2> QED BY <2>2, <2>3, <2>4, InnerCallKeeps
<1>4. CASE Exit
  <2>1. /\ todo = <<>> /\ UNCHANGED <<todo, got>> /\ CleanupHelper /\ exc' = "none"
        /\ call' = NewCall("exit", "none", FALSE, "none") /\ dirty' = FALSE
    BY <1>4 DEF Exit, Idle
  <2>2. /\ todo' \in Seq(Frame(Ops, Lines)) /\ StackShape(Ops, Lines)'
        /\ exc' \in Excs \cup {"none"} /\ got' \in Reply
    BY <2>1 DEF StackShape, IInv, SessionInv, BaseTypeOK
  <2>3. SessionInv(Ops, Lines)'
    BY <2>1, <2>2, CleanupKeepsSession DEF IInv
  <2>4. link' = "none" /\ typed' = FALSE
    BY <2>1 DEF CleanupHelper
  <2>5. CallTyped' /\ Located' /\ ~Trusted'
    BY <2>1, <2>4 DEF CallTyped, NewCall, CallRecord, Located, Trusted
  <2>6. StackTyped'
    BY <2>1 DEF StackTyped, Flow
  <2>7. HereTyped' /\ Exchanged'
    BY <2>5 DEF HereTyped, Exchanged
  <2> QED BY <2>3, <2>5, <2>6, <2>7 DEF IInv
<1> QED BY <1>1, <1>2, <1>3, <1>4 DEF User

-----------------------------------------------------------------------------
(* The invariant.                                                          *)

(* A new CLI object satisfies it.                                          *)
LEMMA InitIInv == Init => IInv
<1> SUFFICES ASSUME Init
             PROVE  IInv
  OBVIOUS
<1>1. /\ link = "none" /\ dev = "shell" /\ typed = FALSE /\ lost = FALSE
      /\ inq = <<>> /\ rx = <<>> /\ todo = <<>> /\ exc = "none"
      /\ got = [prompt |-> "shell", out |-> "none", due |-> TRUE]
      /\ dirty = FALSE /\ call = NewCall("none", "none", FALSE, "none")
  BY DEF Init, BaseInit, NoSession
<1>2. /\ inq \in Seq(Line(Lines)) /\ rx \in Seq(Reply) /\ todo \in Seq(Frame(Ops, Lines))
  BY <1>1
<1>3. got \in Reply /\ link \in Links /\ dev \in Prompts
  BY <1>1 DEF Reply, Prompts, Outs, Links
<1>4. SessionInv(Ops, Lines)
  BY <1>1, <1>2, <1>3 DEF SessionInv, BaseTypeOK, StackShape, SentWhileOpen
<1>5. CallTyped /\ Located /\ ~Trusted
  BY <1>1 DEF CallTyped, NewCall, CallRecord, Located, Trusted
<1>6. StackTyped
  BY <1>1 DEF StackTyped, Flow
<1>7. HereTyped /\ Exchanged
  BY <1>5 DEF HereTyped, Exchanged
<1> QED BY <1>4, <1>5, <1>6, <1>7 DEF IInv

(* It survives a step in which nothing happens.                            *)
LEMMA StutterIInv == IInv /\ UNCHANGED vars => IInv'
<1> SUFFICES ASSUME IInv, UNCHANGED vars
             PROVE  IInv'
  OBVIOUS
<1>1. UNCHANGED <<link, dev, typed, inq, rx, todo, exc, got, lost, dirty, call>>
  BY DEF vars, baseVars, wire
<1>2. SessionInv(Ops, Lines)' /\ frame' = frame /\ (Waiting' <=> Waiting)
  BY <1>1 DEF IInv, SessionInv, BaseTypeOK, StackShape, SentWhileOpen, frame,
              Waiting, Running
<1>3. /\ CallTyped' /\ Located' /\ (Trusted' <=> Trusted) /\ here' = here
      /\ Asked' = Asked /\ Goal' = Goal
  BY <1>1 DEF IInv, CallTyped, Located, Trusted, here, Asked, Goal
<1>4. StackTyped'
  BY <1>1, <1>2, <1>3 DEF IInv, StackTyped
<1>5. HereTyped'
  BY <1>1, <1>2, <1>3 DEF IInv, HereTyped
<1>6. Exchanged'
  <2>1. Exchanged
    BY DEF IInv
  <2>2. Slack' <=> Slack
    BY <1>1 DEF Slack
  <2>3. (Unread' <=> Unread) /\ (Answered' <=> Answered) /\ (Denied' <=> Denied)
    BY <1>1, <1>2, <1>3 DEF Unread, Own, Answered, Denied
  <2> QED BY <1>2, <1>3, <2>1, <2>2, <2>3 DEF Exchanged
<1> QED BY <1>2, <1>3, <1>4, <1>5, <1>6 DEF IInv

(* It is kept by every step.                                               *)
LEMMA NextIInv == IInv /\ Next => IInv'
<1> SUFFICES ASSUME IInv, Next
             PROVE  IInv'
  OBVIOUS
<1>1. CASE Client
  <2>1. UNCHANGED call /\ (Opening \/ Exchange \/ Local)
    BY <1>1 DEF Client
  <2>2. CASE Opening
    BY <2>1, <2>2, OpenFailsStep, OpenSucceedsStep DEF Opening
  <2>3. CASE Exchange
    BY <2>1, <2>3, ExchangeKeeps DEF Exchange
  <2>4. CASE Local
    BY <2>1, <2>4, LocalKeeps DEF Local
  <2> QED BY <2>1, <2>2, <2>3, <2>4
<1> QED BY <1>1, UserKeeps, AnswerStep, RefuseExitStep, LoseSessionStep DEF Next

(* The inductive invariant holds always: the CLI is at most one prompt, or *)
(* one harmless line, behind the router, and every instruction it has yet  *)
(* to execute finds the router in the mode the instruction needs.          *)
THEOREM Invariance == Spec => []IInv
<1>1. IInv /\ [Next]_vars => IInv'
  BY NextIInv, StutterIInv
<1> QED BY <1>1, InitIInv, PTL DEF Spec

-----------------------------------------------------------------------------
(* What it implies.                                                        *)

(* VyattaCLI: every variable has its type.                                 *)
THEOREM TypeCorrect == Spec => []TypeOK
<1>1. IInv => TypeOK
  BY DEF IInv, SessionInv, CallTyped, TypeOK
<1> QED BY <1>1, Invariance, PTL

(* However often the router refuses to leave configuration mode, the CLI   *)
(* falls at most one reply behind it, as long as no expect() was given up. *)
THEOREM BehindByOne == Spec => []AtMostOneReplyBehind
<1>1. ASSUME IInv
      PROVE  AtMostOneReplyBehind
  <2> SUFFICES ASSUME Trusted
               PROVE  Backlog <= IF Waiting THEN 3 ELSE 1
    BY DEF AtMostOneReplyBehind, Trusted
  <2>1. CASE Waiting
    <3>1. Unread \/ Answered \/ Denied
      BY <1>1, <2>1 DEF IInv, Exchanged
    <3>2. Len(inq) \in 0 .. 2 /\ Len(rx) \in 0 .. 3 /\ (Len(inq) # 0 => Len(rx) \in 0 .. 1)
      BY <3>1 DEF Unread, Answered, Denied
    <3>3. \A m \in 0 .. 2, n \in 0 .. 3 : (m # 0 => n \in 0 .. 1) => m + n <= 3
      OBVIOUS
    <3> QED BY <2>1, <3>2, <3>3 DEF Backlog
  <2>2. CASE ~Waiting
    BY <1>1, <2>2 DEF IInv, Exchanged, Slack, Backlog
  <2> QED BY <2>1, <2>2
<1> QED BY <1>1, Invariance, PTL

(* enter_mode of VyattaCLI returns only in the mode asked for, although    *)
(* the prompt it matched last may be one left behind by a refused exit.    *)
THEOREM Lands == Spec => []EnterModeLands
<1>1. ASSUME IInv
      PROVE  EnterModeLands
  <2> SUFFICES ASSUME todo = <<>>, exc = "none", call.op = "enter_mode", Trusted
               PROVE  dev = call.mode
    BY DEF EnterModeLands, Idle, Trusted
  <2>1. ~Waiting
    BY DEF Waiting, Running
  <2>2. here \in Goal
    BY <1>1, <2>1 DEF IInv, HereTyped, Entry
  <2> QED BY <2>2 DEF Goal, here
<1> QED BY <1>1, Invariance, PTL

(* A line the router reads while the session is trusted, unless it is a    *)
(* harmless one of an earlier call, was sent in the mode it needs.         *)
LEMMA HeadIsOwn ==
  ASSUME IInv, Trusted, inq # <<>>, ~Harmless(Head(inq))
  PROVE  Own(Head(inq))
<1>1. Head(inq) = inq[1] /\ Len(inq) # 0
  <2>1. inq \in Seq(Line(Lines)) /\ (inq = <<>> <=> Len(inq) = 0)
    BY Queues
  <2> QED BY <2>1
<1>2. ~Slack
  BY <1>1 DEF Slack
<1>3. Unread
  BY <1>1, <1>2 DEF IInv, Exchanged, Answered, Denied
<1> QED BY <1>1, <1>3 DEF Unread

(* exec_command of VyattaCLI: the router runs the user's command in the    *)
(* mode the call asked for.                                                *)
THEOREM RunsWhereAsked == Spec => CommandInRequestedMode
<1>1. ASSUME IInv, [Next]_vars, call'.runs = call.runs + 1, ~lost, call.mode # "none"
      PROVE  dev = call.mode
  <2>1. call \in CallRecord /\ call.runs \in Nat /\ call.cmd \in Cmds \cup {"none"}
    BY <1>1 DEF IInv, CallTyped, CallRecord
  <2>2. call' # call
    BY <1>1, <2>1
  <2>3. ~User
    <3>1. User => call'.runs = 0
      BY DEF User, CallStart, CallEnterMode, CallExecCommand, Exit, Call, NewCall
    <3> QED BY <1>1, <2>1, <3>1
  <2>4. Answer
    BY <1>1, <2>2, <2>3 DEF Next, Client, RefuseExit, LoseSession, vars
  <2>5. Head(inq) = [line |-> call.cmd, due |-> TRUE] /\ link = "open" /\ inq # <<>>
    BY <2>2, <2>4 DEF Answer, Ran
  <2>6. ~Harmless(Head(inq)) /\ Head(inq).line = call.cmd
    <3>1. Head(inq).line = call.cmd /\ Head(inq).due
      BY <2>5
    <3> QED BY <3>1 DEF Harmless
  <2>7. SentIn(Asked, call.cmd, frame.pats, dev)
    BY <1>1, <2>5, <2>6, HeadIsOwn DEF Own, Trusted
  <2>8. call.cmd \in Cmds
    BY <2>1, <2>7 DEF SentIn, Paging
  <2> QED BY <1>1, <2>7, <2>8, OwnLines DEF SentIn, Asked
<1> QED BY <1>1, Invariance, PTL DEF Spec, CommandInRequestedMode

(* Uncommitted changes are lost only to a commit, to a call that said      *)
(* force, or to a start() that replaces the session, as long as the        *)
(* session lives and no expect() was given up.                             *)
THEOREM ChangesKept == Spec => ChangesSurvive
<1>1. ASSUME IInv, [Next]_vars, dirty, ~dirty', link' = "open", ~lost,
             call.op # "start"
      PROVE  Head(inq).line = "commit" \/ call.force
  <2>1. dirty \in BOOLEAN /\ dev = "config"
    BY <1>1 DEF IInv, CallTyped, Located
  <2>2. dirty' # dirty
    BY <1>1
  <2>3. ~User
    <3>1. ~Exit
      BY <1>1 DEF Exit, CleanupHelper
    <3> QED BY <2>2, <3>1 DEF User, CallStart, CallEnterMode, CallExecCommand, Call
  <2>4. Answer
    <3>1. ~Opening
      BY <1>1 DEF Opening, OpenFails, OpenSucceeds, Running, IInv, StackTyped
    <3> QED BY <1>1, <2>2, <2>3, <3>1
            DEF Next, Client, Exchange, Local, RefuseExit, LoseSession, Drop, vars
  <2>5. link = "open" /\ inq # <<>>
    BY <2>4 DEF Answer
  <2>6. Head(inq).line \in {"exit discard", "commit"}
    <3> SUFFICES ASSUME Head(inq).line \notin {"exit discard", "commit"}
                 PROVE  dirty'
      BY <1>1
    <3>1. dirty' \in {dirty, TRUE}
      BY <2>1, <2>4 DEF Answer
    <3> QED BY <1>1, <3>1
  <2>7. ASSUME Head(inq).line = "exit discard"
        PROVE  call.force
    <3>1. ~Harmless(Head(inq))
      BY <2>7, OwnLines DEF Harmless
    <3>2. SentIn(Asked, "exit discard", frame.pats, dev)
      BY <1>1, <2>5, <2>7, <3>1, HeadIsOwn DEF Own, Trusted
    <3> QED BY <3>2, OwnLines DEF SentIn, Asked, Paging
  <2> QED BY <2>6, <2>7
<1> QED BY <1>1, Invariance, PTL DEF Spec, ChangesSurvive
=============================================================================
