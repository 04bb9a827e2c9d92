--------------------------- MODULE RvbdCliProofs ---------------------------
(***************************************************************************)
(* Proofs about RvbdCli, for every backlog and every set of modes users    *)
(* ask for.                                                                *)
(*                                                                         *)
(* First types, the conversation with the appliance and timeouts.  The     *)
(* inductive invariant adds to the properties that are proved only the     *)
(* shape of the instruction stack (SessionInv): an instruction that opens  *)
(* a session or waits for a reply is always the one being executed, never  *)
(* one still to come.                                                      *)
(*                                                                         *)
(* Then what the class promises its user: how often a call restarts the    *)
(* session, that no crashed CLI is logged back in, where a call lands and  *)
(* where and how often its command runs, and with that the refinement of   *)
(* CliService.  All of it is decided by what is left on the stack, so      *)
(* these invariants come in layers, each proved with the help of those     *)
(* before it: how the handlers on the stack may nest (NestInv), what a     *)
(* call that never restarted can send (FreshInv), where the appliance is   *)
(* before and after every instruction (ModeInv), and what has become of    *)
(* the user's command (CountInv).                                          *)
(***************************************************************************)
EXTENDS RvbdCli, CliSessionProofs

(* The instructions RVBD_CLI's methods are made of.                        *)
Instr == Inner(Ops, Lines)

OwnTyped == /\ defMode \in Modes \cup {"none"}
            /\ prompt \in SUBSET Prompts
            /\ call \in CallRecord

IInv == /\ SessionInv(Ops, Lines) /\ OwnTyped
        /\ ConversationInStep

-----------------------------------------------------------------------------
(* The programs are made of inner instructions, except for the one Open at *)
(* the head of Start.                                                      *)

(* What every CLI sends and executes is part of this one's vocabulary.     *)
LEMMA RvbdVocabulary == Vocabulary(Ops, Lines)
  BY DEF Vocabulary, Ops, Lines

(* Instructions without operands, and those that send a line.              *)
LEMMA PlainInstr ==
  /\ \A op \in Ops \ {"open", "wait"} : Do(op) \in Instr
  /\ \A line \in Lines, pats \in SUBSET Prompts : Send(line, pats) \in Instr
  BY RvbdVocabulary, DoInner, SendInner DEF Instr

(* They are instructions, one by one and in sequence.                      *)
LEMMA InstrIsFrame ==
  Instr \subseteq Frame(Ops, Lines) /\ Seq(Instr) \subseteq Seq(Frame(Ops, Lines))
  BY InnerIsFrame DEF Instr

(* A nested exec_command is an inner instruction.                          *)
LEMMA ExecInner ==
  ASSUME NEW line \in Lines, NEW mode \in Modes \cup {"none", "undef"},
         NEW output \in Outs \cup {"any"}, NEW errorOk \in BOOLEAN,
         NEW pats \in SUBSET Prompts
  PROVE  Exec(line, mode, output, errorOk, pats) \in Instr
  BY DEF Exec, Instr, Inner, Frame, Ops

(* As One, for three instructions.                                         *)
LEMMA Three ==
  ASSUME NEW S, NEW a \in S, NEW b \in S, NEW c \in S
  PROVE  <<a, b, c>> \in Seq(S)
  OBVIOUS

(* The probe of current_cli_mode is an inner instruction.                  *)
LEMMA ProbeInner == Probe \in Instr
  BY PlainInstr DEF Probe, AnyPrompt, Prompts, Lines

(* enter_mode and its parts are programs of inner instructions.            *)
LEMMA EnterModeInner ==
  ASSUME NEW mode, NEW reinit \in BOOLEAN
  PROVE  /\ EnterModeBody(mode) \in Seq(Instr)
         /\ mode \in Modes \cup {"none", "undef"} =>
              EnterMode(mode, reinit) \in Seq(Instr)
<1>1. EnterModeNormal \in Seq(Instr)
  BY ProbeInner, PlainInstr, Two DEF Ops, EnterModeNormal
<1>2. EnterModeEnable \in Seq(Instr)
  BY ProbeInner, PlainInstr, Two DEF Ops, EnterModeEnable
<1>3. EnterModeConfig \in Seq(Instr)
  BY ProbeInner, PlainInstr, Two DEF Ops, EnterModeConfig
<1>4. EnterModeShell \in Seq(Instr)
  BY ProbeInner, PlainInstr, Three DEF Ops, EnterModeShell
<1>5. <<Do("unknown_mode")>> \in Seq(Instr)
  BY PlainInstr, One DEF Ops
<1>6. EnterModeBody(mode) \in Seq(Instr)
  BY <1>1, <1>2, <1>3, <1>4, <1>5 DEF EnterModeBody
<1>7. ASSUME mode \in Modes \cup {"none", "undef"}
      PROVE  [Do("except_enter") EXCEPT !.mode = mode, !.flag = reinit] \in Instr
  BY <1>7 DEF Do, Instr, Inner, Frame, Prompts, Outs, Ops, Lines
<1>8. ASSUME mode \in Modes \cup {"none", "undef"}
      PROVE  EnterMode(mode, reinit) \in Seq(Instr)
  BY <1>6, <1>7, <1>8, One, ConcatProperties DEF EnterMode
<1> QED BY <1>6, <1>8

(* So is what each enter_mode_<mode> does from each mode.                  *)
LEMMA ModeTables ==
  ASSUME NEW p \in Prompts
  PROVE  /\ ToNormal[p] \in Seq(Instr)
         /\ ToEnable[p] \in Seq(Instr)
         /\ ToConfig[p] \in Seq(Instr)
<1>1. ConfigTerminal \in Instr
  BY ExecInner DEF ConfigTerminal, AnyPrompt, Prompts, Outs, Lines
<1>2. Enable \in Seq(Instr)
  BY PlainInstr, Two DEF Enable, Prompts, Ops, Lines
<1>3. <<>> \in Seq(Instr)
  OBVIOUS
<1>4. /\ <<Send("exit", {"enable"})>> \in Seq(Instr)
      /\ <<Send("disable", {"normal"})>> \in Seq(Instr)
      /\ <<Send("exit", {"enable"}), Send("disable", {"normal"})>> \in Seq(Instr)
  BY PlainInstr, One, Two DEF Prompts, Lines
<1>5. /\ <<ConfigTerminal>> \in Seq(Instr)
      /\ Enable \o <<ConfigTerminal>> \in Seq(Instr)
  BY <1>1, <1>2, One, ConcatProperties
<1>6. ToNormal[p] \in Seq(Instr)
  BY <1>3, <1>4 DEF ToNormal
<1>7. ToEnable[p] \in Seq(Instr)
  BY <1>2, <1>3, <1>4 DEF ToEnable
<1>8. ToConfig[p] \in Seq(Instr)
  BY <1>3, <1>5 DEF ToConfig
<1> QED BY <1>6, <1>7, <1>8

-----------------------------------------------------------------------------
(* What is known of the head of the stack, of what is below it, and of the *)
(* CLI object.                                                             *)
LEMMA TypeFacts ==
  ASSUME IInv
  PROVE  /\ SessionInv(Ops, Lines) /\ BaseTypeOK(Ops, Lines) /\ ConversationInStep
         /\ call \in CallRecord /\ prompt \in SUBSET Prompts
         /\ defMode \in Modes \cup {"none"} /\ exc \in Excs \cup {"none"}
         /\ got \in Reply /\ got.prompt \in Prompts /\ got.out \in Outs
         /\ todo # <<>> => /\ frame \in Frame(Ops, Lines)
                          /\ frame.pats \in SUBSET Prompts /\ frame.line \in Lines
                          /\ Tail(todo) \in Seq(Instr)
<1>1. /\ SessionInv(Ops, Lines) /\ BaseTypeOK(Ops, Lines) /\ ConversationInStep
      /\ call \in CallRecord /\ prompt \in SUBSET Prompts
      /\ defMode \in Modes \cup {"none"} /\ exc \in Excs \cup {"none"} /\ got \in Reply
  BY DEF IInv, OwnTyped, SessionInv, BaseTypeOK
<1>2. got.prompt \in Prompts /\ got.out \in Outs
  BY <1>1 DEF Reply
<1> QED BY <1>1, <1>2, HeadTyped DEF Instr

(* A step of the thread that leaves the session alone.                     *)
LEMMA LocalStep ==
  ASSUME IInv, ~Waiting, todo' \in Seq(Instr), UNCHANGED wire,
         exc' \in Excs \cup {"none"}, got' \in Reply,
         defMode' \in Modes \cup {"none"}, prompt' \in SUBSET Prompts,
         call' \in CallRecord
  PROVE  IInv'
<1>1. SessionInv(Ops, Lines)' /\ ~Waiting'
  BY LocalKeepsSession DEF IInv, Instr
<1>2. ConversationInStep'
  BY <1>1 DEF IInv, ConversationInStep, wire, Backlog
<1> QED BY <1>1, <1>2 DEF IInv, OwnTyped

(* The steps between two exchanges preserve the invariant.                 *)
LEMMA LocalKeepsIInv ==
  ASSUME IInv, Local
  PROVE  IInv'
<1> DEFINE T == Tail(todo)
<1>1. /\ todo # <<>> /\ exc = "none" /\ frame.op # "wait"
      /\ UNCHANGED <<wire, got, call>>
  BY DEF Local, Running, StartCli, RunCliFromShell, LeaveFor, Password,
         EnterShell, ShellFrom, UnknownMode, ExecCommand, ExecSend, CheckOutput,
         RaiseCliError, DeleteLine, LeaveTry, Quiet
<1>2. frame \in Frame(Ops, Lines) /\ T \in Seq(Instr)
  BY <1>1, TypeFacts
<1>3. ~Waiting
  BY <1>1 DEF Waiting, Running
<1>4. <<>> \in Seq(Instr) /\ <<>> \o T = T
  BY <1>2, ConcatEmptySeq
<1>5. /\ got \in Reply /\ got.prompt \in Prompts
      /\ call \in CallRecord
      /\ defMode \in Modes \cup {"none"} /\ prompt \in SUBSET Prompts
      /\ exc \in Excs \cup {"none"}
  BY TypeFacts
<1> HIDE DEF T
<1> SUFFICES /\ todo' \in Seq(Instr)
             /\ exc' \in Excs \cup {"none"}
             /\ defMode' \in Modes \cup {"none"} /\ prompt' \in SUBSET Prompts
  BY <1>1, <1>3, <1>5, LocalStep
<1>6. \A prog \in Seq(Instr) : prog \o T \in Seq(Instr)
  BY <1>2, ConcatProperties
<1>7. ASSUME Become(<<>>) PROVE todo' \in Seq(Instr)
  BY <1>7, <1>2, <1>4 DEF Become, T
<1>8. ASSUME NEW e \in Excs, Raise(e)
      PROVE  todo' \in Seq(Instr) /\ exc' \in Excs
  BY <1>8, <1>2 DEF Raise, T
<1>9. \A a \in Instr : <<a>> \in Seq(Instr)
  OBVIOUS
<1>10. CASE StartCli
  <2>1. <<Probe, Do("run_cli")>> \in Seq(Instr)
    BY ProbeInner, PlainInstr, Two DEF Ops
  <2> QED BY <1>10, <2>1, <1>5, <1>6 DEF StartCli, Become, T, Modes
<1>11. CASE RunCliFromShell
  <2>1. EnterModeNormal \in Seq(Instr)
    BY ProbeInner, PlainInstr, Two DEF EnterModeNormal, Ops
  <2>2. Send(CliPath, {"normal"}) \in Instr /\ Send(Paging, {"normal"}) \in Instr
    BY PlainInstr DEF Prompts, Lines
  <2>3. (IF got.prompt = "shell" THEN <<Send(CliPath, {"normal"})>> ELSE <<>>)
           \in Seq(Instr)
    BY <2>2, <1>4, <1>9
  <2>4. ((IF got.prompt = "shell" THEN <<Send(CliPath, {"normal"})>> ELSE <<>>)
            \o EnterModeNormal) \o <<Send(Paging, {"normal"})>> \in Seq(Instr)
    BY <2>1, <2>2, <2>3, <1>9, ConcatProperties
  <2> QED BY <1>11, <2>4, <1>5, <1>6 DEF RunCliFromShell, Become, T
<1>12. ASSUME NEW op, NEW to, \A p \in Prompts : to[p] \in Seq(Instr),
              LeaveFor(op, to)
       PROVE  /\ todo' \in Seq(Instr)
              /\ exc' \in Excs \cup {"none"}
              /\ defMode' = defMode /\ prompt' = prompt
  <2>1. CASE Raise("CLINotRunning")
    BY <2>1, <1>8, <1>12 DEF LeaveFor, Excs
  <2>2. CASE Become(to[got.prompt]) /\ UNCHANGED exc
    BY <2>2, <1>5, <1>6, <1>12 DEF LeaveFor, Become, T
  <2> QED BY <1>12, <2>1, <2>2 DEF LeaveFor
<1>13. CASE LeaveFor("normal_from", ToNormal)
  BY <1>13, <1>12, <1>5, ModeTables
<1>14. CASE LeaveFor("enable_from", ToEnable)
  BY <1>14, <1>12, <1>5, ModeTables
<1>15. CASE LeaveFor("config_from", ToConfig)
  BY <1>15, <1>12, <1>5, ModeTables
<1>16. CASE Password
  BY <1>16, <1>5, <1>7, <1>8 DEF Password, Excs
<1>17. CASE EnterShell
  BY <1>17, <1>5, <1>7 DEF EnterShell, Prompts
<1>18. CASE ShellFrom
  <2>1. ShellCommand \in Instr
    BY ExecInner DEF ShellCommand, StartPrompt, Prompts, Outs, Lines
  <2>2. EnterModeEnable \in Seq(Instr)
    BY ProbeInner, PlainInstr, Two DEF EnterModeEnable, Ops
  <2>3. /\ <<ShellCommand>> \in Seq(Instr)
        /\ EnterModeEnable \o <<ShellCommand>> \in Seq(Instr)
    BY <2>1, <2>2, <1>9, ConcatProperties
  <2>4. (CASE got.prompt = "shell"  -> <<>>
           [] got.prompt = "normal" -> EnterModeEnable \o <<ShellCommand>>
           [] OTHER                 -> <<ShellCommand>>) \in Seq(Instr)
    BY <2>3, <1>4
  <2> QED BY <1>18, <2>4, <1>5, <1>6 DEF ShellFrom, Become, T
<1>19. CASE UnknownMode
  BY <1>19, <1>5, <1>8 DEF UnknownMode, Excs
<1>20. CASE ExecCommand
  <2> DEFINE mode == Resolved(frame.mode)
  <2>1. mode \in Modes \cup {"none"}
    BY <1>2, <1>5 DEF Resolved, Frame
  <2>2. [frame EXCEPT !.op = "exec_send"] \in Instr
    BY <1>2 DEF Instr, Inner, Frame, Ops
  <2>3. (IF mode = "none" THEN <<>> ELSE EnterMode(mode, TRUE)) \in Seq(Instr)
    BY <2>1, <1>4, EnterModeInner
  <2>4. (IF mode = "none" THEN <<>> ELSE EnterMode(mode, TRUE))
          \o <<[frame EXCEPT !.op = "exec_send"]>> \in Seq(Instr)
    BY <2>2, <2>3, <1>9, ConcatProperties
  <2> QED BY <1>20, <2>4, <1>5, <1>6 DEF ExecCommand, Become, T
<1>21. CASE ExecSend
  <2> DEFINE pats == IF frame.pats = {} THEN prompt ELSE frame.pats
  <2>1. pats \in SUBSET Prompts /\ frame.line \in Lines
    BY <1>2, <1>5 DEF Frame
  <2>2. Send(frame.line, pats) \in Instr
    BY <2>1, PlainInstr
  <2>3. [Send(frame.line, pats) EXCEPT !.op = "except_exec"] \in Instr
    BY <2>2 DEF Instr, Inner, Frame, Ops
  <2>4. [frame EXCEPT !.op = "check"] \in Instr
    BY <1>2 DEF Instr, Inner, Frame, Ops
  <2>5. <<Send(frame.line, pats),
          [Send(frame.line, pats) EXCEPT !.op = "except_exec"],
          [frame EXCEPT !.op = "check"]>> \in Seq(Instr)
    BY <2>2, <2>3, <2>4, Three
  <2> QED BY <1>21, <2>5, <1>5, <1>6 DEF ExecSend, Become, T
<1>22. CASE CheckOutput
  <2>1. <<Probe, Do("cli_error")>> \in Seq(Instr)
    BY ProbeInner, PlainInstr, Two DEF Ops
  <2>2. ASSUME Become(<<Probe, Do("cli_error")>>) PROVE todo' \in Seq(Instr)
    BY <2>1, <2>2, <1>6 DEF Become, T
  <2> QED BY <1>22, <2>2, <1>5, <1>7, <1>8 DEF CheckOutput, Excs
<1>23. CASE RaiseCliError
  BY <1>23, <1>5, <1>8 DEF RaiseCliError, Excs
<1>24. CASE DeleteLine
  BY <1>24, <1>5, <1>8 DEF DeleteLine, Excs
<1>25. CASE LeaveTry
  BY <1>25, <1>5, <1>7 DEF LeaveTry
<1> QED BY <1>10, <1>11, <1>13, <1>14, <1>15, <1>16, <1>17, <1>18, <1>19, <1>20,
           <1>21, <1>22, <1>23, <1>24, <1>25 DEF Local

(* Restart prepends two programs; the order of prepending is immaterial.   *)
LEMMA FramesAssociative ==
  ASSUME NEW a \in Seq(Frame(Ops, Lines)), NEW b \in Seq(Frame(Ops, Lines)),
         NEW c \in Seq(Frame(Ops, Lines))
  PROVE  (a \o b) \o c = a \o (b \o c)
<1> DEFINE S == Frame(Ops, Lines)
<1> HIDE DEF S
<1>1. a \in Seq(S) /\ b \in Seq(S) /\ c \in Seq(S)
  BY DEF S
<1> QED BY <1>1, ConcatAssociative

(* Start has the shape StackShape asks for.                                *)
LEMMA StartShape ==
  ASSUME NEW runCli \in BOOLEAN, NEW rest \in Seq(Instr),
         todo' = Start(runCli) \o rest
  PROVE  todo' \in Seq(Frame(Ops, Lines)) /\ StackShape(Ops, Lines)' /\ ~Waiting'
<1> DEFINE more == IF runCli THEN <<Do("start_cli")>> ELSE <<>>
<1>1. more \in Seq(Instr)
  BY PlainInstr, One DEF Ops
<1>2. more \o rest \in Seq(Instr)
  BY <1>1, ConcatProperties
<1>3. Open(StartPrompt) \in Frame(Ops, Lines) /\ Open(StartPrompt).op = "open"
  BY WaitOpenFrame, RvbdVocabulary DEF StartPrompt, Prompts, Open, Do
<1>4. <<Open(StartPrompt)>> \in Seq(Frame(Ops, Lines))
  BY <1>3
<1>5. /\ more \in Seq(Frame(Ops, Lines)) /\ rest \in Seq(Frame(Ops, Lines))
      /\ more \o rest \in Seq(Frame(Ops, Lines))
  BY <1>1, <1>2, InstrIsFrame
<1> HIDE DEF more
<1>6. todo' = <<Open(StartPrompt)>> \o (more \o rest)
  BY <1>4, <1>5, ConcatAssociative DEF Start, more
<1>7. /\ todo' \in Seq(Frame(Ops, Lines)) /\ todo' # <<>>
      /\ Head(todo') = Open(StartPrompt) /\ Tail(todo') = more \o rest
  BY <1>3, <1>5, <1>6
<1> QED BY <1>2, <1>3, <1>7 DEF StackShape, Waiting, Running, frame, Instr

(* A step that ends with no session and a stack that waits for nothing.    *)
LEMMA NoSessionStep ==
  ASSUME IInv, CleanupHelper,
         todo' \in Seq(Frame(Ops, Lines)), StackShape(Ops, Lines)',
         exc' \in Excs \cup {"none"}, got' \in Reply,
         defMode' \in Modes \cup {"none"}, prompt' \in SUBSET Prompts,
         call' \in CallRecord
  PROVE  IInv'
<1>1. SessionInv(Ops, Lines)'
  BY CleanupKeepsSession DEF IInv
<1>2. ConversationInStep'
  BY DEF IInv, ConversationInStep, CleanupHelper
<1> QED BY <1>1, <1>2 DEF IInv, OwnTyped

(* So do handlers that restart the session, and unwinding.                 *)
LEMMA ExceptionsKeepIInv ==
  ASSUME IInv, Exceptions
  PROVE  IInv'
<1>1. /\ todo # <<>> /\ exc # "none" /\ UNCHANGED <<got, defMode, prompt>>
  BY DEF Exceptions, EnterModeRestarts, ExecRestarts, Unwind, Raising, Restart,
         Quiet
<1>2. frame \in Frame(Ops, Lines) /\ Tail(todo) \in Seq(Instr)
  BY <1>1, TypeFacts
<1>3. /\ got \in Reply /\ call \in CallRecord
      /\ defMode \in Modes \cup {"none"} /\ prompt \in SUBSET Prompts
      /\ exc \in Excs \cup {"none"}
  BY TypeFacts
<1>4. ASSUME NEW rest \in Seq(Instr), Restart(rest), call' \in CallRecord
      PROVE  IInv'
  <2>1. rest \o Tail(todo) \in Seq(Instr)
    BY <1>2, ConcatProperties
  <2>2. /\ Start(TRUE) \in Seq(Frame(Ops, Lines))
        /\ rest \in Seq(Frame(Ops, Lines)) /\ Tail(todo) \in Seq(Frame(Ops, Lines))
    <3>1. Open(StartPrompt) \in Frame(Ops, Lines) /\ Do("start_cli") \in Instr
      BY WaitOpenFrame, RvbdVocabulary, PlainInstr DEF StartPrompt, Prompts, Ops
    <3>2. /\ <<Open(StartPrompt)>> \in Seq(Frame(Ops, Lines))
          /\ <<Do("start_cli")>> \in Seq(Frame(Ops, Lines))
      BY <3>1, InstrIsFrame
    <3>3. Start(TRUE) \in Seq(Frame(Ops, Lines))
      BY <3>2, ConcatProperties DEF Start
    <3> QED BY <3>3, <1>2, InstrIsFrame
  <2>3. todo' = Start(TRUE) \o (rest \o Tail(todo))
    <3>1. todo' = (Start(TRUE) \o rest) \o Tail(todo)
      BY <1>4 DEF Restart, Become
    <3> QED BY <2>2, <3>1, FramesAssociative
  <2>4. CleanupHelper /\ exc' = "none"
    BY <1>4 DEF Restart
  <2>5. todo' \in Seq(Frame(Ops, Lines)) /\ StackShape(Ops, Lines)'
    BY <2>1, <2>3, StartShape
  <2> QED BY <1>1, <1>3, <1>4, <2>4, <2>5, NoSessionStep
<1>5. CASE EnterModeRestarts
  <2>1. frame.mode \in Modes \cup {"none", "undef"}
    BY <1>2 DEF Frame
  <2>2. EnterMode(frame.mode, FALSE) \in Seq(Instr)
    BY <2>1, EnterModeInner
  <2>3. call' \in CallRecord
    BY <1>3, <1>5 DEF EnterModeRestarts, CallRecord
  <2> QED BY <1>4, <1>5, <2>2, <2>3 DEF EnterModeRestarts
<1>6. CASE ExecRestarts
  <2>1. Send(frame.line, frame.pats) \in Instr
    BY <1>2, PlainInstr DEF Frame
  <2>2. <<Send(frame.line, frame.pats)>> \in Seq(Instr)
    BY <2>1, One
  <2>3. call' \in CallRecord
    <3>1. (call.resent \/ frame.line = Cmd) \in BOOLEAN
      OBVIOUS
    <3> DEFINE resent == call.resent \/ frame.line = Cmd
    <3>2. call' = [call EXCEPT !.restarts = @ + 1, !.resent = resent]
      BY <1>6 DEF ExecRestarts
    <3> HIDE DEF resent
    <3>3. resent \in BOOLEAN
      BY <3>1 DEF resent
    <3>4. call.restarts + 1 \in Nat
      BY <1>3 DEF CallRecord
    <3> QED BY <1>3, <3>2, <3>3, <3>4 DEF CallRecord
  <2> QED BY <1>4, <1>6, <2>2, <2>3 DEF ExecRestarts
<1>7. CASE Unwind
  <2>1. ~Waiting
    BY <1>1 DEF Waiting, Running
  <2> QED BY <1>1, <1>2, <1>3, <1>7, <2>1, LocalStep DEF Unwind, Quiet
<1> QED BY <1>5, <1>6, <1>7 DEF Exceptions

(* A user's call preserves the invariant.                                  *)
LEMMA UserKeepsIInv ==
  ASSUME IInv, User
  PROVE  IInv'
<1>1. todo = <<>> /\ ~Waiting
  BY DEF User, CallStart, CallEnterMode, CallEnterModeX, CallExecCommand,
         CallGetSubCommands, SetDefaultMode, Exit, Call, Idle, Waiting, Running
<1>2. /\ got \in Reply
      /\ defMode \in Modes \cup {"none"} /\ prompt \in SUBSET Prompts
  BY TypeFacts
<1>3. ASSUME NEW op \in UserOps, NEW mode \in Modes \cup {"none"}
      PROVE  NewCall(op, mode) \in CallRecord
  BY DEF NewCall, CallRecord, AtEmptyPrompt
<1>4. ASSUME NEW op \in UserOps, NEW mode \in Modes \cup {"none"},
             NEW program \in Seq(Instr), Call(op, mode, program),
             defMode' \in Modes \cup {"none"}
      PROVE  IInv'
  BY <1>1, <1>2, <1>3, <1>4, LocalStep DEF Call, Excs
<1>5. CASE CallStart
  <2>1. PICK runCli \in BOOLEAN : Call("start", "none", Start(runCli))
    BY <1>5 DEF CallStart
  <2>2. <<>> \in Seq(Instr)
    OBVIOUS
  <2>3. Start(runCli) = Start(runCli) \o <<>>
    <3>1. Open(StartPrompt) \in Frame(Ops, Lines) /\ Do("start_cli") \in Instr
      BY WaitOpenFrame, RvbdVocabulary, PlainInstr DEF StartPrompt, Prompts, Ops
    <3>2. Start(runCli) \in Seq(Frame(Ops, Lines))
      BY <3>1, InstrIsFrame, ConcatProperties DEF Start
    <3> QED BY <3>2, ConcatEmptySeq
  <2>4. /\ todo' = Start(runCli) \o <<>> /\ exc' = "none"
        /\ call' = NewCall("start", "none")
        /\ UNCHANGED <<wire, got, defMode, prompt>>
    BY <1>5, <2>1, <2>3 DEF CallStart, Call
  <2>5. todo' \in Seq(Frame(Ops, Lines)) /\ StackShape(Ops, Lines)' /\ ~Waiting'
    BY <2>2, <2>4, StartShape
  <2>6. call' \in CallRecord
    BY <2>4, <1>3 DEF UserOps
  <2>7. SessionInv(Ops, Lines)' /\ OwnTyped'
    BY <2>4, <2>5, <2>6
       DEF IInv, OwnTyped, SessionInv, BaseTypeOK, SentWhileOpen, wire, Excs
  <2>8. ConversationInStep'
    BY <1>1, <2>4, <2>5 DEF IInv, ConversationInStep, wire, Backlog
  <2> QED BY <2>5, <2>7, <2>8 DEF IInv
<1>6. CASE CallEnterMode
  BY <1>6, <1>4, <1>2, EnterModeInner, UserModesAssumption
     DEF CallEnterMode, UserOps
<1>7. CASE CallEnterModeX
  BY <1>7, <1>4, <1>2, EnterModeInner, UserModesAssumption
     DEF CallEnterModeX, UserOps
<1>8. CASE CallExecCommand
  <2>1. PICK mode \in UserModes \cup {"none", "undef"}, errorOk \in BOOLEAN :
          Call("exec_command", Resolved(mode),
               <<Exec(Cmd, mode, "any", errorOk, {})>>)
    BY <1>8 DEF CallExecCommand
  <2>2. Exec(Cmd, mode, "any", errorOk, {}) \in Instr
    BY ExecInner, UserModesAssumption DEF Lines
  <2>3. Resolved(mode) \in Modes \cup {"none"}
    BY <1>2, UserModesAssumption DEF Resolved
  <2>4. <<Exec(Cmd, mode, "any", errorOk, {})>> \in Seq(Instr)
    BY <2>2, One
  <2> QED BY <1>8, <1>2, <1>4, <2>1, <2>3, <2>4 DEF CallExecCommand, UserOps
<1>9. CASE CallGetSubCommands
  <2>1. <<Send(Help, AnyPrompt), Do("delete_line")>> \in Seq(Instr)
    BY PlainInstr, Two DEF Lines, AnyPrompt, Prompts, Ops
  <2> QED BY <1>9, <1>2, <1>4, <2>1 DEF CallGetSubCommands, UserOps
<1>10. CASE SetDefaultMode
  <2>1. Call("default_mode", "none", <<>>) /\ defMode' \in Modes \cup {"none"}
    BY <1>10, UserModesAssumption DEF SetDefaultMode
  <2>2. <<>> \in Seq(Instr)
    OBVIOUS
  <2> QED BY <1>4, <2>1, <2>2 DEF UserOps
<1>11. CASE Exit
  <2>1. todo' = <<>> /\ exc' = "none" /\ CleanupHelper
        /\ call' = NewCall("exit", "none") /\ UNCHANGED <<got, defMode, prompt>>
    BY <1>1, <1>11 DEF Exit
  <2>2. todo' \in Seq(Frame(Ops, Lines)) /\ StackShape(Ops, Lines)'
    BY <2>1 DEF StackShape
  <2>3. call' \in CallRecord
    BY <2>1, <1>3 DEF UserOps
  <2> QED BY <1>2, <2>1, <2>2, <2>3, NoSessionStep
<1> QED BY <1>5, <1>6, <1>7, <1>8, <1>9, <1>10, <1>11 DEF User

(* Opening, sending and expecting preserve the invariant.                  *)
LEMMA ExchangeKeepsIInv ==
  ASSUME IInv, Exchange
  PROVE  IInv'
<1>1. SessionInv(Ops, Lines) /\ ConversationInStep
  BY TypeFacts
<1>2. OwnTyped'
  BY DEF IInv, OwnTyped, Exchange, Own
<1>3. CASE OpenFails
  <2>1. SessionInv(Ops, Lines)' /\ link' # "open"
    BY <1>1, <1>3, OpenFailsKeeps
  <2> QED BY <1>2, <2>1 DEF IInv, ConversationInStep
<1>4. CASE OpenSucceeds(StartPrompt)
  <2>1. SessionInv(Ops, Lines)' /\ ConversationInStep'
    BY <1>1, <1>4, OpenSucceedsKeeps, RvbdVocabulary DEF StartPrompt, Prompts
  <2> QED BY <1>2, <2>1 DEF IInv
<1>5. CASE SendFails
  <2>1. SessionInv(Ops, Lines)' /\ ~Waiting /\ ~Waiting' /\ UNCHANGED wire
    BY <1>1, <1>5, SendFailsKeeps
  <2> QED BY <1>2, <2>1 DEF IInv, ConversationInStep, Backlog, wire
<1>6. CASE SendSucceeds
  <2>1. SessionInv(Ops, Lines)' /\ ConversationInStep'
    BY <1>1, <1>6, SendSucceedsKeeps, RvbdVocabulary
  <2> QED BY <1>2, <2>1 DEF IInv
<1>7. CASE ExpectMatch
  <2>1. SessionInv(Ops, Lines)' /\ ConversationInStep'
    BY <1>1, <1>7, ExpectMatchKeeps
  <2> QED BY <1>2, <2>1 DEF IInv
<1>8. CASE ExpectMore
  <2>1. SessionInv(Ops, Lines)' /\ ConversationInStep'
    BY <1>1, <1>8, ExpectMoreKeeps
  <2> QED BY <1>2, <2>1 DEF IInv
<1>9. CASE ExpectClosed
  <2>1. SessionInv(Ops, Lines)' /\ link' # "open"
    BY <1>1, <1>9, ExpectClosedKeeps DEF wire
  <2> QED BY <1>2, <2>1 DEF IInv, ConversationInStep
<1>10. CASE ExpectTimeout
  <2>1. SessionInv(Ops, Lines)' /\ ConversationInStep'
    BY <1>1, <1>10, ExpectTimeoutKeeps
  <2> QED BY <1>2, <2>1 DEF IInv
<1> QED BY <1>3, <1>4, <1>5, <1>6, <1>7, <1>8, <1>9, <1>10 DEF Exchange, Expect

(* Whatever the appliance does to a line, its answers are well-formed.     *)
LEMMA EffectsTyped ==
  ASSUME NEW mode \in Prompts, NEW line
  PROVE  Effects(mode, line) \subseteq Effect
<1>1. /\ "shell" \in Prompts /\ "normal" \in Prompts /\ "enable" \in Prompts
      /\ "config" \in Prompts /\ "password" \in Prompts
  BY DEF Prompts
<1>2. \A p \in Prompts : Stay(p) \subseteq Effect /\ Refuse(p) \subseteq Effect
                         /\ Show(p) \subseteq Effect
  BY EffectParts
<1>3. FromShell(line) \subseteq Effect
  BY <1>1, <1>2 DEF FromShell
<1>4. FromNormal(line) \subseteq Effect
  BY <1>1, <1>2 DEF FromNormal
<1>5. FromEnable(line) \subseteq Effect
  BY <1>1, <1>2 DEF FromEnable
<1>6. FromConfig(line) \subseteq Effect
  BY <1>1, <1>2 DEF FromConfig
<1> QED BY <1>1, <1>2, <1>3, <1>4, <1>5, <1>6 DEF Effects

(* An answer counts a run of the user's command, or nothing.               *)
LEMMA AnswerKeepsIInv ==
  ASSUME IInv, Answer
  PROVE  IInv'
<1>1. dev \in Prompts /\ call \in CallRecord
  BY TypeFacts DEF BaseTypeOK
<1>2. /\ SessionInv(Ops, Lines)' /\ ConversationInStep'
  BY <1>1, TypeFacts, EffectsTyped, AnswerKeeps DEF Answer
<1>3. call' \in CallRecord
  <2>1. call.runs + 1 \in Nat
    BY <1>1 DEF CallRecord
  <2>2. call' = [call EXCEPT !.runs = call.runs + 1] \/ call' = call
    BY DEF Answer
  <2> QED BY <1>1, <2>1, <2>2 DEF CallRecord
<1> QED BY <1>2, <1>3 DEF Answer, IInv, OwnTyped

(* Help text is one more reply to the line that asked for it, or nothing.  *)
LEMMA AnswerHelpKeepsIInv ==
  ASSUME IInv, AnswerHelp
  PROVE  IInv'
<1>1. /\ inq \in Seq(Line(Lines)) /\ rx \in Seq(Reply) /\ dev \in Prompts
      /\ Len(inq) \in Nat /\ Len(rx) \in Nat /\ ConversationInStep
  BY TypeFacts DEF BaseTypeOK
<1>2. /\ inq # <<>> /\ inq' = Tail(inq) /\ typed' = TRUE /\ link = "open"
      /\ UNCHANGED <<link, dev, todo, exc, got, lost, defMode, prompt, call>>
      /\ \/ rx' = rx
         \/ \E o \in {"text", "error"} :
              rx' = Append(rx, [prompt |-> dev, out |-> o, due |-> Head(inq).due])
  BY DEF AnswerHelp
<1>3. Head(inq) \in Line(Lines) /\ Head(inq) = inq[1] /\ 1 \in DOMAIN inq
  BY <1>1, <1>2
<1>4. /\ inq' \in Seq(Line(Lines)) /\ Len(inq') = Len(inq) - 1
      /\ \A i \in DOMAIN inq' : i + 1 \in DOMAIN inq /\ inq'[i] = inq[i + 1]
  <2>1. inq # <<>> /\ inq' = Tail(inq)
    BY <1>2
  <2> QED BY <1>1, <2>1
<1>5. /\ rx' \in Seq(Reply) /\ Len(rx') \in Nat /\ Len(rx') <= Len(rx) + 1
      /\ \A i \in DOMAIN rx' : rx'[i].due = inq[1].due \/ (i \in DOMAIN rx /\ rx'[i] = rx[i])
  <2>1. CASE rx' = rx
    BY <1>1, <2>1
  <2>2. ASSUME NEW o \in {"text", "error"}, NEW r,
               r = [prompt |-> dev, out |-> o, due |-> Head(inq).due],
               rx' = Append(rx, r)
        PROVE  /\ rx' \in Seq(Reply) /\ Len(rx') \in Nat /\ Len(rx') <= Len(rx) + 1
               /\ \A i \in DOMAIN rx' : rx'[i].due = inq[1].due
                                        \/ (i \in DOMAIN rx /\ rx'[i] = rx[i])
    <3>1. r \in Reply /\ r.due = inq[1].due
      BY <1>1, <1>3, <2>2 DEF Reply, Line, Outs
    <3> QED BY <1>1, <2>2, <3>1
  <2> QED BY <1>2, <2>1, <2>2
<1>6. Waiting' <=> Waiting
  BY <1>2 DEF Waiting, Running, frame
<1>7. ConversationInStep'
  BY <1>1, <1>2, <1>3, <1>4, <1>5, <1>6 DEF ConversationInStep, Backlog
<1>8. BaseTypeOK(Ops, Lines)'
  <2>1. BaseTypeOK(Ops, Lines) /\ typed' \in BOOLEAN
    BY <1>2, TypeFacts
  <2> QED BY <1>2, <1>4, <1>5, <2>1 DEF BaseTypeOK
<1> QED BY <1>2, <1>7, <1>8
        DEF IInv, SessionInv, StackShape, SentWhileOpen, OwnTyped, frame

(* A crash adds a prompt, and the session is no longer relied on.          *)
LEMMA CrashKeepsIInv ==
  ASSUME IInv, Crash
  PROVE  IInv'
<1>1. [prompt |-> "shell", out |-> "none", due |-> FALSE] \in Reply
  BY DEF Reply, Prompts, Outs
<1>2. rx' \in Seq(Reply)
  BY <1>1, TypeFacts DEF Crash, BaseTypeOK
<1>3. BaseTypeOK(Ops, Lines)'
  BY <1>2, TypeFacts DEF Crash, BaseTypeOK, Prompts
<1> QED BY <1>3 DEF Crash, IInv, SessionInv, StackShape, SentWhileOpen, OwnTyped,
                    ConversationInStep, frame

(* The appliance and the network preserve the invariant.                   *)
LEMMA EnvironmentKeepsIInv ==
  ASSUME IInv, Environment
  PROVE  IInv'
<1>1. ASSUME Drop, Own
      PROVE  IInv'
  BY <1>1, TypeFacts, DropKeeps DEF Own, IInv, OwnTyped
<1> QED BY <1>1, AnswerKeepsIInv, AnswerHelpKeepsIInv, CrashKeepsIInv DEF Environment

-----------------------------------------------------------------------------
(* A CLI object just made satisfies the invariant.                         *)
LEMMA InitIInv == Init => IInv
<1> SUFFICES ASSUME Init PROVE IInv
  OBVIOUS
<1>1. BaseTypeOK(Ops, Lines) /\ OwnTyped
  <2>1. BaseTypeOK(Ops, Lines)
    <3>1. got \in Reply /\ link \in Links /\ dev \in Prompts
      BY DEF Init, BaseInit, NoSession, Reply, Links, Prompts, Outs
    <3>2. inq \in Seq(Line(Lines)) /\ rx \in Seq(Reply)
          /\ todo \in Seq(Frame(Ops, Lines))
      BY DEF Init, BaseInit, NoSession
    <3> QED BY <3>1, <3>2 DEF Init, BaseInit, NoSession, BaseTypeOK
  <2>2. call \in CallRecord
    BY DEF Init, NewCall, CallRecord, UserOps, AtEmptyPrompt
  <2> QED BY <2>1, <2>2 DEF Init, OwnTyped, AnyPrompt, Prompts
<1>2. StackShape(Ops, Lines) /\ SentWhileOpen /\ ConversationInStep
  BY DEF Init, BaseInit, NoSession, StackShape, SentWhileOpen, ConversationInStep
<1> QED BY <1>1, <1>2 DEF IInv, SessionInv

(* So does a step that changes nothing.                                    *)
LEMMA StutterKeepsIInv ==
  ASSUME IInv, UNCHANGED vars
  PROVE  IInv'
  BY DEF IInv, OwnTyped, SessionInv, BaseTypeOK, StackShape, SentWhileOpen,
         ConversationInStep, Backlog, Waiting, Running, frame, vars, baseVars, wire

(* Every step preserves it.                                                *)
LEMMA StepKeepsIInv == IInv /\ [Next]_vars => IInv'
  BY UserKeepsIInv, ExchangeKeepsIInv, LocalKeepsIInv, ExceptionsKeepIInv,
     EnvironmentKeepsIInv, StutterKeepsIInv DEF Next, Client

(* The inductive invariant holds in every reachable state.                 *)
THEOREM Invariance == Spec => []IInv
<1> QED BY InitIInv, StepKeepsIInv, PTL DEF Spec

(* Every variable keeps its type, whatever the network and the user do.    *)
THEOREM TypeCorrect == Spec => []TypeOK
<1>1. IInv => TypeOK
  BY DEF IInv, OwnTyped, SessionInv, TypeOK
<1> QED BY <1>1, Invariance, PTL

(* The conversation stays in step: every reply that RVBD_CLI's methods     *)
(* match answers the line they sent last, as long as no wait was given up  *)
(* and the appliance printed no prompt of its own.                         *)
THEOREM InStep == Spec => []ConversationInStep
<1>1. IInv => ConversationInStep
  BY DEF IInv
<1> QED BY <1>1, Invariance, PTL

(* A timeout reaches the user: no method catches it, sends another line    *)
(* after it or replaces the session.                                       *)
THEOREM TimeoutReachesUser == Spec => TimeoutEndsCall
<1> DEFINE A == exc = "CmdlineTimeout" /\ ~Idle =>
                  exc' = "CmdlineTimeout" /\ link' \in {link, "dead"}
                    /\ Len(inq') <= Len(inq)
<1>1. ASSUME IInv, [Next]_vars, exc = "CmdlineTimeout", ~Idle
      PROVE  /\ exc' = "CmdlineTimeout" /\ link' \in {link, "dead"}
             /\ Len(inq') <= Len(inq)
  <2>1. inq \in Seq(Line(Lines)) /\ Len(inq) \in Nat
    BY <1>1, TypeFacts DEF BaseTypeOK
  <2>2. ~User /\ ~Exchange /\ ~Local
    BY <1>1 DEF Idle, User, CallStart, CallEnterMode, CallEnterModeX,
       CallExecCommand, CallGetSubCommands, SetDefaultMode, Exit, Call,
       Exchange, OpenFails, OpenSucceeds, SendFails, SendSucceeds, Expect,
       ExpectMatch, ExpectMore, ExpectClosed, ExpectTimeout, Running,
       Local, StartCli, RunCliFromShell, LeaveFor, Password, EnterShell,
       ShellFrom, UnknownMode, ExecCommand, ExecSend, CheckOutput,
       RaiseCliError, DeleteLine, LeaveTry
  <2>3. ~EnterModeRestarts /\ ~ExecRestarts
    BY <1>1 DEF EnterModeRestarts, EnterModeCatches, ExecRestarts, ExecCatches,
       ConnectionErrors
  <2>4. CASE Unwind
    BY <1>1, <2>1, <2>4 DEF Unwind, Quiet, wire
  <2>5. CASE Environment
    <3>1. exc' = exc /\ link' \in {link, "dead"}
      BY <2>5 DEF Environment, Answer, DeviceAnswers, AnswerHelp, Crash, Drop
    <3>2. \/ inq # <<>> /\ inq' = Tail(inq)
          \/ inq' = inq
          \/ inq' = <<>>
      BY <2>5 DEF Environment, Answer, DeviceAnswers, AnswerHelp, Crash, Drop
    <3>3. Len(inq') <= Len(inq)
      BY <2>1, <3>2
    <3> QED BY <1>1, <3>1, <3>3
  <2>6. CASE UNCHANGED vars
    BY <1>1, <2>1, <2>6 DEF vars, baseVars, wire
  <2> QED BY <1>1, <2>2, <2>3, <2>4, <2>5, <2>6 DEF Next, Client, Exceptions
<1>2. IInv /\ [Next]_vars => [A]_vars
  BY <1>1
<1> QED BY <1>2, Invariance, PTL DEF Spec, TimeoutEndsCall

-----------------------------------------------------------------------------
(* Instructions of one kind, and how they may nest.                        *)

(* Some instruction of the program is in S.                                *)
Some(s, S) == \E j \in DOMAIN s : s[j] \in S

(* The marks an instruction carries: 1 launches the CLI, 2 is the          *)
(* assignment enter_mode_shell begins with, 3 runs a command of the class's *)
(* own under its handler, or will, 4 and 5 are the handlers of enter_mode, *)
(* 6 sends the user's command, 7 is its handler, or will send it under     *)
(* one, 8 is the user's exec_command.  All others are 0.                   *)
Rank(x) ==
  CASE x.op = "start_cli"   -> 1
    [] x.op = "enter_shell" -> 2
    [] x.op \in {"config_from", "shell_from"} -> 3
    [] x.op \in {"exec_send", "except_exec"}  -> IF x.line = Cmd THEN 7 ELSE 3
    [] x.op = "exec" -> IF x.line # Cmd /\ x.mode \in {"none", "undef"} THEN 3 ELSE 8
    [] x.op = "except_enter" -> IF x.flag THEN 5 ELSE 4
    [] x.op = "send" -> IF x.line = Cmd THEN 6 ELSE 0
    [] OTHER -> 0

Ranked(R) == {x \in Frame(Ops, Lines) : Rank(x) \in R}

(* Marks grow from the instruction being executed to the first one.        *)
Nested(s) == \A j, k \in DOMAIN s :
               j < k /\ Rank(s[j]) > 0 /\ Rank(s[k]) > 0 => Rank(s[j]) < Rank(s[k])

(* Instructions that lead to the CLI being launched from a shell.          *)
Launches == {x \in Frame(Ops, Lines) :
               x.op \in {"start_cli", "run_cli"} \/ x.line = CliPath}

(* Instructions with marks in R that do not.                               *)
Marked(R) == {x \in Instr : Rank(x) \in {0} \cup R /\ x \notin Launches}

(* What reads self._default_mode, or will.                                 *)
Latching == {x \in Frame(Ops, Lines) :
               \/ x.op = "shell_from"
               \/ x.op = "exec" /\ x.line # Cmd /\ x.mode = "undef"}

(* The mark of every instruction is one of them.                           *)
LEMMA RankTyped ==
  ASSUME NEW x
  PROVE  Rank(x) \in 0 .. 8
  BY DEF Rank

(* A program of two programs has the instructions of both.                 *)
LEMMA SomeConcat ==
  ASSUME NEW F, NEW S, NEW p \in Seq(F), NEW q \in Seq(F)
  PROVE  Some(p \o q, S) <=> Some(p, S) \/ Some(q, S)
<1> DEFINE r == p \o q
<1>1. /\ Len(p) \in Nat /\ Len(q) \in Nat /\ Len(r) = Len(p) + Len(q)
      /\ DOMAIN p = 1 .. Len(p) /\ DOMAIN q = 1 .. Len(q) /\ DOMAIN r = 1 .. Len(r)
      /\ \A j \in 1 .. Len(p) : r[j] = p[j]
      /\ \A j \in 1 .. Len(q) : r[Len(p) + j] = q[j]
  BY ConcatProperties
<1> HIDE DEF r
<1>2. ASSUME NEW j \in DOMAIN p, p[j] \in S
      PROVE  Some(r, S)
  <2>1. j \in DOMAIN r /\ r[j] = p[j]
    BY <1>1
  <2> QED BY <1>2, <2>1 DEF Some
<1>3. ASSUME NEW j \in DOMAIN q, q[j] \in S
      PROVE  Some(r, S)
  <2>1. Len(p) + j \in DOMAIN r /\ r[Len(p) + j] = q[j]
    BY <1>1
  <2> QED BY <1>3, <2>1 DEF Some
<1>4. ASSUME NEW j \in DOMAIN r, r[j] \in S
      PROVE  Some(p, S) \/ Some(q, S)
  <2>1. CASE j \in 1 .. Len(p)
    BY <1>1, <1>4, <2>1 DEF Some
  <2>2. CASE j \notin 1 .. Len(p)
    <3>1. j - Len(p) \in 1 .. Len(q) /\ j = Len(p) + (j - Len(p))
      BY <1>1, <2>2
    <3>2. j - Len(p) \in DOMAIN q /\ q[j - Len(p)] = r[j]
      BY <1>1, <3>1
    <3> QED BY <1>4, <3>2 DEF Some
  <2> QED BY <2>1, <2>2
<1>5. Some(r, S) <=> Some(p, S) \/ Some(q, S)
  BY <1>2, <1>3, <1>4 DEF Some
<1> QED BY <1>5 DEF r

(* The head of a stack and what is below it.                               *)
LEMMA SomeHeadTail ==
  ASSUME NEW F, NEW S, NEW s \in Seq(F), s # <<>>
  PROVE  Some(s, S) <=> Head(s) \in S \/ Some(Tail(s), S)
<1> DEFINE t == Tail(s)
<1>1. /\ Len(s) \in Nat /\ Len(s) >= 1 /\ DOMAIN s = 1 .. Len(s) /\ Head(s) = s[1]
  BY EmptySeq
<1>2. /\ t \in Seq(F) /\ Len(t) = Len(s) - 1 /\ DOMAIN t = 1 .. Len(t)
      /\ \A j \in 1 .. Len(t) : t[j] = s[j + 1]
  BY <1>1
<1> HIDE DEF t
<1>3. ASSUME NEW j \in DOMAIN t, t[j] \in S
      PROVE  Some(s, S)
  <2>1. j + 1 \in DOMAIN s /\ s[j + 1] = t[j]
    BY <1>1, <1>2
  <2> QED BY <1>3, <2>1 DEF Some
<1>4. ASSUME NEW j \in DOMAIN s, s[j] \in S, j # 1
      PROVE  Some(t, S)
  <2>1. j - 1 \in DOMAIN t /\ (j - 1) + 1 = j
    BY <1>1, <1>2, <1>4
  <2>2. t[j - 1] = s[j]
    BY <1>2, <2>1
  <2> QED BY <1>4, <2>1, <2>2 DEF Some
<1>5. 1 \in DOMAIN s
  BY <1>1
<1>6. Some(s, S) <=> Head(s) \in S \/ Some(t, S)
  BY <1>1, <1>3, <1>4, <1>5 DEF Some
<1> QED BY <1>6 DEF t

(* Short programs have no instruction but theirs.                          *)
LEMMA SomeShort ==
  ASSUME NEW S
  PROVE  /\ ~Some(<<>>, S)
         /\ \A a : Some(<<a>>, S) <=> a \in S
<1>1. \A a : DOMAIN <<a>> = {1} /\ <<a>>[1] = a
  OBVIOUS
<1>2. DOMAIN <<>> = {}
  OBVIOUS
<1> QED BY <1>1, <1>2 DEF Some

(* A program made of T has an instruction in S only if T has.              *)
LEMMA SomeOf ==
  ASSUME NEW T, NEW S, NEW s \in Seq(T), Some(s, S)
  PROVE  \E x \in T : x \in S
  BY DEF Some

(* Programs nest one below the other if the marks of the upper one are all *)
(* below those of the lower one.                                           *)
LEMMA NestedConcat ==
  ASSUME NEW n \in 0 .. 8, NEW p \in Seq(Ranked(0 .. n)), NEW q \in Seq(Frame(Ops, Lines)),
         Nested(p), Nested(q), ~Some(q, Ranked(1 .. n))
  PROVE  Nested(p \o q)
<1> DEFINE r == p \o q
<1>1. /\ Len(p) \in Nat /\ Len(q) \in Nat /\ Len(r) = Len(p) + Len(q)
      /\ DOMAIN p = 1 .. Len(p) /\ DOMAIN q = 1 .. Len(q) /\ DOMAIN r = 1 .. Len(r)
      /\ \A j \in 1 .. Len(p) : r[j] = p[j]
      /\ \A j \in 1 .. Len(q) : r[Len(p) + j] = q[j]
  <2>1. p \in Seq(Frame(Ops, Lines))
    <3>1. Ranked(0 .. n) \subseteq Frame(Ops, Lines)
      BY DEF Ranked
    <3> QED BY <3>1, SeqMonotonic
  <2> QED BY <2>1, ConcatProperties
<1> HIDE DEF r
<1>2. ASSUME NEW j \in 1 .. Len(p)
      PROVE  Rank(p[j]) \in 0 .. n
  BY <1>1 DEF Ranked
<1>3. ASSUME NEW j \in 1 .. Len(q)
      PROVE  Rank(q[j]) \in Nat /\ (Rank(q[j]) = 0 \/ Rank(q[j]) > n)
  <2>1. q[j] \in Frame(Ops, Lines) /\ q[j] \notin Ranked(1 .. n)
    BY <1>1 DEF Some
  <2>2. Rank(q[j]) \in 0 .. 8 /\ Rank(q[j]) \notin 1 .. n
    BY <2>1, RankTyped DEF Ranked
  <2> QED BY <2>2
<1>4. ASSUME NEW j \in DOMAIN r, NEW k \in DOMAIN r, j < k,
             Rank(r[j]) > 0, Rank(r[k]) > 0
      PROVE  Rank(r[j]) < Rank(r[k])
  <2>1. CASE k \in 1 .. Len(p)
    <3>1. j \in 1 .. Len(p)
      BY <1>1, <1>4, <2>1
    <3>2. r[j] = p[j] /\ r[k] = p[k] /\ j \in DOMAIN p /\ k \in DOMAIN p
      BY <1>1, <2>1, <3>1
    <3> QED BY <1>4, <3>2 DEF Nested
  <2>2. CASE k \notin 1 .. Len(p)
    <3> DEFINE m == k - Len(p)
    <3>1. m \in 1 .. Len(q) /\ k = Len(p) + m
      BY <1>1, <2>2
    <3> HIDE DEF m
    <3>2. r[k] = q[m]
      BY <1>1, <3>1
    <3>3. CASE j \in 1 .. Len(p)
      <4>1. r[j] = p[j]
        BY <1>1, <3>3
      <4>2. Rank(p[j]) \in 0 .. n
        BY <1>2, <3>3
      <4>3. Rank(q[m]) \in Nat /\ Rank(q[m]) > n
        BY <1>3, <1>4, <3>1, <3>2
      <4> QED BY <3>2, <4>1, <4>2, <4>3
    <3>4. CASE j \notin 1 .. Len(p)
      <4> DEFINE i == j - Len(p)
      <4>1. i \in 1 .. Len(q) /\ j = Len(p) + i /\ i < m
        BY <1>1, <1>4, <3>1, <3>4
      <4> HIDE DEF i
      <4>2. r[j] = q[i] /\ i \in DOMAIN q /\ m \in DOMAIN q
        BY <1>1, <3>1, <4>1
      <4> QED BY <1>4, <3>2, <4>1, <4>2 DEF Nested
    <3> QED BY <3>3, <3>4
  <2> QED BY <2>1, <2>2
<1> QED BY <1>4 DEF Nested, r

(* What is below the head of a stack nests, above the head's mark.         *)
LEMMA NestedTail ==
  ASSUME NEW s \in Seq(Frame(Ops, Lines)), s # <<>>, Nested(s)
  PROVE  /\ Nested(Tail(s))
         /\ Rank(Head(s)) > 0 => ~Some(Tail(s), Ranked(1 .. Rank(Head(s))))
<1> DEFINE t == Tail(s)
<1>1. /\ Len(s) \in Nat /\ Len(s) >= 1 /\ DOMAIN s = 1 .. Len(s) /\ Head(s) = s[1]
  BY EmptySeq
<1>2. /\ t \in Seq(Frame(Ops, Lines)) /\ Len(t) = Len(s) - 1 /\ DOMAIN t = 1 .. Len(t)
      /\ \A j \in 1 .. Len(t) : t[j] = s[j + 1]
  BY <1>1
<1> HIDE DEF t
<1>3. ASSUME NEW j \in DOMAIN t
      PROVE  j + 1 \in DOMAIN s /\ t[j] = s[j + 1] /\ j \in Nat /\ 1 < j + 1
  BY <1>1, <1>2
<1>4. Nested(t)
  <2> SUFFICES ASSUME NEW j \in DOMAIN t, NEW k \in DOMAIN t, j < k,
                      Rank(t[j]) > 0, Rank(t[k]) > 0
               PROVE  Rank(t[j]) < Rank(t[k])
    BY DEF Nested
  <2>1. j + 1 < k + 1
    BY <1>3
  <2> QED BY <1>3, <2>1 DEF Nested
<1>5. ASSUME Rank(Head(s)) > 0, NEW j \in DOMAIN t, t[j] \in Ranked(1 .. Rank(Head(s)))
      PROVE  FALSE
  <2>1. Rank(t[j]) \in 1 .. Rank(s[1]) /\ Rank(s[1]) \in 0 .. 8 /\ 1 \in DOMAIN s
    BY <1>1, <1>5, RankTyped DEF Ranked
  <2>2. Rank(s[1]) < Rank(s[j + 1])
    BY <1>1, <1>3, <1>5, <2>1 DEF Nested
  <2> QED BY <1>3, <2>1, <2>2
<1> QED BY <1>4, <1>5 DEF Some, t

-----------------------------------------------------------------------------
(* What an instruction is expanded to.                                     *)

(* The user's command, still to be sent under a handler; and all that will *)
(* send it.                                                                *)
Unsent == {x \in Frame(Ops, Lines) : x.op = "exec_send" /\ x.line = Cmd}
Runs   == Ranked({6, 8}) \cup Unsent

(* The marks an instruction with mark r may be expanded to.                *)
Yields(r) == CASE r = 8 -> {0, 2, 3, 5, 7}
               [] r = 7 -> {0, 6, 7}
               [] OTHER -> {0, r}

Offspring(x) == {y \in Instr : /\ Rank(y) \in Yields(Rank(x))
                               /\ y \in Launches => x \in Launches
                               /\ y \in Runs => x \in Runs
                               /\ y \in Unsent => Rank(x) = 8}

(* Marks that allow more allow what fewer allowed.                         *)
LEMMA MarkedGrows ==
  ASSUME NEW R, NEW S, R \subseteq S
  PROVE  Marked(R) \subseteq Marked(S) /\ Seq(Marked(R)) \subseteq Seq(Marked(S))
<1>1. Marked(R) \subseteq Marked(S)
  BY DEF Marked
<1> QED BY <1>1, SeqMonotonic

(* Marked instructions are instructions with these marks.                  *)
LEMMA MarkedIsRanked ==
  ASSUME NEW R, NEW S, {0} \cup R \subseteq S
  PROVE  Marked(R) \subseteq Ranked(S) /\ Seq(Marked(R)) \subseteq Seq(Ranked(S))
<1>1. Marked(R) \subseteq Ranked(S)
  BY InstrIsFrame DEF Marked, Ranked
<1> QED BY <1>1, SeqMonotonic

(* Low marks neither send the user's command nor will.                     *)
LEMMA MarkedOffspring ==
  ASSUME NEW R \in SUBSET (1 .. 5), NEW x, {0} \cup R \subseteq Yields(Rank(x))
  PROVE  Seq(Marked(R)) \subseteq Seq(Offspring(x))
<1>1. ASSUME NEW y \in Marked(R)
      PROVE  y \in Offspring(x)
  <2>1. y \in Instr /\ Rank(y) \in {0} \cup R /\ y \notin Launches
    BY DEF Marked
  <2>2. Rank(y) \in 0 .. 5
    <3>1. 0 \in 0 .. 5 /\ \A r \in R : r \in 0 .. 5
      OBVIOUS
    <3> QED BY <2>1, <3>1
  <2>3. y \notin Ranked({6, 8}) /\ y \notin Unsent
    BY <2>2 DEF Ranked, Unsent, Rank
  <2> QED BY <2>1, <2>3 DEF Offspring, Runs
<1>2. Marked(R) \subseteq Offspring(x)
  BY <1>1
<1> QED BY <1>2, SeqMonotonic

(* The instructions RVBD_CLI's methods are made of, with their marks.      *)
LEMMA InstrMarks ==
  /\ Probe \in Marked({})
  /\ \A op \in {"normal_from", "enable_from", "password", "unknown_mode", "cli_error",
                "delete_line"} : Do(op) \in Marked({})
  /\ Do("enter_shell") \in Marked({2})
  /\ Do("config_from") \in Marked({3}) /\ Do("shell_from") \in Marked({3})
  /\ ConfigTerminal \in Marked({3}) /\ ShellCommand \in Marked({3})
  /\ \A line \in Lines \ {CliPath, Cmd}, pats \in SUBSET Prompts :
       Send(line, pats) \in Marked({})
  /\ \A mode \in Modes \cup {"none", "undef"} :
       /\ [Do("except_enter") EXCEPT !.mode = mode, !.flag = TRUE] \in Marked({5})
       /\ [Do("except_enter") EXCEPT !.mode = mode, !.flag = FALSE] \in Marked({4})
<1>1. \A op \in Ops : Do(op).op = op /\ Do(op).line = ""
  BY DEF Do
<1>2. \A op \in {"normal_from", "enable_from", "password", "unknown_mode", "cli_error",
                "delete_line"} : Do(op) \in Marked({})
  BY <1>1, PlainInstr DEF Marked, Rank, Launches, CliPath, Ops
<1>3. Do("enter_shell") \in Marked({2})
  BY <1>1, PlainInstr DEF Marked, Rank, Launches, CliPath, Ops
<1>4. Do("config_from") \in Marked({3}) /\ Do("shell_from") \in Marked({3})
  BY <1>1, PlainInstr DEF Marked, Rank, Launches, CliPath, Ops
<1>5. \A line \in Lines \ {CliPath, Cmd}, pats \in SUBSET Prompts :
        Send(line, pats) \in Marked({})
  <2>1. \A line, pats : Send(line, pats).op = "send" /\ Send(line, pats).line = line
    BY DEF Send, Do
  <2> QED BY <2>1, PlainInstr DEF Marked, Rank, Launches
<1>6. Probe \in Marked({})
  BY <1>5 DEF Probe, AnyPrompt, Prompts, Lines, CliPath, Cmd
<1>7. ConfigTerminal \in Marked({3})
  <2>1. ConfigTerminal \in Instr
    BY ExecInner DEF ConfigTerminal, AnyPrompt, Prompts, Outs, Lines
  <2> QED BY <2>1 DEF ConfigTerminal, Exec, Marked, Rank, Launches, CliPath, Cmd
<1>8. ShellCommand \in Marked({3})
  <2>1. ShellCommand \in Instr
    BY ExecInner DEF ShellCommand, StartPrompt, Prompts, Outs, Lines
  <2> QED BY <2>1 DEF ShellCommand, Exec, Marked, Rank, Launches, CliPath, Cmd
<1>9. ASSUME NEW mode \in Modes \cup {"none", "undef"}, NEW flag \in BOOLEAN
      PROVE  LET x == [Do("except_enter") EXCEPT !.mode = mode, !.flag = flag]
             IN  x \in Instr /\ x.op = "except_enter" /\ x.flag = flag /\ x.line = ""
  BY <1>9 DEF Do, Instr, Inner, Frame, Prompts, Outs, Ops, Lines
<1>10. \A mode \in Modes \cup {"none", "undef"} :
         /\ [Do("except_enter") EXCEPT !.mode = mode, !.flag = TRUE] \in Marked({5})
         /\ [Do("except_enter") EXCEPT !.mode = mode, !.flag = FALSE] \in Marked({4})
  BY <1>9 DEF Marked, Rank, Launches, CliPath
<1> QED BY <1>2, <1>3, <1>4, <1>5, <1>6, <1>7, <1>8, <1>10

(* Short programs nest if their marks grow.                                *)
LEMMA NestedShort ==
  /\ Nested(<<>>) /\ \A a : Nested(<<a>>)
  /\ \A a, b : Rank(a) = 0 \/ Rank(b) = 0 => Nested(<<a, b>>)
  /\ \A a, b, c : (/\ Rank(a) = 0 \/ Rank(b) = 0 \/ Rank(a) < Rank(b)
                   /\ Rank(b) = 0 \/ Rank(c) = 0 \/ Rank(b) < Rank(c)
                   /\ Rank(a) = 0 \/ Rank(c) = 0 \/ Rank(a) < Rank(c))
                     => Nested(<<a, b, c>>)
<1>1. Nested(<<>>) /\ \A a : Nested(<<a>>)
  BY DEF Nested
<1>2. ASSUME NEW a, NEW b, Rank(a) = 0 \/ Rank(b) = 0
      PROVE  Nested(<<a, b>>)
  <2>1. DOMAIN <<a, b>> = {1, 2} /\ <<a, b>>[1] = a /\ <<a, b>>[2] = b
    OBVIOUS
  <2> QED BY <1>2, <2>1 DEF Nested
<1>3. ASSUME NEW a, NEW b, NEW c,
             Rank(a) = 0 \/ Rank(b) = 0 \/ Rank(a) < Rank(b),
             Rank(b) = 0 \/ Rank(c) = 0 \/ Rank(b) < Rank(c),
             Rank(a) = 0 \/ Rank(c) = 0 \/ Rank(a) < Rank(c)
      PROVE  Nested(<<a, b, c>>)
  <2>1. /\ DOMAIN <<a, b, c>> = {1, 2, 3} /\ <<a, b, c>>[1] = a
        /\ <<a, b, c>>[2] = b /\ <<a, b, c>>[3] = c
    OBVIOUS
  <2> QED BY <1>3, <2>1 DEF Nested
<1> QED BY <1>1, <1>2, <1>3

(* A program without marks nests.                                          *)
LEMMA NestedUnmarked ==
  ASSUME NEW p \in Seq(Ranked({0}))
  PROVE  Nested(p)
<1>1. \A j \in DOMAIN p : Rank(p[j]) = 0
  BY DEF Ranked
<1> QED BY <1>1 DEF Nested

(* enter_mode and its parts: their marks, and that enter_mode_shell begins *)
(* with its assignment.                                                    *)
LEMMA EnterModeMarks ==
  ASSUME NEW mode \in Modes \cup {"none", "undef"}, NEW reinit \in BOOLEAN
  PROVE  /\ EnterModeBody(mode) \in Seq(Marked({2, 3})) /\ Nested(EnterModeBody(mode))
         /\ Some(EnterModeBody(mode), Latching) => Some(EnterModeBody(mode), Ranked({2}))
         /\ EnterMode(mode, reinit) \in Seq(Marked({2, 3, IF reinit THEN 5 ELSE 4}))
         /\ Nested(EnterMode(mode, reinit))
         /\ Some(EnterMode(mode, reinit), Latching)
              => Some(EnterMode(mode, reinit), Ranked({2}))
<1> DEFINE h == [Do("except_enter") EXCEPT !.mode = mode, !.flag = reinit]
           b == EnterModeBody(mode)
           m == IF reinit THEN 5 ELSE 4
<1>1. Marked({}) \subseteq Marked({2, 3}) /\ Marked({2}) \subseteq Marked({2, 3})
      /\ Marked({3}) \subseteq Marked({2, 3})
  BY MarkedGrows
<1>2. /\ EnterModeNormal \in Seq(Marked({2, 3})) /\ EnterModeEnable \in Seq(Marked({2, 3}))
      /\ EnterModeConfig \in Seq(Marked({2, 3})) /\ EnterModeShell \in Seq(Marked({2, 3}))
      /\ <<Do("unknown_mode")>> \in Seq(Marked({2, 3}))
  <2>1. /\ Probe \in Marked({2, 3}) /\ Do("normal_from") \in Marked({2, 3})
        /\ Do("enable_from") \in Marked({2, 3}) /\ Do("config_from") \in Marked({2, 3})
        /\ Do("shell_from") \in Marked({2, 3}) /\ Do("enter_shell") \in Marked({2, 3})
        /\ Do("unknown_mode") \in Marked({2, 3})
    BY <1>1, InstrMarks
  <2> QED BY <2>1, One, Two, Three
          DEF EnterModeNormal, EnterModeEnable, EnterModeConfig, EnterModeShell
<1>3. b \in Seq(Marked({2, 3}))
  BY <1>2 DEF EnterModeBody
<1>4. \A op \in Ops : Do(op).op = op
  BY DEF Do
<1>5. /\ Rank(Probe) = 0 /\ Rank(Do("enter_shell")) = 2 /\ Rank(Do("shell_from")) = 3
  BY <1>4 DEF Rank, Probe, Send, Do, Cmd, Ops
<1>6. Nested(b)
  BY <1>5, NestedShort DEF EnterModeBody, EnterModeNormal, EnterModeEnable, EnterModeConfig,
     EnterModeShell
<1>7. Some(b, Latching) => Some(b, Ranked({2}))
  <2>1. CASE mode = "shell"
    <3>1. Do("enter_shell") \in Ranked({2})
      BY InstrMarks, <1>5, InstrIsFrame DEF Marked, Ranked
    <3>2. DOMAIN b = {1, 2, 3} /\ b[1] = Do("enter_shell")
      BY <2>1 DEF EnterModeBody, EnterModeShell
    <3> HIDE DEF b
    <3> QED BY <3>1, <3>2 DEF Some
  <2>2. CASE mode # "shell"
    <3>1. \A op \in Ops \ {"shell_from", "exec"} : Do(op) \notin Latching
      BY <1>4 DEF Latching
    <3>2. Probe \notin Latching
      BY DEF Latching, Probe, Send, Do
    <3>3. \A u, v : /\ DOMAIN <<u>> = {1} /\ <<u>>[1] = u
                    /\ DOMAIN <<u, v>> = {1, 2} /\ <<u, v>>[1] = u /\ <<u, v>>[2] = v
      OBVIOUS
    <3>4. /\ ~Some(EnterModeNormal, Latching) /\ ~Some(EnterModeEnable, Latching)
          /\ ~Some(EnterModeConfig, Latching) /\ ~Some(<<Do("unknown_mode")>>, Latching)
      BY <3>1, <3>2, <3>3 DEF Some, EnterModeNormal, EnterModeEnable, EnterModeConfig, Ops
    <3> QED BY <2>2, <3>4 DEF EnterModeBody
  <2> QED BY <2>1, <2>2
<1>8. h \in Marked({m}) /\ h \notin Latching
  BY InstrMarks DEF Latching, Do
<1>9. /\ m \in {4, 5} /\ Marked({m}) \subseteq Marked({2, 3, m})
      /\ Seq(Marked({2, 3})) \subseteq Seq(Marked({2, 3, m}))
  BY MarkedGrows
<1> DEFINE e == EnterMode(mode, reinit)
<1>10. e = b \o <<h>>
  BY DEF EnterMode
<1> HIDE DEF h, b, m
<1>11. b \in Seq(Marked({2, 3, m})) /\ <<h>> \in Seq(Marked({2, 3, m}))
  BY <1>3, <1>8, <1>9, One
<1>12. e \in Seq(Marked({2, 3, m}))
  BY <1>10, <1>11, ConcatProperties
<1>13. /\ b \in Seq(Ranked(0 .. 3)) /\ <<h>> \in Seq(Frame(Ops, Lines))
       /\ b \in Seq(Frame(Ops, Lines))
       /\ Rank(h) \in {0, 4, 5}
  <2>1. Seq(Marked({2, 3})) \subseteq Seq(Ranked(0 .. 3))
    BY MarkedIsRanked
  <2>2. h \in Instr /\ Marked({2, 3}) \subseteq Instr /\ Rank(h) \in {0, m}
    BY <1>8 DEF Marked
  <2> QED BY <1>3, <1>9, <2>1, <2>2, InstrIsFrame, SeqMonotonic, One
<1>14. Nested(e)
  <2>1. ~Some(<<h>>, Ranked(1 .. 3))
    <3>1. h \notin Ranked(1 .. 3)
      BY <1>13 DEF Ranked
    <3> QED BY <3>1, SomeShort
  <2>2. Nested(<<h>>) /\ 3 \in 0 .. 8
    BY NestedShort
  <2> QED BY <1>6, <1>10, <1>13, <2>1, <2>2, NestedConcat
<1>15. Some(e, Latching) => Some(e, Ranked({2}))
  <2>1. \A S : Some(e, S) <=> Some(b, S) \/ Some(<<h>>, S)
    BY <1>10, <1>13, SomeConcat
  <2>2. ~Some(<<h>>, Latching)
    BY <1>8, SomeShort
  <2> QED BY <1>7, <2>1, <2>2
<1> QED BY <1>3, <1>6, <1>7, <1>12, <1>14, <1>15 DEF b, m, e

-----------------------------------------------------------------------------
(* How the handlers on the stack nest.  Of the restarts a call can still   *)
(* make, one is the handler's of the command of a class's own, two are the *)
(* first enter_mode's, one the user's command's, all four the user's       *)
(* exec_command's.  And once enter_mode_shell has begun, default_mode is   *)
(* None until _shell has been run, whoever called it.                      *)
Has(s, r) == IF Some(s, Ranked({r})) THEN 1 ELSE 0
Load(s)   == Has(s, 3) + 2 * Has(s, 5) + Has(s, 7) + 4 * Has(s, 8)

NestInv ==
  /\ Nested(todo)
  /\ todo # <<>> => ~Some(Tail(todo), Ranked({8}))
  /\ todo # <<>> /\ Rank(frame) = 8 => frame.line = Cmd /\ Resolved(frame.mode) = call.mode
  /\ call.restarts + Load(todo) <= 4
  /\ exc = "none" /\ Some(todo, Latching) /\ ~Some(todo, Ranked({2}))
       => defMode = "none" /\ ~Some(todo, Ranked({1}))

(* What an instruction is replaced by when its step raises nothing.        *)
Expansion(x, prog) ==
  /\ prog \in Seq(Offspring(x)) /\ Nested(prog)
  /\ x \in Runs => Some(prog, Runs)
  /\ Some(prog, Latching) => x \in Latching \/ Some(prog, Ranked({2}))

(* What reads default_mode is marked 3; what runs the user's command has   *)
(* an operation of its own.                                                *)
LEMMA LatchingRuns ==
  /\ \A x \in Latching : Rank(x) = 3
  /\ \A x \in Runs : x.op \in {"send", "exec", "exec_send"}
<1>1. \A x \in Latching : Rank(x) = 3
  BY DEF Latching, Rank
<1>2. \A x \in Ranked({6, 8}) : x.op \in {"send", "exec"}
  BY DEF Ranked, Rank
<1> QED BY <1>1, <1>2 DEF Runs, Unsent

(* Low marks are an expansion of what does not run the user's command.     *)
LEMMA LowExpansion ==
  ASSUME NEW R \in SUBSET (1 .. 5), NEW x, {0} \cup R \subseteq Yields(Rank(x)),
         x \notin Runs, NEW prog \in Seq(Marked(R)), Nested(prog),
         Some(prog, Latching) => x \in Latching \/ Some(prog, Ranked({2}))
  PROVE  Expansion(x, prog)
  BY MarkedOffspring DEF Expansion

(* So is what has no marks.                                                *)
LEMMA UnmarkedExpansion ==
  ASSUME NEW x, x \notin Runs, NEW prog \in Seq(Marked({}))
  PROVE  Expansion(x, prog)
<1>1. prog \in Seq(Ranked({0}))
  BY MarkedIsRanked
<1>2. Nested(prog)
  BY <1>1, NestedUnmarked
<1>3. ~Some(prog, Latching)
  <2>1. \A j \in DOMAIN prog : Rank(prog[j]) = 0
    BY <1>1 DEF Ranked
  <2> QED BY <2>1, LatchingRuns DEF Some
<1>4. {} \in SUBSET (1 .. 5) /\ {0} \cup {} \subseteq Yields(Rank(x))
  BY DEF Yields
<1> QED BY <1>2, <1>3, <1>4, LowExpansion

(* The way to start_cli's end.                                             *)
LEMMA LaunchExpansion ==
  ASSUME NEW x \in Launches, x \notin Runs,
         NEW prog \in Seq({y \in Instr : Rank(y) = 0})
  PROVE  Expansion(x, prog)
<1>1. {y \in Instr : Rank(y) = 0} \subseteq Ranked({0})
  BY InstrIsFrame DEF Ranked
<1>2. {y \in Instr : Rank(y) = 0} \subseteq Offspring(x)
  <2>1. 0 \in Yields(Rank(x))
    BY DEF Yields
  <2>2. ASSUME NEW y \in Instr, Rank(y) = 0
        PROVE  y \notin Runs /\ y \notin Unsent
    BY <2>2 DEF Runs, Ranked, Unsent, Rank
  <2> QED BY <2>1, <2>2 DEF Offspring
<1>3. prog \in Seq(Ranked({0})) /\ prog \in Seq(Offspring(x))
  BY <1>1, <1>2, SeqMonotonic
<1>4. ~Some(prog, Latching)
  <2>1. \A j \in DOMAIN prog : Rank(prog[j]) = 0
    BY <1>3 DEF Ranked
  <2> QED BY <2>1, LatchingRuns DEF Some
<1> QED BY <1>3, <1>4, NestedUnmarked DEF Expansion

(* The ways from one mode to another.                                      *)
LEMMA TableExpansions ==
  ASSUME NEW p \in Prompts, NEW x, x \notin Runs
  PROVE  /\ Expansion(x, ToNormal[p]) /\ Expansion(x, ToEnable[p])
         /\ Rank(x) = 3 => Expansion(x, ToConfig[p])
<1>1. /\ Send("enable", {"enable", "password"}) \in Marked({})
      /\ Send("exit", {"enable"}) \in Marked({}) /\ Send("disable", {"normal"}) \in Marked({})
      /\ Do("password") \in Marked({}) /\ ConfigTerminal \in Marked({3})
  BY InstrMarks DEF Lines, Prompts, CliPath, Cmd
<1>2. /\ <<>> \in Seq(Marked({})) /\ Enable \in Seq(Marked({}))
      /\ <<Send("exit", {"enable"})>> \in Seq(Marked({}))
      /\ <<Send("disable", {"normal"})>> \in Seq(Marked({}))
      /\ <<Send("exit", {"enable"}), Send("disable", {"normal"})>> \in Seq(Marked({}))
  BY <1>1, One, Two DEF Enable
<1>3. ToNormal[p] \in Seq(Marked({})) /\ ToEnable[p] \in Seq(Marked({}))
  BY <1>2 DEF ToNormal, ToEnable
<1>4. ASSUME Rank(x) = 3
      PROVE  Expansion(x, ToConfig[p])
  <2>1. {3} \in SUBSET (1 .. 5) /\ {0} \cup {3} \subseteq Yields(Rank(x))
    BY <1>4 DEF Yields
  <2>2. ConfigTerminal \notin Latching
    BY DEF Latching, ConfigTerminal, Exec
  <2>3. /\ Seq(Marked({})) \subseteq Seq(Marked({3}))
        /\ Seq(Marked({})) \subseteq Seq(Ranked(0 .. 0))
        /\ Seq(Marked({})) \subseteq Seq(Frame(Ops, Lines))
        /\ Seq(Marked({3})) \subseteq Seq(Frame(Ops, Lines))
    <3>1. \A R : Marked(R) \subseteq Frame(Ops, Lines)
      BY InstrIsFrame DEF Marked
    <3> QED BY <3>1, MarkedGrows, MarkedIsRanked, SeqMonotonic
  <2>4. <<ConfigTerminal>> \in Seq(Marked({3})) /\ Nested(<<ConfigTerminal>>)
        /\ ~Some(<<ConfigTerminal>>, Latching) /\ <<ConfigTerminal>> \in Seq(Frame(Ops, Lines))
    BY <1>1, <2>2, <2>3, One, NestedShort, SomeShort
  <2> DEFINE q == <<ConfigTerminal>>
             r == Enable \o q
  <2>5. r \in Seq(Marked({3}))
    BY <1>2, <2>3, <2>4, ConcatProperties
  <2>6. Nested(r)
    <3>1. ~Some(q, Ranked(1 .. 0))
      BY DEF Some, Ranked
    <3>2. Nested(Enable) /\ 0 \in 0 .. 8 /\ Enable \in Seq(Ranked(0 .. 0))
      <4>1. Enable \in Seq(Ranked({0}))
        BY <1>2, MarkedIsRanked
      <4> QED BY <1>2, <2>3, <4>1, NestedUnmarked
    <3> QED BY <2>4, <3>1, <3>2, NestedConcat
  <2>7. ~Some(r, Latching)
    <3>1. ~Some(Enable, Latching)
      <4>1. Enable \in Seq(Ranked({0}))
        BY <1>2, MarkedIsRanked
      <4>2. \A j \in DOMAIN Enable : Rank(Enable[j]) = 0
        BY <4>1 DEF Ranked
      <4> QED BY <4>2, LatchingRuns DEF Some
    <3>2. Enable \in Seq(Frame(Ops, Lines))
      BY <1>2, <2>3
    <3> QED BY <2>4, <3>1, <3>2, SomeConcat
  <2> HIDE DEF q, r
  <2>8. Expansion(x, <<>>)
    BY <1>2, UnmarkedExpansion
  <2>9. Expansion(x, q) /\ Expansion(x, r)
    BY <2>1, <2>4, <2>5, <2>6, <2>7, LowExpansion DEF q
  <2> QED BY <2>8, <2>9 DEF ToConfig, q, r
<1> QED BY <1>3, <1>4, UnmarkedExpansion

(* enter_mode_shell from every mode.                                       *)
LEMMA ShellExpansion ==
  ASSUME NEW x \in Latching, x \notin Runs
  PROVE  /\ Expansion(x, <<>>) /\ Expansion(x, <<ShellCommand>>)
         /\ Expansion(x, EnterModeEnable \o <<ShellCommand>>)
<1>1. {3} \in SUBSET (1 .. 5) /\ {0} \cup {3} \subseteq Yields(Rank(x))
  BY LatchingRuns DEF Yields
<1>2. /\ Seq(Marked({})) \subseteq Seq(Marked({3}))
      /\ Seq(Marked({})) \subseteq Seq(Ranked({0}))
      /\ Seq(Marked({})) \subseteq Seq(Ranked(0 .. 0))
      /\ Seq(Marked({3})) \subseteq Seq(Frame(Ops, Lines))
  <2>1. \A R : Marked(R) \subseteq Frame(Ops, Lines)
    BY InstrIsFrame DEF Marked
  <2> QED BY <2>1, MarkedGrows, MarkedIsRanked, SeqMonotonic
<1> DEFINE p == EnterModeEnable
           q == <<ShellCommand>>
<1>3. p \in Seq(Marked({})) /\ <<>> \in Seq(Marked({}))
  <2>1. Probe \in Marked({}) /\ Do("enable_from") \in Marked({})
    BY InstrMarks
  <2> QED BY <2>1, Two DEF EnterModeEnable
<1>4. q \in Seq(Marked({3})) /\ Nested(q)
  BY InstrMarks, One, NestedShort
<1> HIDE DEF p, q
<1>5. p \o q \in Seq(Marked({3}))
  BY <1>2, <1>3, <1>4, ConcatProperties
<1>6. Nested(p \o q)
  <2>1. ~Some(q, Ranked(1 .. 0))
    BY DEF Some, Ranked
  <2>2. Nested(p) /\ 0 \in 0 .. 8 /\ p \in Seq(Ranked(0 .. 0)) /\ q \in Seq(Frame(Ops, Lines))
    BY <1>2, <1>3, <1>4, NestedUnmarked
  <2> QED BY <1>4, <2>1, <2>2, NestedConcat
<1>7. Expansion(x, <<>>)
  BY <1>3, UnmarkedExpansion
<1> QED BY <1>1, <1>4, <1>5, <1>6, <1>7, LowExpansion DEF p, q

(* exec_command without a mode change sends its command next.              *)
LEMMA SendNextExpansion ==
  ASSUME NEW x \in Frame(Ops, Lines), x.op = "exec", Rank(x) = 3 \/ x.line = Cmd
  PROVE  LET e == [x EXCEPT !.op = "exec_send"]
         IN  /\ e \in Offspring(x) /\ e \notin Latching
             /\ Rank(e) = IF x.line = Cmd THEN 7 ELSE 3
             /\ x.line = Cmd => e \in Unsent
             /\ Expansion(x, <<e>>)
<1> DEFINE e == [x EXCEPT !.op = "exec_send"]
<1>1. /\ e \in Frame(Ops, Lines) /\ e.op = "exec_send" /\ e.line = x.line
  BY DEF Frame, Ops
<1>2. e \in Instr /\ e \notin Latching
  BY <1>1 DEF Instr, Inner, Latching
<1> HIDE DEF e
<1>3. Rank(e) = IF x.line = Cmd THEN 7 ELSE 3
  BY <1>1 DEF Rank
<1>4. x.line = Cmd => e \in Unsent /\ Rank(x) = 8
  BY <1>1 DEF Unsent, Rank
<1>5. x.line # Cmd => e \notin Runs /\ e \notin Unsent /\ Rank(x) = 3
  BY <1>1, <1>3 DEF Runs, Ranked, Unsent
<1>6. x \in Runs <=> x.line = Cmd
  BY <1>4, <1>5 DEF Runs, Ranked, Unsent, Rank
<1>7. e \in Launches => x \in Launches
  BY <1>1 DEF Launches
<1>8. Rank(e) \in Yields(Rank(x))
  BY <1>3, <1>4, <1>5 DEF Yields
<1>9. e \in Offspring(x)
  BY <1>2, <1>4, <1>5, <1>6, <1>7, <1>8 DEF Offspring
<1>10. Expansion(x, <<e>>)
  <2>1. x.line = Cmd => e \in Runs
    BY <1>4 DEF Runs
  <2> QED BY <1>2, <1>6, <1>9, <2>1, One, NestedShort, SomeShort DEF Expansion
<1> QED BY <1>2, <1>3, <1>4, <1>9, <1>10 DEF e

(* The user's exec_command changes the mode before that.                   *)
LEMMA EnterFirstExpansion ==
  ASSUME NEW x \in Frame(Ops, Lines), x.op = "exec", x.line = Cmd,
         NEW mode \in Modes
  PROVE  Expansion(x, EnterMode(mode, TRUE) \o <<[x EXCEPT !.op = "exec_send"]>>)
<1> DEFINE e == [x EXCEPT !.op = "exec_send"]
           p == EnterMode(mode, TRUE)
           q == <<e>>
<1>1. /\ e \in Offspring(x) /\ e \notin Latching /\ Rank(e) = 7 /\ e \in Unsent
  BY SendNextExpansion
<1>2. TRUE \in BOOLEAN /\ mode \in Modes \cup {"none", "undef"}
  OBVIOUS
<1>3. /\ p \in Seq(Marked({2, 3, 5})) /\ Nested(p)
      /\ Some(p, Latching) => Some(p, Ranked({2}))
  BY <1>2, EnterModeMarks
<1>4. Rank(x) = 8 /\ x \in Runs
  BY DEF Rank, Runs, Ranked
<1> HIDE DEF e, p
<1>5. {2, 3, 5} \in SUBSET (1 .. 5) /\ {0} \cup {2, 3, 5} \subseteq Yields(Rank(x))
  BY <1>4 DEF Yields
<1>6. p \in Seq(Offspring(x)) /\ q \in Seq(Offspring(x))
  BY <1>1, <1>3, <1>5, MarkedOffspring, One
<1>7. /\ p \in Seq(Ranked(0 .. 5)) /\ p \in Seq(Frame(Ops, Lines))
      /\ q \in Seq(Frame(Ops, Lines))
  <2>1. Offspring(x) \subseteq Frame(Ops, Lines)
    BY InstrIsFrame DEF Offspring
  <2>2. Seq(Marked({2, 3, 5})) \subseteq Seq(Ranked(0 .. 5))
    BY MarkedIsRanked
  <2> QED BY <1>3, <1>6, <2>1, <2>2, SeqMonotonic
<1>8. Nested(p \o q)
  <2>1. e \notin Ranked(1 .. 5)
    BY <1>1 DEF Ranked
  <2>2. ~Some(q, Ranked(1 .. 5))
    BY <2>1, SomeShort
  <2>3. Nested(q) /\ 5 \in 0 .. 8
    BY NestedShort
  <2> QED BY <1>3, <1>7, <2>2, <2>3, NestedConcat
<1>9. \A S : Some(p \o q, S) <=> Some(p, S) \/ Some(q, S)
  BY <1>7, SomeConcat
<1>10. Some(q, Runs) /\ ~Some(q, Latching)
  BY <1>1, SomeShort DEF Runs
<1>11. p \o q \in Seq(Offspring(x))
  BY <1>6, ConcatProperties
<1>12. Some(p \o q, Runs) /\ (Some(p \o q, Latching) => Some(p \o q, Ranked({2})))
  BY <1>3, <1>9, <1>10
<1>13. Expansion(x, p \o q)
  BY <1>8, <1>11, <1>12 DEF Expansion
<1> QED BY <1>13 DEF e, p

(* The command, its handler, and the check of its output.                  *)
LEMMA HandledExpansion ==
  ASSUME NEW x \in Frame(Ops, Lines), x.op = "exec_send", NEW pats \in SUBSET Prompts
  PROVE  Expansion(x, <<Send(x.line, pats),
                        [Send(x.line, pats) EXCEPT !.op = "except_exec"],
                        [x EXCEPT !.op = "check"]>>)
<1> DEFINE a == Send(x.line, pats)
           b == [Send(x.line, pats) EXCEPT !.op = "except_exec"]
           c == [x EXCEPT !.op = "check"]
<1>1. x.line \in Lines
  BY DEF Frame
<1>2. a \in Instr /\ a.op = "send" /\ a.line = x.line
  BY <1>1, PlainInstr DEF Send, Do
<1>3. b \in Instr /\ b.op = "except_exec" /\ b.line = x.line
  BY <1>2 DEF Instr, Inner, Frame, Ops
<1>4. c \in Instr /\ c.op = "check" /\ c.line = x.line
  BY DEF Instr, Inner, Frame, Ops
<1> HIDE DEF a, b, c
<1>5. /\ Rank(a) = (IF x.line = Cmd THEN 6 ELSE 0)
      /\ Rank(b) = (IF x.line = Cmd THEN 7 ELSE 3)
      /\ Rank(c) = 0
      /\ Rank(x) = (IF x.line = Cmd THEN 7 ELSE 3)
  BY <1>2, <1>3, <1>4 DEF Rank
<1>6. \A y \in {a, b, c} : y \notin Latching /\ y \notin Unsent
                           /\ (y \in Launches => x \in Launches)
  BY <1>2, <1>3, <1>4 DEF Latching, Unsent, Launches
<1>7. (x \in Runs <=> x.line = Cmd) /\ (a \in Runs <=> x.line = Cmd)
      /\ b \notin Runs /\ c \notin Runs
  <2>1. a \in Frame(Ops, Lines)
    BY <1>2, InstrIsFrame
  <2> QED BY <1>5, <1>6, <2>1 DEF Runs, Ranked, Unsent
<1>8. \A y \in {a, b, c} : Rank(y) \in Yields(Rank(x))
  BY <1>5 DEF Yields
<1>9. \A y \in {a, b, c} : y \in Offspring(x)
  BY <1>2, <1>3, <1>4, <1>6, <1>7, <1>8 DEF Offspring
<1>10. <<a, b, c>> \in Seq(Offspring(x))
  BY <1>9, Three
<1>11. Nested(<<a, b, c>>)
  BY <1>5, NestedShort
<1>12. DOMAIN <<a, b, c>> = {1, 2, 3} /\ <<a, b, c>>[1] = a /\ <<a, b, c>>[2] = b
       /\ <<a, b, c>>[3] = c
  OBVIOUS
<1>13. (x \in Runs => Some(<<a, b, c>>, Runs)) /\ ~Some(<<a, b, c>>, Latching)
  BY <1>6, <1>7, <1>12 DEF Some
<1>14. Expansion(x, <<a, b, c>>)
  BY <1>10, <1>11, <1>13 DEF Expansion
<1> QED BY <1>14 DEF a, b, c

(* The steps between two exchanges raise an exception or expand the        *)
(* instruction.                                                            *)
LEMMA LocalMoves ==
  ASSUME IInv, NestInv, Local
  PROVE  /\ todo # <<>> /\ exc = "none" /\ frame.op \notin {"open", "wait", "send"}
         /\ UNCHANGED <<wire, got, call>>
         /\ \/ exc' # "none" /\ todo' = Tail(todo) /\ defMode' = defMode
            \/ /\ exc' = "none"
               /\ \E prog : Expansion(frame, prog) /\ todo' = prog \o Tail(todo)
         /\ frame.op \notin {"start_cli", "enter_shell"} => defMode' = defMode
         /\ frame.op = "enter_shell" => defMode' = "none"
<1>1. /\ todo # <<>> /\ exc = "none" /\ frame.op \notin {"open", "wait", "send"}
      /\ UNCHANGED <<wire, got, call>>
  BY DEF Local, Running, StartCli, RunCliFromShell, LeaveFor, Password,
         EnterShell, ShellFrom, UnknownMode, ExecCommand, ExecSend, CheckOutput,
         RaiseCliError, DeleteLine, LeaveTry, Quiet
<1>2. /\ frame \in Frame(Ops, Lines) /\ got.prompt \in Prompts
      /\ todo \in Seq(Frame(Ops, Lines)) /\ prompt \in SUBSET Prompts
      /\ frame.pats \in SUBSET Prompts /\ defMode \in Modes \cup {"none"}
  BY <1>1, TypeFacts DEF BaseTypeOK
<1> DEFINE Goal == /\ \/ exc' # "none" /\ todo' = Tail(todo) /\ defMode' = defMode
                      \/ /\ exc' = "none"
                         /\ \E prog : Expansion(frame, prog) /\ todo' = prog \o Tail(todo)
                   /\ frame.op \notin {"start_cli", "enter_shell"} => defMode' = defMode
                   /\ frame.op = "enter_shell" => defMode' = "none"
<1> SUFFICES Goal
  BY <1>1
<1>3. ASSUME NEW e \in Excs, Raise(e), defMode' = defMode, frame.op # "enter_shell"
      PROVE  Goal
  BY <1>3 DEF Raise, Excs
<1>4. ASSUME NEW prog, Expansion(frame, prog), Become(prog), UNCHANGED exc,
             \/ defMode' = defMode /\ frame.op # "enter_shell"
             \/ frame.op = "start_cli"
             \/ frame.op = "enter_shell" /\ defMode' = "none"
      PROVE  Goal
  BY <1>1, <1>4 DEF Become
<1> HIDE DEF Goal
<1>5. frame.op \notin {"send", "exec", "exec_send"} => frame \notin Runs
  BY LatchingRuns
<1>6. <<>> \in Seq(Marked({}))
  OBVIOUS
<1>7. frame.op \notin {"send", "exec", "exec_send"} => Expansion(frame, <<>>)
  BY <1>5, <1>6, UnmarkedExpansion
<1>8. CASE StartCli
  <2>1. frame.op = "start_cli" /\ Become(<<Probe, Do("run_cli")>>) /\ UNCHANGED exc
    BY <1>8 DEF StartCli, Running
  <2>2. /\ Probe \in Instr /\ Rank(Probe) = 0
        /\ Do("run_cli") \in Instr /\ Rank(Do("run_cli")) = 0
    BY ProbeInner, PlainInstr DEF Ops, Probe, Send, Do, Rank, Cmd
  <2>3. <<Probe, Do("run_cli")>> \in Seq({y \in Instr : Rank(y) = 0})
    BY <2>2, Two
  <2>4. frame \in Launches
    BY <1>2, <2>1 DEF Launches
  <2>5. Expansion(frame, <<Probe, Do("run_cli")>>)
    BY <1>5, <2>1, <2>3, <2>4, LaunchExpansion
  <2> QED BY <2>1, <2>5, <1>4
<1>9. CASE RunCliFromShell
  <2> DEFINE prog == (IF got.prompt = "shell" THEN <<Send(CliPath, {"normal"})>> ELSE <<>>)
                       \o EnterModeNormal \o <<Send(Paging, {"normal"})>>
             S == {y \in Instr : Rank(y) = 0}
  <2>1. frame.op = "run_cli" /\ Become(prog) /\ UNCHANGED <<exc, defMode>>
    BY <1>9 DEF RunCliFromShell, Running
  <2>2. /\ Probe \in S /\ Do("normal_from") \in S
        /\ Send(CliPath, {"normal"}) \in S /\ Send(Paging, {"normal"}) \in S
    <3>1. /\ Probe \in Instr /\ Do("normal_from") \in Instr
          /\ Send(CliPath, {"normal"}) \in Instr /\ Send(Paging, {"normal"}) \in Instr
      BY ProbeInner, PlainInstr DEF Ops, Lines, Prompts
    <3>2. /\ Rank(Probe) = 0 /\ Rank(Do("normal_from")) = 0
          /\ Rank(Send(CliPath, {"normal"})) = 0 /\ Rank(Send(Paging, {"normal"})) = 0
      BY DEF Probe, Send, Do, Rank, Cmd, CliPath, Paging
    <3> QED BY <3>1, <3>2
  <2> HIDE DEF S
  <2>3. /\ EnterModeNormal \in Seq(S) /\ <<Send(Paging, {"normal"})>> \in Seq(S)
        /\ (IF got.prompt = "shell" THEN <<Send(CliPath, {"normal"})>> ELSE <<>>) \in Seq(S)
    BY <2>2, One, Two DEF EnterModeNormal
  <2>4. prog \in Seq(S)
    BY <2>3, ConcatProperties
  <2>5. frame \in Launches
    BY <1>2, <2>1 DEF Launches
  <2>6. Expansion(frame, prog)
    BY <1>5, <2>1, <2>4, <2>5, LaunchExpansion DEF S
  <2> QED BY <2>1, <2>6, <1>4
<1>10. ASSUME NEW op \in {"normal_from", "enable_from", "config_from"}, NEW to,
              LeaveFor(op, to), Expansion(frame, to[got.prompt])
       PROVE  Goal
  <2>1. frame.op = op /\ defMode' = defMode
    BY <1>10 DEF LeaveFor, Running
  <2>2. \/ Raise("CLINotRunning")
        \/ Become(to[got.prompt]) /\ UNCHANGED exc
    BY <1>10 DEF LeaveFor
  <2> QED BY <1>3, <1>4, <1>10, <2>1, <2>2 DEF Excs
<1>11. CASE LeaveFor("normal_from", ToNormal)
  <2>1. frame.op = "normal_from"
    BY <1>11 DEF LeaveFor, Running
  <2> QED BY <1>2, <1>5, <1>10, <1>11, <2>1, TableExpansions
<1>12. CASE LeaveFor("enable_from", ToEnable)
  <2>1. frame.op = "enable_from"
    BY <1>12 DEF LeaveFor, Running
  <2> QED BY <1>2, <1>5, <1>10, <1>12, <2>1, TableExpansions
<1>13. CASE LeaveFor("config_from", ToConfig)
  <2>1. frame.op = "config_from" /\ Rank(frame) = 3
    BY <1>13 DEF LeaveFor, Running, Rank
  <2> QED BY <1>2, <1>5, <1>10, <1>13, <2>1, TableExpansions
<1>14. CASE Password
  <2>1. frame.op = "password" /\ defMode' = defMode
        /\ (Raise("AttributeError") \/ (Become(<<>>) /\ UNCHANGED exc))
    BY <1>14 DEF Password, Running
  <2> QED BY <1>3, <1>4, <1>7, <2>1 DEF Excs
<1>15. CASE EnterShell
  BY <1>4, <1>7, <1>15 DEF EnterShell, Running
<1>16. CASE ShellFrom
  <2>1. frame.op = "shell_from" /\ UNCHANGED <<exc, defMode>>
    BY <1>16 DEF ShellFrom, Running
  <2>2. \/ Become(<<>>) \/ Become(<<ShellCommand>>)
        \/ Become(EnterModeEnable \o <<ShellCommand>>)
    <3>1. Become(CASE got.prompt = "shell"  -> <<>>
                   [] got.prompt = "normal" -> EnterModeEnable \o <<ShellCommand>>
                   [] OTHER                 -> <<ShellCommand>>)
      BY <1>16 DEF ShellFrom
    <3>2. CASE got.prompt = "shell"
      BY <3>1, <3>2
    <3>3. CASE got.prompt = "normal"
      BY <3>1, <3>3
    <3>4. CASE got.prompt \notin {"shell", "normal"}
      BY <3>1, <3>4
    <3> QED BY <3>2, <3>3, <3>4
  <2>3. frame \in Latching /\ frame \notin Runs
    BY <1>2, <1>5, <2>1 DEF Latching
  <2> QED BY <1>4, <2>1, <2>2, <2>3, ShellExpansion
<1>17. CASE UnknownMode
  BY <1>3, <1>17 DEF UnknownMode, Running, Excs
<1>18. CASE ExecCommand
  <2> DEFINE mode == Resolved(frame.mode)
             q == <<[frame EXCEPT !.op = "exec_send"]>>
  <2>1. frame.op = "exec" /\ UNCHANGED <<exc, defMode>>
        /\ Become((IF mode = "none" THEN <<>> ELSE EnterMode(mode, TRUE)) \o q)
    BY <1>18 DEF ExecCommand, Running
  <2>2. mode \in Modes \cup {"none"}
    BY <1>2 DEF Resolved, Frame
  <2>3. CASE Rank(frame) = 3
    <3>1. mode = "none"
      <4>1. frame.mode \in {"none", "undef"} /\ frame.line # Cmd
        BY <2>1, <2>3 DEF Rank
      <4>2. frame.mode = "undef" => frame \in Latching
        BY <1>2, <2>1, <4>1 DEF Latching
      <4>3. Some(todo, Ranked({2})) => Some(Tail(todo), Ranked({2}))
        BY <1>1, <1>2, <2>3, SomeHeadTail DEF Ranked, frame
      <4>4. ~Some(Tail(todo), Ranked(1 .. 3))
        <5>1. Nested(todo) /\ Rank(Head(todo)) = 3
          BY <2>3 DEF NestInv, frame
        <5>2. Rank(Head(todo)) > 0
          BY <5>1
        <5>3. ~Some(Tail(todo), Ranked(1 .. Rank(Head(todo))))
          BY <1>1, <1>2, <5>1, <5>2, NestedTail
        <5> QED BY <5>1, <5>3
      <4>5. ~Some(Tail(todo), Ranked({2}))
        BY <4>4 DEF Some, Ranked
      <4>6. frame \in Latching => Some(todo, Latching)
        BY <1>1, <1>2, SomeHeadTail DEF frame
      <4> QED BY <1>1, <4>1, <4>2, <4>3, <4>5, <4>6 DEF NestInv, Resolved
    <3>2. q \in Seq(Frame(Ops, Lines))
      BY <1>2 DEF Frame, Ops
    <3>3. Become(q)
      BY <2>1, <3>1, <3>2, ConcatEmptySeq
    <3>4. Expansion(frame, q)
      BY <1>2, <2>1, <2>3, SendNextExpansion
    <3> QED BY <1>4, <2>1, <3>3, <3>4
  <2>4. CASE Rank(frame) # 3
    <3>1. frame.line = Cmd
      <4>1. Rank(frame) = 8
        BY <2>1, <2>4 DEF Rank
      <4> QED BY <1>1, <4>1 DEF NestInv
    <3>2. CASE mode = "none"
      <4>1. q \in Seq(Frame(Ops, Lines))
        BY <1>2 DEF Frame, Ops
      <4>2. Become(q)
        BY <2>1, <3>2, <4>1, ConcatEmptySeq
      <4>3. Expansion(frame, q)
        BY <1>2, <2>1, <3>1, SendNextExpansion
      <4> QED BY <1>4, <2>1, <4>2, <4>3
    <3>3. CASE mode # "none"
      <4>1. Become(EnterMode(mode, TRUE) \o q) /\ mode \in Modes
        BY <2>1, <2>2, <3>3
      <4>2. Expansion(frame, EnterMode(mode, TRUE) \o q)
        BY <1>2, <2>1, <3>1, <4>1, EnterFirstExpansion
      <4> QED BY <1>4, <2>1, <4>1, <4>2
    <3> QED BY <3>2, <3>3
  <2> QED BY <2>3, <2>4
<1>19. CASE ExecSend
  <2> DEFINE pats == IF frame.pats = {} THEN prompt ELSE frame.pats
             prog == <<Send(frame.line, pats),
                       [Send(frame.line, pats) EXCEPT !.op = "except_exec"],
                       [frame EXCEPT !.op = "check"]>>
  <2>1. frame.op = "exec_send" /\ UNCHANGED <<exc, defMode>> /\ Become(prog)
    BY <1>19 DEF ExecSend, Running
  <2>2. pats \in SUBSET Prompts
    BY <1>2
  <2>3. Expansion(frame, prog)
    <3> HIDE DEF pats
    <3> QED BY <1>2, <2>1, <2>2, HandledExpansion
  <2> QED BY <1>4, <2>1, <2>3
<1>20. CASE CheckOutput
  <2>1. frame.op = "check" /\ defMode' = defMode
        /\ \/ Raise("UnexpectedOutput")
           \/ (Become(<<>>) /\ UNCHANGED exc)
           \/ (Become(<<Probe, Do("cli_error")>>) /\ UNCHANGED exc)
    BY <1>20 DEF CheckOutput, Running
  <2>2. <<Probe, Do("cli_error")>> \in Seq(Marked({}))
    BY InstrMarks, Two
  <2>3. Expansion(frame, <<Probe, Do("cli_error")>>)
    BY <1>5, <2>1, <2>2, UnmarkedExpansion
  <2> QED BY <1>3, <1>4, <1>7, <2>1, <2>3 DEF Excs
<1>21. CASE RaiseCliError
  BY <1>3, <1>21 DEF RaiseCliError, Running, Excs
<1>22. CASE DeleteLine
  BY <1>3, <1>22 DEF DeleteLine, Running, Excs
<1>23. CASE LeaveTry
  BY <1>4, <1>7, <1>23 DEF LeaveTry, Running
<1> QED BY <1>8, <1>9, <1>11, <1>12, <1>13, <1>14, <1>15, <1>16, <1>17, <1>18, <1>19,
           <1>20, <1>21, <1>22, <1>23 DEF Local

-----------------------------------------------------------------------------
(* The stack before and after a step.                                      *)

(* What nests below the instruction being executed.                        *)
LEMMA BelowHead ==
  ASSUME IInv, NestInv, todo # <<>>
  PROVE  /\ \A S : Some(todo, S) <=> frame \in S \/ Some(Tail(todo), S)
         /\ Nested(Tail(todo)) /\ Tail(todo) \in Seq(Frame(Ops, Lines))
         /\ \A r \in 1 .. 8 : r <= Rank(frame) => ~Some(Tail(todo), Ranked({r}))
         /\ ~Some(Tail(todo), Ranked({8}))
<1>1. todo \in Seq(Frame(Ops, Lines)) /\ Tail(todo) \in Seq(Instr)
  BY TypeFacts DEF BaseTypeOK
<1>2. Nested(Tail(todo)) /\ (Rank(frame) > 0 => ~Some(Tail(todo), Ranked(1 .. Rank(frame))))
  BY <1>1, NestedTail DEF NestInv, frame
<1>3. ASSUME NEW r \in 1 .. 8, r <= Rank(frame)
      PROVE  ~Some(Tail(todo), Ranked({r}))
  <2>1. Rank(frame) \in 0 .. 8
    BY RankTyped
  <2>2. Rank(frame) > 0 /\ r \in 1 .. Rank(frame)
    BY <1>3, <2>1
  <2>3. Ranked({r}) \subseteq Ranked(1 .. Rank(frame))
    BY <2>2 DEF Ranked
  <2> QED BY <1>2, <2>2, <2>3 DEF Some
<1>4. \A S : Some(todo, S) <=> frame \in S \/ Some(Tail(todo), S)
  BY <1>1, SomeHeadTail DEF frame
<1> QED BY <1>1, <1>2, <1>3, <1>4, InstrIsFrame DEF NestInv

(* A stack whose marks of restarts to come are none but another's allows   *)
(* no more of them.                                                        *)
LEMMA LoadTyped ==
  ASSUME NEW s
  PROVE  /\ Load(s) \in Nat
         /\ \A t : (\A r \in {3, 5, 7, 8} : Some(t, Ranked({r})) => Some(s, Ranked({r})))
                     => Load(t) <= Load(s)
<1>1. \A t, r : Has(t, r) \in {0, 1}
  BY DEF Has
<1>2. Load(s) \in Nat
  BY <1>1 DEF Load
<1>3. ASSUME NEW t, \A r \in {3, 5, 7, 8} : Some(t, Ranked({r})) => Some(s, Ranked({r}))
      PROVE  Load(t) <= Load(s)
  <2>1. \A r \in {3, 5, 7, 8} : Has(t, r) <= Has(s, r)
    BY <1>3 DEF Has
  <2> QED BY <1>1, <2>1 DEF Load
<1> QED BY <1>2, <1>3

(* Taking the instruction away.                                            *)
LEMMA PopNests ==
  ASSUME IInv, NestInv, todo # <<>>, todo' = Tail(todo), exc' # "none",
         defMode' = defMode, call' = call
  PROVE  NestInv'
<1>1. /\ \A S : Some(todo', S) => Some(todo, S)
      /\ Nested(todo') /\ todo' \in Seq(Frame(Ops, Lines))
      /\ ~Some(todo', Ranked({8}))
  BY BelowHead
<1>2. todo' # <<>> => /\ \A S : Some(todo', S) <=> frame' \in S \/ Some(Tail(todo'), S)
                      /\ frame' \in Frame(Ops, Lines)
  BY <1>1, SomeHeadTail, HeadTailProperties DEF frame
<1>3. todo' # <<>> => ~Some(Tail(todo'), Ranked({8})) /\ Rank(frame') # 8
  BY <1>1, <1>2 DEF Ranked
<1>4. Load(todo') <= Load(todo)
  BY <1>1, LoadTyped
<1>5. call.restarts + Load(todo') <= 4
  <2>1. Load(todo) \in Nat /\ Load(todo') \in Nat /\ call.restarts \in Nat
    BY LoadTyped, TypeFacts DEF CallRecord
  <2> QED BY <1>4, <2>1 DEF NestInv
<1> QED BY <1>1, <1>3, <1>5 DEF NestInv

(* Replacing it by what it expands to.                                     *)
LEMMA ExpandNests ==
  ASSUME IInv, NestInv, todo # <<>>, exc = "none", NEW prog, Expansion(frame, prog),
         todo' = prog \o Tail(todo), call' = call, OwnTyped',
         frame.op \notin {"start_cli", "enter_shell"} => defMode' = defMode,
         frame.op = "enter_shell" => defMode' = "none"
  PROVE  NestInv'
<1> DEFINE t == Tail(todo)
           m == Rank(frame)
<1>1. /\ \A S : Some(todo, S) <=> frame \in S \/ Some(t, S)
      /\ Nested(t) /\ t \in Seq(Frame(Ops, Lines))
      /\ \A r \in 1 .. 8 : r <= m => ~Some(t, Ranked({r}))
      /\ ~Some(t, Ranked({8}))
  BY BelowHead
<1>2. m \in 0 .. 8 /\ frame \in Frame(Ops, Lines)
  BY RankTyped, TypeFacts
<1>3. /\ prog \in Seq(Offspring(frame)) /\ prog \in Seq(Frame(Ops, Lines)) /\ Nested(prog)
  <2>1. Offspring(frame) \subseteq Frame(Ops, Lines)
    BY InstrIsFrame DEF Offspring
  <2> QED BY <2>1, SeqMonotonic DEF Expansion
<1>4. \A j \in DOMAIN prog : Rank(prog[j]) \in Yields(m)
  BY <1>3 DEF Offspring
<1>5. \A S : Some(todo', S) <=> Some(prog, S) \/ Some(t, S)
  BY <1>1, <1>3, SomeConcat
<1> HIDE DEF t, m
<1>6. \A r : Some(prog, Ranked({r})) => r \in Yields(m)
  BY <1>4 DEF Some, Ranked
<1>7. Nested(todo')
  <2>1. ~Some(t, Ranked(1 .. m))
    <3> SUFFICES ASSUME NEW j \in DOMAIN t, t[j] \in Ranked(1 .. m) PROVE FALSE
      BY DEF Some
    <3>1. Rank(t[j]) \in 1 .. 8 /\ Rank(t[j]) <= m /\ t[j] \in Ranked({Rank(t[j])})
      BY <1>2, RankTyped DEF Ranked
    <3> QED BY <1>1, <3>1 DEF Some
  <2>2. prog \in Seq(Ranked(0 .. m))
    <3>1. \A r \in Yields(m) : r \in 0 .. m
      BY <1>2 DEF Yields
    <3>2. Offspring(frame) \subseteq Ranked(0 .. m)
      BY <3>1, InstrIsFrame DEF Offspring, Ranked, m
    <3> QED BY <1>3, <3>2, SeqMonotonic
  <2> QED BY <1>1, <1>2, <1>3, <2>1, <2>2, NestedConcat DEF t
<1>8. ~Some(todo', Ranked({8}))
  <2>1. 8 \notin Yields(m)
    BY <1>2 DEF Yields
  <2> QED BY <1>1, <1>5, <1>6, <2>1
<1>9. todo' # <<>> => ~Some(Tail(todo'), Ranked({8})) /\ Rank(frame') # 8
  <2>1. todo' \in Seq(Frame(Ops, Lines))
    BY <1>1, <1>3, ConcatProperties DEF t
  <2>2. todo' # <<>> => /\ \A S : Some(todo', S) <=> frame' \in S \/ Some(Tail(todo'), S)
                        /\ frame' \in Frame(Ops, Lines)
    BY <2>1, SomeHeadTail, HeadTailProperties DEF frame
  <2> QED BY <1>8, <2>2 DEF Ranked
<1>10. call'.restarts + Load(todo') <= 4
  <2>1. Load(todo) \in Nat /\ Load(todo') \in Nat /\ call.restarts \in Nat
    BY LoadTyped, TypeFacts DEF CallRecord
  <2>2. CASE m = 8
    <3>1. \A r \in {3, 5, 7, 8} : ~Some(t, Ranked({r}))
      <4>1. \A r \in {3, 5, 7, 8} : r \in 1 .. 8 /\ r <= m
        BY <2>2
      <4> QED BY <1>1, <4>1
    <3>2. Some(todo, Ranked({8}))
      BY <1>1, <1>2, <2>2 DEF Ranked, m
    <3>3. Load(todo') <= 4 /\ Load(todo) >= 4
      <4>1. \A r \in Nat : Has(todo', r) \in {0, 1} /\ Has(todo, r) \in {0, 1}
        BY DEF Has
      <4>2. Has(todo', 8) = 0 /\ Has(todo, 8) = 1
        BY <1>8, <3>2 DEF Has
      <4> QED BY <4>1, <4>2 DEF Load
    <3> QED BY <2>1, <3>3 DEF NestInv
  <2>3. CASE m # 8
    <3>1. \A r \in {3, 5, 7, 8} : Some(todo', Ranked({r})) => Some(todo, Ranked({r}))
      <4> SUFFICES ASSUME NEW r \in {3, 5, 7, 8}, Some(prog, Ranked({r}))
                   PROVE  frame \in Ranked({r})
        BY <1>1, <1>5
      <4>1. r \in Yields(m)
        BY <1>6
      <4>2. r = m
        BY <1>2, <2>3, <4>1 DEF Yields
      <4> QED BY <1>2, <4>2 DEF Ranked, m
    <3>2. Load(todo') <= Load(todo)
      BY <3>1, LoadTyped
    <3> QED BY <2>1, <3>2 DEF NestInv
  <2> QED BY <2>2, <2>3
<1>11. ASSUME Some(todo', Latching), ~Some(todo', Ranked({2}))
       PROVE  defMode' = "none" /\ ~Some(todo', Ranked({1}))
  <2>1. Some(todo, Latching)
    BY <1>1, <1>5, <1>11 DEF Expansion
  <2>2. frame \in Ranked({m}) /\ \A x \in Latching : Rank(x) = 3
    BY <1>2, LatchingRuns DEF Ranked, m
  <2>3. CASE Some(todo, Ranked({2}))
    <3>1. m = 2
      BY <1>1, <1>5, <1>11, <2>3 DEF Ranked, m
    <3>2. frame.op = "enter_shell"
      BY <3>1 DEF Rank, m
    <3>3. ~Some(t, Ranked({1})) /\ ~Some(prog, Ranked({1}))
      <4>1. 1 \notin Yields(m) /\ 1 \in 1 .. 8 /\ 1 <= m
        BY <3>1 DEF Yields
      <4> QED BY <1>1, <1>6, <4>1
    <3> QED BY <1>5, <3>2, <3>3
  <2>4. CASE ~Some(todo, Ranked({2}))
    <3>1. defMode = "none" /\ ~Some(todo, Ranked({1}))
      BY <2>1, <2>4 DEF NestInv
    <3>2. m \notin {1, 2}
      BY <1>1, <2>2, <2>4, <3>1
    <3>3. frame.op \notin {"start_cli", "enter_shell"}
      BY <3>2 DEF Rank, m
    <3>4. ~Some(prog, Ranked({1}))
      <4>1. 1 \notin Yields(m)
        BY <1>2, <3>2 DEF Yields
      <4> QED BY <1>6, <4>1
    <3> QED BY <1>1, <1>5, <3>1, <3>3, <3>4
  <2> QED BY <2>3, <2>4
<1> QED BY <1>7, <1>9, <1>10, <1>11 DEF NestInv

(* A stack is its head on top of its tail.                                 *)
LEMMA HeadThenTail ==
  ASSUME NEW S, NEW s \in Seq(S), s # <<>>
  PROVE  s = <<Head(s)>> \o Tail(s)
<1> DEFINE h == <<Head(s)>>
           t == Tail(s)
           r == h \o t
<1>1. /\ Len(s) \in Nat /\ Len(s) >= 1 /\ Head(s) = s[1]
      /\ h \in Seq(S) /\ Len(h) = 1 /\ h[1] = s[1]
  BY EmptySeq
<1>2. /\ t \in Seq(S) /\ Len(t) = Len(s) - 1
      /\ \A j \in 1 .. Len(t) : t[j] = s[j + 1]
  BY HeadTailProperties
<1> HIDE DEF h, t
<1>3. /\ r \in Seq(S) /\ Len(r) = Len(h) + Len(t)
      /\ \A i \in 1 .. Len(h) + Len(t) : r[i] = IF i <= Len(h) THEN h[i] ELSE t[i - Len(h)]
  <2>1. h \in Seq(S) /\ t \in Seq(S)
    BY <1>1, <1>2
  <2> QED BY ONLY <2>1, ConcatProperties
<1> HIDE DEF r
<1>4. Len(s) = Len(r)
  BY <1>1, <1>2, <1>3
<1>5. ASSUME NEW i \in 1 .. Len(s)
      PROVE  s[i] = r[i]
  <2>1. CASE i = 1
    BY <1>1, <1>2, <1>3, <2>1
  <2>2. CASE i # 1
    <3>1. i - 1 \in 1 .. Len(t) /\ (i - 1) + 1 = i
      BY <1>1, <1>2, <2>2
    <3>2. r[i] = t[i - 1]
      BY <1>1, <1>2, <1>3, <2>2
    <3> QED BY <1>2, <3>1, <3>2
  <2> QED BY <2>1, <2>2
<1>6. s = r
  BY <1>3, <1>4, <1>5, SeqEqual
<1> QED BY <1>6 DEF r, h, t

(* Exchanges neither leave a mark nor read default_mode.                   *)
LEMMA ExchangeNests ==
  ASSUME IInv, NestInv, todo # <<>>, frame.op \in {"open", "send", "wait"},
         exc = "none", exc' = "none", defMode' = defMode, call' = call,
         \/ todo' = Tail(todo)
         \/ /\ todo' \in Seq(Frame(Ops, Lines)) /\ todo' # <<>>
            /\ Tail(todo') = Tail(todo) /\ frame'.op = "wait"
  PROVE  NestInv'
<1> DEFINE t == Tail(todo)
<1>1. /\ \A S : Some(todo, S) <=> frame \in S \/ Some(t, S)
      /\ Nested(t) /\ t \in Seq(Frame(Ops, Lines)) /\ ~Some(t, Ranked({8}))
  BY BelowHead
<1>2. /\ frame \notin Latching
      /\ \A r \in {1, 2} : frame \notin Ranked({r})
  BY DEF Latching, Ranked, Rank
<1>3. /\ \A r \in {1, 2} : Some(todo', Ranked({r})) <=> Some(t, Ranked({r}))
      /\ Some(todo', Latching) <=> Some(t, Latching)
      /\ \A r \in {3, 5, 7, 8} : Some(todo', Ranked({r})) => Some(t, Ranked({r}))
      /\ Nested(todo')
      /\ todo' # <<>> => ~Some(Tail(todo'), Ranked({8})) /\ Rank(frame') # 8
  <2>1. CASE todo' = t
    <3>1. t # <<>> => /\ \A S : Some(t, S) <=> Head(t) \in S \/ Some(Tail(t), S)
                      /\ Head(t) \in Frame(Ops, Lines)
      BY <1>1, SomeHeadTail, HeadTailProperties
    <3>2. t # <<>> => ~Some(Tail(t), Ranked({8})) /\ Rank(Head(t)) # 8
      BY <1>1, <3>1 DEF Ranked
    <3> QED BY <1>1, <2>1, <3>2 DEF frame
  <2>2. CASE /\ todo' \in Seq(Frame(Ops, Lines)) /\ todo' # <<>>
             /\ Tail(todo') = t /\ frame'.op = "wait"
    <3>1. Rank(frame') = 0 /\ frame' \notin Latching
      BY <2>2 DEF Rank, Latching
    <3>2. \A S : Some(todo', S) <=> frame' \in S \/ Some(t, S)
      BY <2>2, SomeHeadTail DEF frame
    <3>3. \A r \in 1 .. 8 : frame' \notin Ranked({r})
      BY <3>1 DEF Ranked
    <3>4. Nested(todo')
      <4>1. /\ <<frame'>> \in Seq(Ranked(0 .. 0)) /\ Nested(<<frame'>>)
            /\ 0 \in 0 .. 8
        <5>1. frame' \in Ranked(0 .. 0)
          BY <2>2, <3>1, HeadTailProperties DEF frame, Ranked
        <5> QED BY <5>1, One, NestedShort
      <4>2. ~Some(t, Ranked(1 .. 0))
        BY DEF Some, Ranked
      <4>3. todo' = <<frame'>> \o t
        BY <2>2, HeadThenTail DEF frame
      <4> QED BY <1>1, <4>1, <4>2, <4>3, NestedConcat
    <3>5. \A r \in {1, 2, 3, 5, 7, 8} : Some(todo', Ranked({r})) <=> Some(t, Ranked({r}))
      <4>1. \A r \in {1, 2, 3, 5, 7, 8} : r \in 1 .. 8
        OBVIOUS
      <4> QED BY <3>2, <3>3, <4>1
    <3>6. Some(todo', Latching) <=> Some(t, Latching)
      BY <3>1, <3>2
    <3>7. ~Some(Tail(todo'), Ranked({8})) /\ Rank(frame') # 8
      <4>1. Tail(todo') = t /\ ~Some(t, Ranked({8}))
        BY <1>1, <2>2
      <4>2. Rank(frame') # 8
        BY <3>1
      <4> QED BY <4>1, <4>2
    <3>8. \A r \in {1, 2} : Some(todo', Ranked({r})) <=> Some(t, Ranked({r}))
      BY <3>5
    <3>9. \A r \in {3, 5, 7, 8} : Some(todo', Ranked({r})) => Some(t, Ranked({r}))
      BY <3>5
    <3> QED BY <3>4, <3>6, <3>7, <3>8, <3>9
  <2> QED BY <2>1, <2>2
<1> HIDE DEF t
<1>4. Load(todo') <= Load(todo)
  BY <1>1, <1>3, LoadTyped
<1>5. call'.restarts + Load(todo') <= 4
  <2>1. Load(todo) \in Nat /\ Load(todo') \in Nat /\ call.restarts \in Nat
    BY LoadTyped, TypeFacts DEF CallRecord
  <2> QED BY <1>4, <2>1 DEF NestInv
<1>6. ASSUME Some(todo', Latching), ~Some(todo', Ranked({2}))
      PROVE  defMode' = "none" /\ ~Some(todo', Ranked({1}))
  BY <1>1, <1>2, <1>3, <1>6 DEF NestInv
<1> QED BY <1>3, <1>5, <1>6 DEF NestInv

(* Opening a session and launching the CLI.                                *)
LEMMA StartMarks ==
  ASSUME NEW runCli \in BOOLEAN
  PROVE  /\ Start(runCli) \in Seq(Ranked(0 .. 1)) /\ Start(runCli) \in Seq(Frame(Ops, Lines))
         /\ Nested(Start(runCli)) /\ ~Some(Start(runCli), Latching)
<1> DEFINE a == Open(StartPrompt)
           b == Do("start_cli")
<1>1. a \in Frame(Ops, Lines) /\ Rank(a) = 0 /\ a \notin Latching
  BY WaitOpenFrame, RvbdVocabulary DEF StartPrompt, Prompts, Open, Do, Rank, Latching
<1>2. b \in Frame(Ops, Lines) /\ Rank(b) = 1 /\ b \notin Latching
  BY PlainInstr, InstrIsFrame DEF Do, Rank, Latching, Ops
<1> HIDE DEF a, b
<1>3. a \in Ranked(0 .. 1) /\ b \in Ranked(0 .. 1)
  BY <1>1, <1>2 DEF Ranked
<1> DEFINE p == <<a>>
           q == <<b>>
<1>4. /\ p \in Seq(Ranked(0 .. 1)) /\ q \in Seq(Ranked(0 .. 1)) /\ p \in Seq(Ranked(0 .. 0))
      /\ p \in Seq(Frame(Ops, Lines)) /\ q \in Seq(Frame(Ops, Lines))
  <2>1. a \in Ranked(0 .. 0)
    BY <1>1 DEF Ranked
  <2> QED BY <1>1, <1>2, <1>3, <2>1, One
<1>5. Nested(p) /\ Nested(q) /\ ~Some(p, Latching) /\ ~Some(q, Latching)
  BY <1>1, <1>2, NestedShort, SomeShort
<1> HIDE DEF p, q
<1>6. p \o q \in Seq(Ranked(0 .. 1)) /\ p \o q \in Seq(Frame(Ops, Lines))
  BY <1>4, ConcatProperties
<1>7. Nested(p \o q)
  <2>1. ~Some(q, Ranked(1 .. 0)) /\ 0 \in 0 .. 8
    BY DEF Some, Ranked
  <2> QED BY <1>4, <1>5, <2>1, NestedConcat
<1>8. ~Some(p \o q, Latching)
  BY <1>4, <1>5, SomeConcat
<1>9. Start(runCli) = p \/ Start(runCli) = p \o q
  <2>1. p \o <<>> = p
    BY <1>4, ConcatEmptySeq
  <2> QED BY <2>1 DEF Start, a, b, p, q
<1> QED BY <1>4, <1>5, <1>6, <1>7, <1>8, <1>9

(* The marks of what a handler of rank m runs on the new session.          *)
Relaunches(m) == CASE m = 5 -> {0, 2, 3, 4}
                   [] m = 7 -> {0, 6}
                   [] OTHER -> {0}

(* The load of a stack that lost the mark of a handler, and got at most a  *)
(* smaller one for it.                                                     *)
LEMMA LoadDrops ==
  ASSUME NEW s, NEW t, NEW m \in {3, 5, 7}, Some(s, Ranked({m})),
         Some(t, Ranked({3})) => m = 5,
         Some(t, Ranked({5})) => Some(s, Ranked({5})) /\ m = 3,
         Some(t, Ranked({7})) => Some(s, Ranked({7})) /\ m \in {3, 5},
         ~Some(t, Ranked({8}))
  PROVE  Load(t) + 1 <= Load(s)
<1>1. \A q, r : Has(q, r) = 0 \/ (Has(q, r) = 1 /\ Some(q, Ranked({r})))
  BY DEF Has
<1>2. \A q, r : Some(q, Ranked({r})) => Has(q, r) = 1
  BY DEF Has
<1>3. Has(t, 8) = 0
  BY <1>1
<1>4. /\ Has(t, 3) \in {0, 1} /\ Has(t, 5) \in {0, 1} /\ Has(t, 7) \in {0, 1}
      /\ Has(s, 3) \in {0, 1} /\ Has(s, 5) \in {0, 1} /\ Has(s, 7) \in {0, 1}
      /\ Has(s, 8) \in {0, 1}
  BY <1>1
<1>5. Has(t, 5) <= Has(s, 5) /\ Has(t, 7) <= Has(s, 7)
  <2>1. CASE Has(t, 5) = 1
    <3>1. Has(s, 5) = 1
      BY <1>1, <1>2, <2>1
    <3>2. CASE Has(t, 7) = 1
      BY <1>1, <1>2, <1>4, <2>1, <3>1, <3>2
    <3>3. CASE Has(t, 7) = 0
      BY <1>4, <2>1, <3>1, <3>3
    <3> QED BY <1>4, <3>2, <3>3
  <2>2. CASE Has(t, 5) = 0
    <3>1. CASE Has(t, 7) = 1
      BY <1>1, <1>2, <1>4, <2>2, <3>1
    <3>2. CASE Has(t, 7) = 0
      BY <1>4, <2>2, <3>2
    <3> QED BY <1>4, <3>1, <3>2
  <2> QED BY <1>4, <2>1, <2>2
<1>6. CASE m = 3
  <2>1. Has(t, 3) = 0 /\ Has(s, 3) = 1
    BY <1>1, <1>2, <1>6
  <2> QED BY <1>3, <1>4, <1>5, <2>1 DEF Load
<1>7. CASE m = 5
  <2>1. Has(t, 5) = 0 /\ Has(s, 5) = 1
    BY <1>1, <1>2, <1>7
  <2> QED BY <1>3, <1>4, <1>5, <2>1 DEF Load
<1>8. CASE m = 7
  <2>1. Has(t, 3) = 0 /\ Has(t, 5) = 0 /\ Has(t, 7) = 0 /\ Has(s, 7) = 1
    BY <1>1, <1>2, <1>8
  <2> QED BY <1>3, <1>4, <2>1 DEF Load
<1> QED BY <1>6, <1>7, <1>8

(* A handler that restarts the session gives up its own mark.              *)
LEMMA RestartNests ==
  ASSUME IInv, NestInv, todo # <<>>, Rank(frame) \in {3, 5, 7},
         NEW rest \in Seq(Ranked(Relaunches(Rank(frame)))), Nested(rest),
         Some(rest, Latching) => Some(rest, Ranked({2})),
         todo' = (Start(TRUE) \o rest) \o Tail(todo),
         call'.restarts = call.restarts + 1
  PROVE  NestInv'
<1> DEFINE t == Tail(todo)
           m == Rank(frame)
           b == Start(TRUE)
<1>1. /\ \A S : Some(todo, S) <=> frame \in S \/ Some(t, S)
      /\ Nested(t) /\ t \in Seq(Frame(Ops, Lines))
      /\ \A r \in 1 .. 8 : r <= m => ~Some(t, Ranked({r}))
      /\ ~Some(t, Ranked({8}))
  BY BelowHead
<1>2. /\ b \in Seq(Ranked(0 .. 1)) /\ b \in Seq(Frame(Ops, Lines))
      /\ Nested(b) /\ ~Some(b, Latching)
  <2>1. TRUE \in BOOLEAN
    OBVIOUS
  <2> QED BY <2>1, StartMarks
<1>3. /\ frame \in Ranked({m}) /\ m \in {3, 5, 7}
      /\ rest \in Seq(Ranked(Relaunches(m)))
  BY TypeFacts DEF Ranked
<1> HIDE DEF t, m, b
<1>4. rest \in Seq(Ranked({0} \cup (2 .. m))) /\ rest \in Seq(Frame(Ops, Lines))
  <2>1. Ranked(Relaunches(m)) \subseteq Ranked({0} \cup (2 .. m))
    BY <1>3 DEF Ranked, Relaunches
  <2>2. Ranked(Relaunches(m)) \subseteq Frame(Ops, Lines)
    BY DEF Ranked
  <2> QED BY <1>3, <2>1, <2>2, SeqMonotonic
<1>5. b \o rest \in Seq(Frame(Ops, Lines)) /\ todo' = (b \o rest) \o t
  BY <1>2, <1>4, ConcatProperties DEF b, t
<1>6. \A S : Some(todo', S) <=> Some(b, S) \/ Some(rest, S) \/ Some(t, S)
  <2>1. \A S : Some(b \o rest, S) <=> Some(b, S) \/ Some(rest, S)
    BY <1>2, <1>4, SomeConcat
  <2>2. \A S : Some((b \o rest) \o t, S) <=> Some(b \o rest, S) \/ Some(t, S)
    BY <1>1, <1>5, SomeConcat
  <2> QED BY <1>5, <2>1, <2>2
<1>7. /\ ~Some(b, Ranked({3})) /\ ~Some(b, Ranked({5})) /\ ~Some(b, Ranked({7}))
      /\ ~Some(b, Ranked({8}))
      /\ ~Some(rest, Ranked({5})) /\ ~Some(rest, Ranked({7})) /\ ~Some(rest, Ranked({8}))
      /\ Some(rest, Ranked({3})) => m = 5
  <2>1. \A j \in DOMAIN b : Rank(b[j]) \in 0 .. 1
    BY <1>2 DEF Ranked
  <2>2. \A j \in DOMAIN rest : Rank(rest[j]) \in Relaunches(m)
    BY <1>3 DEF Ranked
  <2>3. /\ 5 \notin Relaunches(m) /\ 7 \notin Relaunches(m) /\ 8 \notin Relaunches(m)
        /\ 3 \in Relaunches(m) => m = 5
    BY <1>3 DEF Relaunches
  <2>4. /\ ~Some(b, Ranked({3})) /\ ~Some(b, Ranked({5})) /\ ~Some(b, Ranked({7}))
        /\ ~Some(b, Ranked({8}))
    BY <2>1 DEF Some, Ranked
  <2>5. \A r : Some(rest, Ranked({r})) => r \in Relaunches(m)
    BY <2>2 DEF Some, Ranked
  <2> QED BY <2>3, <2>4, <2>5
<1>8. Nested(todo')
  <2>1. ~Some(rest, Ranked(1 .. 1))
    <3>1. \A j \in DOMAIN rest : Rank(rest[j]) \in {0} \cup (2 .. m)
      BY <1>4 DEF Ranked
    <3>2. \A j \in DOMAIN rest : Rank(rest[j]) \notin 1 .. 1
      BY <1>3, <3>1
    <3> QED BY <3>2 DEF Some, Ranked
  <2>2. Nested(b \o rest)
    <3>1. 1 \in 0 .. 8
      OBVIOUS
    <3> QED BY <1>2, <1>4, <2>1, <3>1, NestedConcat
  <2>3. b \o rest \in Seq(Ranked(0 .. m))
    <3>1. /\ Ranked(0 .. 1) \subseteq Ranked(0 .. m)
          /\ Ranked({0} \cup (2 .. m)) \subseteq Ranked(0 .. m)
      BY <1>3 DEF Ranked
    <3>2. rest \in Seq(Ranked(0 .. m)) /\ b \in Seq(Ranked(0 .. m))
      BY <1>2, <1>4, <3>1, SeqMonotonic
    <3> QED BY <3>2, ConcatProperties
  <2>4. ~Some(t, Ranked(1 .. m))
    <3> SUFFICES ASSUME NEW j \in DOMAIN t, t[j] \in Ranked(1 .. m) PROVE FALSE
      BY DEF Some
    <3>1. Rank(t[j]) \in 1 .. 8 /\ Rank(t[j]) <= m /\ t[j] \in Ranked({Rank(t[j])})
      BY <1>3, RankTyped DEF Ranked
    <3> QED BY <1>1, <3>1 DEF Some
  <2>5. m \in 0 .. 8
    BY <1>3
  <2> QED BY <1>1, <1>5, <2>2, <2>3, <2>4, <2>5, NestedConcat
<1>9. ~Some(todo', Ranked({8}))
  BY <1>1, <1>6, <1>7
<1>10. todo' # <<>> => ~Some(Tail(todo'), Ranked({8})) /\ Rank(frame') # 8
  <2>1. todo' \in Seq(Frame(Ops, Lines))
    BY <1>1, <1>5, ConcatProperties
  <2>2. todo' # <<>> => /\ \A S : Some(todo', S) <=> frame' \in S \/ Some(Tail(todo'), S)
                        /\ frame' \in Frame(Ops, Lines)
    BY <2>1, SomeHeadTail, HeadTailProperties DEF frame
  <2> QED BY <1>9, <2>2 DEF Ranked
<1>11. call'.restarts + Load(todo') <= 4
  <2>1. /\ Load(todo) \in Nat /\ Load(todo') \in Nat /\ call.restarts \in Nat
        /\ call.restarts + Load(todo) <= 4
    BY LoadTyped, TypeFacts DEF CallRecord, NestInv
  <2>2. /\ ~Some(t, Ranked({3})) /\ (m >= 5 => ~Some(t, Ranked({5})))
        /\ (m >= 7 => ~Some(t, Ranked({7})))
    BY <1>1, <1>3
  <2>3. /\ Some(todo', Ranked({3})) <=> Some(rest, Ranked({3}))
        /\ Some(todo', Ranked({5})) <=> Some(t, Ranked({5}))
        /\ Some(todo', Ranked({7})) <=> Some(t, Ranked({7}))
    BY <1>6, <1>7, <2>2
  <2>4. /\ Some(t, Ranked({5})) => Some(todo, Ranked({5})) /\ m = 3
        /\ Some(t, Ranked({7})) => Some(todo, Ranked({7})) /\ m \in {3, 5}
        /\ Some(todo, Ranked({m}))
    BY <1>1, <1>3, <2>2
  <2>5. Load(todo') + 1 <= Load(todo)
    BY <1>3, <1>7, <1>9, <2>3, <2>4, LoadDrops
  <2>6. \A x, y, z \in Nat : z + y <= 4 /\ x + 1 <= y => (z + 1) + x <= 4
    OBVIOUS
  <2>7. (call.restarts + 1) + Load(todo') <= 4
    BY ONLY <2>1, <2>5, <2>6
  <2>8. call'.restarts = call.restarts + 1
    OBVIOUS
  <2> QED BY <2>7, <2>8
<1>12. Some(todo', Latching) => Some(todo', Ranked({2}))
  <2>1. ~Some(t, Latching)
    <3>1. ~Some(t, Ranked({3}))
      BY <1>1, <1>3
    <3> QED BY <3>1, LatchingRuns DEF Some, Ranked, Latching
  <2> QED BY <1>2, <1>6, <2>1
<1> QED BY <1>8, <1>10, <1>11, <1>12 DEF NestInv

(* A user's call begins with all its restarts to come.                     *)
LEMMA CallNests ==
  ASSUME NEW p \in Seq(Frame(Ops, Lines)), Nested(p), ~Some(p, Ranked({8})),
         Some(p, Latching) => Some(p, Ranked({2})),
         todo' = p, call'.restarts = 0
  PROVE  NestInv'
<1>1. todo' # <<>> => ~Some(Tail(todo'), Ranked({8})) /\ Rank(frame') # 8
  <2>1. todo' # <<>> => /\ \A S : Some(todo', S) <=> frame' \in S \/ Some(Tail(todo'), S)
                        /\ frame' \in Frame(Ops, Lines)
    BY SomeHeadTail, HeadTailProperties DEF frame
  <2> QED BY <2>1 DEF Ranked
<1>2. Load(todo') <= 4
  <2>1. Has(p, 3) \in {0, 1} /\ Has(p, 5) \in {0, 1} /\ Has(p, 7) \in {0, 1} /\ Has(p, 8) = 0
    BY DEF Has
  <2>2. Load(p) <= 4
    BY <2>1 DEF Load
  <2> QED BY <2>2
<1>3. Load(todo') \in Nat
  BY LoadTyped
<1>4. call'.restarts + Load(todo') <= 4
  BY <1>2, <1>3
<1>5. Nested(todo')
  OBVIOUS
<1>6. Some(todo', Latching) => Some(todo', Ranked({2}))
  OBVIOUS
<1> QED BY <1>1, <1>4, <1>5, <1>6 DEF NestInv

(* So do all the calls of RVBD_CLI.                                        *)
LEMMA UserNests ==
  ASSUME IInv, User
  PROVE  NestInv'
<1>1. ASSUME NEW op, NEW mode, NEW program, Call(op, mode, program)
      PROVE  todo' = program /\ exc' = "none" /\ call'.restarts = 0 /\ call'.mode = mode
  BY <1>1 DEF Call, NewCall
<1>2. \A R : Seq(Marked(R)) \subseteq Seq(Frame(Ops, Lines))
  <2>1. \A R : Marked(R) \subseteq Frame(Ops, Lines)
    BY InstrIsFrame DEF Marked
  <2> QED BY <2>1, SeqMonotonic
<1>3. ASSUME NEW R, NEW program \in Seq(Marked(R)), 8 \notin R
      PROVE  ~Some(program, Ranked({8}))
  <2>1. \A x \in Marked(R) : Rank(x) # 8
    BY <1>3 DEF Marked
  <2> QED BY <2>1 DEF Some, Ranked
<1>4. ASSUME NEW program \in Seq(Marked({})), todo' = program, call'.restarts = 0
      PROVE  NestInv'
  <2>1. program \in Seq(Ranked({0}))
    BY MarkedIsRanked
  <2>2. Nested(program)
    BY <2>1, NestedUnmarked
  <2>3. ~Some(program, Latching)
    <3>1. \A j \in DOMAIN program : Rank(program[j]) = 0
      BY <2>1 DEF Ranked
    <3> QED BY <3>1, LatchingRuns DEF Some
  <2> QED BY <1>2, <1>3, <1>4, <2>2, <2>3, CallNests
<1>5. CASE CallStart
  <2>1. PICK runCli \in BOOLEAN : Call("start", "none", Start(runCli))
    BY <1>5 DEF CallStart
  <2>2. ~Some(Start(runCli), Ranked({8}))
    <3> DEFINE p == Start(runCli)
    <3>1. p \in Seq(Ranked(0 .. 1))
      BY StartMarks
    <3> HIDE DEF p
    <3>2. \A j \in DOMAIN p : Rank(p[j]) \in 0 .. 1
      BY <3>1 DEF Ranked
    <3>3. ~Some(p, Ranked({8}))
      BY <3>2 DEF Some, Ranked
    <3> QED BY <3>3 DEF p
  <2> QED BY <1>1, <2>1, <2>2, StartMarks, CallNests
<1>6. CASE CallEnterMode
  <2>1. PICK mode \in UserModes : Call("enter_mode", mode, EnterMode(mode, TRUE))
    BY <1>6 DEF CallEnterMode
  <2> DEFINE p == EnterMode(mode, TRUE)
  <2>2. mode \in Modes \cup {"none", "undef"} /\ TRUE \in BOOLEAN
    BY UserModesAssumption
  <2>3. /\ p \in Seq(Marked({2, 3, 5})) /\ Nested(p)
        /\ Some(p, Latching) => Some(p, Ranked({2}))
    BY <2>2, EnterModeMarks
  <2>4. todo' = p /\ call'.restarts = 0
    BY <1>1, <2>1
  <2> HIDE DEF p
  <2>5. ~Some(p, Ranked({8})) /\ p \in Seq(Frame(Ops, Lines))
    BY <1>2, <1>3, <2>3
  <2> QED BY <2>3, <2>4, <2>5, CallNests
<1>7. CASE CallEnterModeX
  <2>1. PICK mode \in UserModes \ {"subif"} :
          Call("enter_mode_x", mode, EnterModeBody(mode))
    BY <1>7 DEF CallEnterModeX
  <2> DEFINE p == EnterModeBody(mode)
  <2>2. mode \in Modes \cup {"none", "undef"} /\ TRUE \in BOOLEAN
    BY UserModesAssumption
  <2>3. /\ p \in Seq(Marked({2, 3})) /\ Nested(p)
        /\ Some(p, Latching) => Some(p, Ranked({2}))
    BY <2>2, EnterModeMarks
  <2>4. todo' = p /\ call'.restarts = 0
    BY <1>1, <2>1
  <2> HIDE DEF p
  <2>5. ~Some(p, Ranked({8})) /\ p \in Seq(Frame(Ops, Lines))
    BY <1>2, <1>3, <2>3
  <2> QED BY <2>3, <2>4, <2>5, CallNests
<1>8. CASE CallExecCommand
  <2>1. PICK mode \in UserModes \cup {"none", "undef"}, errorOk \in BOOLEAN :
          Call("exec_command", Resolved(mode),
               <<Exec(Cmd, mode, "any", errorOk, {})>>) /\ defMode' = defMode
    BY <1>8 DEF CallExecCommand
  <2> DEFINE x == Exec(Cmd, mode, "any", errorOk, {})
  <2>2. x \in Frame(Ops, Lines) /\ x.op = "exec" /\ x.line = Cmd /\ x.mode = mode
    <3>1. x \in Instr
      BY ExecInner, UserModesAssumption DEF Lines
    <3> QED BY <3>1, InstrIsFrame DEF Exec
  <2>3. todo' = <<x>> /\ call'.restarts = 0 /\ call'.mode = Resolved(mode)
    BY <1>1, <2>1
  <2> HIDE DEF x
  <2>4. x \notin Latching /\ Rank(x) = 8
    BY <2>2 DEF Latching, Rank
  <2>5. Nested(todo') /\ ~Some(todo', Latching)
    BY <2>3, <2>4, NestedShort, SomeShort
  <2>6. Tail(todo') = <<>> /\ frame' = x
    BY <2>3 DEF frame
  <2>7. ~Some(Tail(todo'), Ranked({8}))
    <3>1. ~Some(<<>>, Ranked({8}))
      BY SomeShort
    <3> QED BY <2>6, <3>1
  <2>8. Resolved(x.mode)' = call'.mode
    BY <2>1, <2>2, <2>3 DEF Resolved
  <2>9. call'.restarts + Load(todo') <= 4
    <3>1. \A S : Some(<<x>>, S) <=> x \in S
      BY SomeShort
    <3>2. Has(<<x>>, 3) = 0 /\ Has(<<x>>, 5) = 0 /\ Has(<<x>>, 7) = 0 /\ Has(<<x>>, 8) = 1
      BY <2>2, <2>4, <3>1 DEF Has, Ranked
    <3>3. Load(<<x>>) = 4
      BY <3>2 DEF Load
    <3> QED BY <2>3, <3>3
  <2> QED BY <2>2, <2>5, <2>6, <2>7, <2>8, <2>9 DEF NestInv
<1>9. CASE CallGetSubCommands
  <2>1. Call("get_sub_commands", "none", <<Send(Help, AnyPrompt), Do("delete_line")>>)
    BY <1>9 DEF CallGetSubCommands
  <2>2. <<Send(Help, AnyPrompt), Do("delete_line")>> \in Seq(Marked({}))
    <3>1. Send(Help, AnyPrompt) \in Marked({}) /\ Do("delete_line") \in Marked({})
      BY InstrMarks DEF Lines, AnyPrompt, Prompts, Help, CliPath, Cmd
    <3> QED BY <3>1, Two
  <2> QED BY <1>1, <1>4, <2>1, <2>2
<1>10. CASE SetDefaultMode
  <2>1. Call("default_mode", "none", <<>>)
    BY <1>10 DEF SetDefaultMode
  <2>2. <<>> \in Seq(Marked({}))
    OBVIOUS
  <2> QED BY <1>1, <1>4, <2>1, <2>2
<1>11. CASE Exit
  <2>1. todo' = <<>> /\ call'.restarts = 0
    BY <1>11 DEF Exit, Idle, NewCall
  <2>2. <<>> \in Seq(Marked({}))
    OBVIOUS
  <2> QED BY <1>4, <2>1, <2>2
<1> QED BY <1>5, <1>6, <1>7, <1>8, <1>9, <1>10, <1>11 DEF User

(* Handlers that restart the session, and unwinding.                       *)
LEMMA ExceptionsNest ==
  ASSUME IInv, NestInv, Exceptions
  PROVE  NestInv'
<1>1. todo # <<>> /\ exc # "none"
  BY DEF Exceptions, EnterModeRestarts, ExecRestarts, Unwind, Raising
<1>2. frame \in Frame(Ops, Lines) /\ frame.pats \in SUBSET Prompts /\ frame.line \in Lines
  BY <1>1, TypeFacts
<1>3. CASE EnterModeRestarts
  <2> DEFINE rest == EnterMode(frame.mode, FALSE)
  <2>1. /\ frame.op = "except_enter" /\ frame.flag
        /\ todo' = (Start(TRUE) \o rest) \o Tail(todo)
        /\ call' = [call EXCEPT !.restarts = @ + 1]
    BY <1>3 DEF EnterModeRestarts, EnterModeCatches, Restart, Become
  <2>2. Rank(frame) = 5
    BY <2>1 DEF Rank
  <2>3. frame.mode \in Modes \cup {"none", "undef"} /\ FALSE \in BOOLEAN
    BY <1>2 DEF Frame
  <2>4. /\ rest \in Seq(Marked({2, 3, 4})) /\ Nested(rest)
        /\ Some(rest, Latching) => Some(rest, Ranked({2}))
    BY <2>3, EnterModeMarks
  <2>5. call'.restarts = call.restarts + 1
    BY <2>1, TypeFacts DEF CallRecord
  <2> HIDE DEF rest
  <2>6. rest \in Seq(Ranked(Relaunches(Rank(frame))))
    <3>1. Seq(Marked({2, 3, 4})) \subseteq Seq(Ranked({0, 2, 3, 4}))
      BY MarkedIsRanked
    <3> QED BY <2>2, <2>4, <3>1 DEF Relaunches
  <2> QED BY <1>1, <2>1, <2>2, <2>4, <2>5, <2>6, RestartNests
<1>4. CASE ExecRestarts
  <2> DEFINE s == Send(frame.line, frame.pats)
             rest == <<s>>
  <2>1. /\ frame.op = "except_exec"
        /\ todo' = (Start(TRUE) \o rest) \o Tail(todo)
        /\ call' = [call EXCEPT !.restarts = @ + 1, !.resent = @ \/ frame.line = Cmd]
    BY <1>4 DEF ExecRestarts, ExecCatches, Restart, Become
  <2>2. Rank(frame) = IF frame.line = Cmd THEN 7 ELSE 3
    BY <2>1 DEF Rank
  <2>3. s \in Frame(Ops, Lines) /\ s.op = "send" /\ s.line = frame.line
    BY <1>2, PlainInstr, InstrIsFrame DEF Send, Do
  <2>4. s \notin Latching /\ Rank(s) \in Relaunches(Rank(frame))
    BY <2>2, <2>3 DEF Latching, Rank, Relaunches
  <2>5. call'.restarts = call.restarts + 1
    BY <2>1, TypeFacts DEF CallRecord
  <2>6. rest \in Seq(Ranked(Relaunches(Rank(frame)))) /\ Nested(rest) /\ ~Some(rest, Latching)
    <3>1. s \in Ranked(Relaunches(Rank(frame)))
      BY <2>3, <2>4 DEF Ranked
    <3> HIDE DEF s
    <3> QED BY <2>4, <3>1, One, NestedShort, SomeShort
  <2>7. Rank(frame) \in {3, 5, 7}
    BY <2>2
  <2> HIDE DEF rest
  <2> QED BY <1>1, <2>1, <2>5, <2>6, <2>7, RestartNests
<1>5. CASE Unwind
  BY <1>1, <1>5, PopNests DEF Unwind, Quiet
<1> QED BY <1>3, <1>4, <1>5 DEF Exceptions

(* Every step keeps the handlers nested.                                   *)
LEMMA StepNests ==
  ASSUME IInv, NestInv, [Next]_vars
  PROVE  NestInv'
<1>1. IInv'
  BY StepKeepsIInv
<1>2. ASSUME Exchange
      PROVE  NestInv'
  <2>1. defMode' = defMode /\ call' = call
    BY <1>2 DEF Exchange, Own
  <2>2. SessionInv(Ops, Lines) /\ ConversationInStep
    BY TypeFacts
  <2>3. SessionInv(Ops, Lines)' => todo' \in Seq(Frame(Ops, Lines))
    BY DEF SessionInv, BaseTypeOK
  <2>4. CASE OpenFails
    BY <2>1, <2>2, <2>4, OpenFailsKeeps, PopNests
  <2>5. CASE OpenSucceeds(StartPrompt)
    <3>1. /\ SessionInv(Ops, Lines)' /\ exc' = "none" /\ todo # <<>> /\ todo' # <<>>
          /\ Tail(todo') = Tail(todo) /\ frame.op = "open" /\ frame' = Wait(frame.pats)
      BY <2>2, <2>5, OpenSucceedsKeeps, RvbdVocabulary DEF StartPrompt, Prompts
    <3>2. exc = "none" /\ frame'.op = "wait"
      BY <2>5, <3>1 DEF OpenSucceeds, Running, Wait, Do
    <3> QED BY <2>1, <2>3, <3>1, <3>2, ExchangeNests
  <2>6. CASE SendFails
    BY <2>1, <2>2, <2>6, SendFailsKeeps, PopNests
  <2>7. CASE SendSucceeds
    <3>1. /\ SessionInv(Ops, Lines)' /\ exc' = exc /\ exc = "none"
          /\ todo # <<>> /\ todo' # <<>>
          /\ Tail(todo') = Tail(todo) /\ frame.op = "send" /\ frame' = Wait(frame.pats)
      BY <2>2, <2>7, SendSucceedsKeeps, RvbdVocabulary
    <3>2. frame'.op = "wait"
      BY <3>1 DEF Wait, Do
    <3> QED BY <2>1, <2>3, <3>1, <3>2, ExchangeNests
  <2>8. CASE ExpectMatch
    <3>1. /\ todo # <<>> /\ frame.op = "wait" /\ exc = "none" /\ exc' = exc
          /\ todo' = Tail(todo)
      BY <2>2, <2>8, ExpectMatchKeeps DEF ExpectMatch, Running
    <3> QED BY <2>1, <3>1, ExchangeNests
  <2>9. CASE ExpectMore
    <3>1. /\ SessionInv(Ops, Lines)' /\ exc' = exc /\ exc = "none"
          /\ todo # <<>> /\ todo' # <<>> /\ Waiting /\ Waiting'
          /\ Tail(todo') = Tail(todo)
      BY <2>2, <2>9, ExpectMoreKeeps
    <3>2. frame.op = "wait"
      BY <3>1 DEF Waiting, Running
    <3>3. frame'.op = "wait"
      BY <3>1 DEF Waiting, Running
    <3> QED BY <2>1, <2>3, <3>1, <3>2, <3>3, ExchangeNests
  <2>10. CASE ExpectClosed
    BY <2>1, <2>2, <2>10, ExpectClosedKeeps, PopNests
  <2>11. CASE ExpectTimeout
    BY <2>1, <2>2, <2>11, ExpectTimeoutKeeps, PopNests
  <2> QED BY <1>2, <2>4, <2>5, <2>6, <2>7, <2>8, <2>9, <2>10, <2>11 DEF Exchange, Expect
<1>3. ASSUME Local
      PROVE  NestInv'
  <2>1. OwnTyped'
    BY <1>1 DEF IInv
  <2>2. UNCHANGED call /\ todo # <<>> /\ exc = "none"
    BY <1>3, LocalMoves
  <2>3. CASE exc' # "none" /\ todo' = Tail(todo) /\ defMode' = defMode
    BY <2>2, <2>3, PopNests
  <2>4. CASE \E prog : Expansion(frame, prog) /\ todo' = prog \o Tail(todo)
    <3>1. PICK prog : Expansion(frame, prog) /\ todo' = prog \o Tail(todo)
      BY <2>4
    <3>2. /\ frame.op \notin {"start_cli", "enter_shell"} => defMode' = defMode
          /\ frame.op = "enter_shell" => defMode' = "none"
      BY <1>3, LocalMoves
    <3> QED BY <2>1, <2>2, <3>1, <3>2, ExpandNests
  <2> QED BY <1>3, <2>3, <2>4, LocalMoves
<1>4. ASSUME UNCHANGED <<todo, exc, defMode>>, call'.restarts = call.restarts,
             call'.mode = call.mode
      PROVE  NestInv'
  BY <1>4 DEF NestInv, frame, Resolved
<1>5. ASSUME Environment
      PROVE  NestInv'
  <2>1. UNCHANGED <<todo, exc, defMode>>
    BY <1>5 DEF Environment, Answer, DeviceAnswers, AnswerHelp, Crash, Drop, Own
  <2>2. call'.restarts = call.restarts /\ call'.mode = call.mode
    <3>1. call' = call \/ call' = [call EXCEPT !.runs = call.runs + 1]
      BY <1>5 DEF Environment, Answer, AnswerHelp, Crash, Drop, Own
    <3>2. call \in CallRecord
      BY TypeFacts
    <3> QED BY <3>1, <3>2 DEF CallRecord
  <2> QED BY <1>4, <2>1, <2>2
<1>6. ASSUME UNCHANGED vars
      PROVE  NestInv'
  BY <1>4, <1>6 DEF vars, baseVars
<1> QED BY <1>2, <1>3, <1>5, <1>6, UserNests, ExceptionsNest DEF Next, Client

(* A CLI object just made has no handlers.                                 *)
LEMMA InitNests == Init => NestInv
<1> SUFFICES ASSUME Init PROVE NestInv
  OBVIOUS
<1>1. todo = <<>> /\ call.restarts = 0
  BY DEF Init, BaseInit, NewCall
<1>2. \A S : ~Some(todo, S)
  BY <1>1, SomeShort
<1>3. Load(todo) = 0
  BY <1>2 DEF Load, Has
<1> QED BY <1>1, <1>2, <1>3, NestedShort DEF NestInv

(* In every reachable state the handlers nest.                             *)
LEMMA Nesting == Spec => [](IInv /\ NestInv)
<1>1. IInv /\ NestInv /\ [Next]_vars => (IInv /\ NestInv)'
  BY StepKeepsIInv, StepNests
<1> QED BY <1>1, InitIInv, InitNests, PTL DEF Spec

(* One call restarts the session at most four times, for every backlog and *)
(* every set of modes users ask for: a handler that has restarted it is    *)
(* off the stack, and what it runs next has fewer handlers than it had.    *)
THEOREM RestartsStayBounded == Spec => []RestartsBounded
<1>1. IInv /\ NestInv => RestartsBounded
  <2> SUFFICES ASSUME IInv, NestInv PROVE RestartsBounded
    OBVIOUS
  <2>1. Load(todo) \in Nat /\ call.restarts \in Nat
    BY LoadTyped, TypeFacts DEF CallRecord
  <2> QED BY <2>1 DEF NestInv, RestartsBounded
<1> QED BY <1>1, Nesting, PTL

-----------------------------------------------------------------------------
(* The CLI is not launched behind the user's back: a call that neither is  *)
(* start() nor restarted the session has no instruction that launches it,  *)
(* and the appliance no line of the call's that does.                      *)
NoneDue(q)    == \A i \in DOMAIN q : ~q[i].due
NoLaunchDue(q) == \A i \in DOMAIN q : q[i].due => q[i].line # CliPath

Fresh == call.op # "start" /\ call.restarts = 0

FreshInv == /\ ~Waiting => NoneDue(inq)
            /\ Fresh => ~Some(todo, Launches) /\ NoLaunchDue(inq)

(* The stack gets shorter.                                                 *)
LEMMA PopFresh ==
  ASSUME IInv, FreshInv, todo # <<>>, todo' = Tail(todo), call' = call,
         NoneDue(inq')
  PROVE  FreshInv'
<1>1. Some(todo, Launches) <=> frame \in Launches \/ Some(Tail(todo), Launches)
  BY TypeFacts, SomeHeadTail DEF BaseTypeOK, frame
<1> QED BY <1>1 DEF FreshInv, Fresh, NoneDue, NoLaunchDue

(* The instruction being executed becomes one that launches nothing.       *)
LEMMA SwapFresh ==
  ASSUME IInv, FreshInv, todo # <<>>, todo' # <<>>, Tail(todo') = Tail(todo),
         todo' \in Seq(Frame(Ops, Lines)), frame' \notin Launches,
         call' = call, Waiting', Fresh => NoLaunchDue(inq')
  PROVE  FreshInv'
<1>1. Some(todo, Launches) <=> frame \in Launches \/ Some(Tail(todo), Launches)
  BY TypeFacts, SomeHeadTail DEF BaseTypeOK, frame
<1>2. Some(todo', Launches) <=> frame' \in Launches \/ Some(Tail(todo'), Launches)
  BY SomeHeadTail DEF frame
<1> QED BY <1>1, <1>2 DEF FreshInv, Fresh

(* An exchange sends a line only if it is on the stack.                    *)
LEMMA ExchangeFresh ==
  ASSUME IInv, FreshInv, Exchange
  PROVE  FreshInv'
<1>1. SessionInv(Ops, Lines) /\ BaseTypeOK(Ops, Lines) /\ call' = call
  BY TypeFacts DEF Exchange, Own
<1>2. NoneDue(<<>>)
  BY DEF NoneDue
<1>3. SessionInv(Ops, Lines)' => todo' \in Seq(Frame(Ops, Lines))
  BY DEF SessionInv, BaseTypeOK
<1>4. ASSUME NEW x, x.op = "wait", x.line = ""
      PROVE  x \notin Launches
  BY <1>4 DEF Launches, CliPath
<1>5. \A pats : Wait(pats).op = "wait" /\ Wait(pats).line = ""
  BY DEF Wait, Do
<1>6. CASE OpenFails
  <2>1. todo # <<>> /\ todo' = Tail(todo) /\ inq' = <<>>
    BY <1>1, <1>6, OpenFailsKeeps DEF OpenFails
  <2> QED BY <1>1, <1>2, <2>1, PopFresh
<1>7. CASE OpenSucceeds(StartPrompt)
  <2>1. /\ SessionInv(Ops, Lines)' /\ Waiting' /\ inq' = <<>>
        /\ todo # <<>> /\ todo' # <<>> /\ Tail(todo') = Tail(todo)
        /\ frame' = Wait(frame.pats)
    BY <1>1, <1>7, OpenSucceedsKeeps, RvbdVocabulary DEF StartPrompt, Prompts
  <2>2. NoLaunchDue(inq')
    BY <1>2, <2>1 DEF NoneDue, NoLaunchDue
  <2> QED BY <1>1, <1>3, <1>4, <1>5, <2>1, <2>2, SwapFresh
<1>8. CASE SendFails
  <2>1. todo # <<>> /\ todo' = Tail(todo) /\ inq' = inq /\ ~Waiting
    BY <1>1, <1>8, SendFailsKeeps DEF wire
  <2> QED BY <1>1, <2>1, PopFresh DEF FreshInv
<1>9. CASE SendSucceeds
  <2> DEFINE l == [line |-> frame.line, due |-> TRUE]
  <2>1. /\ SessionInv(Ops, Lines)' /\ Waiting' /\ inq' = Append(inq, l)
        /\ todo # <<>> /\ todo' # <<>> /\ Tail(todo') = Tail(todo)
        /\ frame' = Wait(frame.pats) /\ frame \in Frame(Ops, Lines)
    BY <1>1, <1>9, SendSucceedsKeeps, RvbdVocabulary, TypeFacts
  <2>2. ASSUME Fresh
        PROVE  NoLaunchDue(inq')
    <3>1. frame \notin Launches /\ NoLaunchDue(inq)
      <4>1. Some(todo, Launches) <=> frame \in Launches \/ Some(Tail(todo), Launches)
        BY <1>1, <2>1, SomeHeadTail DEF BaseTypeOK, frame
      <4> QED BY <2>2, <4>1 DEF FreshInv
    <3>2. l.line # CliPath
      BY <2>1, <3>1 DEF Launches
    <3>3. /\ Len(inq) \in Nat /\ DOMAIN inq' = 1 .. (Len(inq) + 1)
          /\ inq'[Len(inq) + 1] = l /\ \A i \in 1 .. Len(inq) : inq'[i] = inq[i]
      <4> HIDE DEF l
      <4>1. inq \in Seq(Line(Lines)) /\ inq' = Append(inq, l)
        BY <1>1, <2>1 DEF BaseTypeOK
      <4> QED BY <4>1
    <3>4. ASSUME NEW i \in DOMAIN inq'
          PROVE  inq'[i].due => inq'[i].line # CliPath
      <4>1. CASE i \in 1 .. Len(inq)
        <5>1. i \in DOMAIN inq /\ inq'[i] = inq[i]
          BY <1>1, <3>3, <4>1 DEF BaseTypeOK
        <5> QED BY <3>1, <5>1 DEF NoLaunchDue
      <4>2. CASE i = Len(inq) + 1
        BY <3>2, <3>3, <4>2
      <4> QED BY <3>3, <3>4, <4>1, <4>2
    <3> QED BY <3>4 DEF NoLaunchDue
  <2> QED BY <1>1, <1>3, <1>4, <1>5, <2>1, <2>2, SwapFresh
<1>10. CASE ExpectMatch
  <2>1. todo # <<>> /\ todo' = Tail(todo) /\ NoneDue(inq')
    BY <1>1, <1>10, ExpectMatchKeeps DEF NoneDue
  <2> QED BY <1>1, <2>1, PopFresh
<1>11. CASE ExpectMore
  <2>1. /\ SessionInv(Ops, Lines)' /\ Waiting /\ Waiting' /\ inq' = inq
        /\ todo # <<>> /\ todo' # <<>> /\ Tail(todo') = Tail(todo)
        /\ frame' = [frame EXCEPT !.out = frame'.out] /\ frame \in Frame(Ops, Lines)
    BY <1>1, <1>11, ExpectMoreKeeps, TypeFacts
  <2>2. frame' \in Launches => frame \in Launches
    BY <2>1 DEF Launches, Frame
  <2>3. Some(todo, Launches) <=> frame \in Launches \/ Some(Tail(todo), Launches)
    BY <1>1, <2>1, SomeHeadTail DEF BaseTypeOK, frame
  <2>4. Some(todo', Launches) <=> frame' \in Launches \/ Some(Tail(todo'), Launches)
    BY <1>3, <2>1, SomeHeadTail DEF frame
  <2> QED BY <1>1, <2>1, <2>2, <2>3, <2>4 DEF FreshInv, Fresh
<1>12. CASE ExpectClosed
  <2>1. todo # <<>> /\ todo' = Tail(todo) /\ inq' = <<>>
    BY <1>1, <1>12, ExpectClosedKeeps DEF wire
  <2> QED BY <1>1, <1>2, <2>1, PopFresh
<1>13. CASE ExpectTimeout
  <2>1. todo # <<>> /\ todo' = Tail(todo) /\ NoneDue(inq')
    BY <1>1, <1>13, ExpectTimeoutKeeps DEF NoneDue
  <2> QED BY <1>1, <2>1, PopFresh
<1> QED BY <1>6, <1>7, <1>8, <1>9, <1>10, <1>11, <1>12, <1>13 DEF Exchange, Expect

(* The programs users call launch nothing, but for start().                *)
LEMMA UserFresh ==
  ASSUME IInv, FreshInv, User
  PROVE  FreshInv'
<1>1. NoneDue(inq')
  <2>1. CASE inq' = inq /\ Idle
    BY <2>1 DEF FreshInv, Waiting, Running, Idle
  <2>2. CASE inq' = <<>>
    BY <2>2 DEF NoneDue
  <2> QED BY <2>1, <2>2 DEF User, CallStart, CallEnterMode, CallEnterModeX,
             CallExecCommand, CallGetSubCommands, SetDefaultMode, Exit, Call,
             CleanupHelper, wire
<1>2. NoLaunchDue(inq')
  BY <1>1 DEF NoneDue, NoLaunchDue
<1>3. ASSUME NEW R, NEW p \in Seq(Marked(R)), todo' = p
      PROVE  ~Some(todo', Launches)
  BY <1>3 DEF Some, Marked
<1>4. ASSUME NEW op, NEW mode, NEW program, Call(op, mode, program)
      PROVE  todo' = program /\ call'.op = op
  BY <1>4 DEF Call, NewCall
<1>5. CASE CallStart
  <2>1. call'.op = "start"
    BY <1>4, <1>5 DEF CallStart
  <2> QED BY <1>1, <2>1 DEF FreshInv, Fresh
<1>6. CASE ~Some(todo', Launches)
  BY <1>1, <1>2, <1>6 DEF FreshInv, Fresh
<1>7. CASE CallEnterMode
  <2>1. PICK mode \in UserModes : Call("enter_mode", mode, EnterMode(mode, TRUE))
    BY <1>7 DEF CallEnterMode
  <2>2. mode \in Modes \cup {"none", "undef"} /\ TRUE \in BOOLEAN
    BY UserModesAssumption
  <2>3. EnterMode(mode, TRUE) \in Seq(Marked({2, 3, 5}))
    BY <2>2, EnterModeMarks
  <2> QED BY <1>3, <1>4, <1>6, <2>1, <2>3
<1>8. CASE CallEnterModeX
  <2>1. PICK mode \in UserModes \ {"subif"} :
          Call("enter_mode_x", mode, EnterModeBody(mode))
    BY <1>8 DEF CallEnterModeX
  <2>2. mode \in Modes \cup {"none", "undef"} /\ TRUE \in BOOLEAN
    BY UserModesAssumption
  <2>3. EnterModeBody(mode) \in Seq(Marked({2, 3}))
    BY <2>2, EnterModeMarks
  <2> QED BY <1>3, <1>4, <1>6, <2>1, <2>3
<1>9. CASE CallExecCommand
  <2>1. PICK mode \in UserModes \cup {"none", "undef"}, errorOk \in BOOLEAN :
          Call("exec_command", Resolved(mode),
               <<Exec(Cmd, mode, "any", errorOk, {})>>)
    BY <1>9 DEF CallExecCommand
  <2> DEFINE x == Exec(Cmd, mode, "any", errorOk, {})
  <2>2. x \notin Launches
    BY DEF Launches, Exec, Cmd, CliPath
  <2>3. todo' = <<x>>
    BY <1>4, <2>1
  <2> HIDE DEF x
  <2>4. ~Some(<<x>>, Launches)
    BY <2>2, SomeShort
  <2> QED BY <1>6, <2>3, <2>4
<1>10. CASE CallGetSubCommands
  <2>1. Call("get_sub_commands", "none", <<Send(Help, AnyPrompt), Do("delete_line")>>)
    BY <1>10 DEF CallGetSubCommands
  <2>2. <<Send(Help, AnyPrompt), Do("delete_line")>> \in Seq(Marked({}))
    <3>1. Send(Help, AnyPrompt) \in Marked({}) /\ Do("delete_line") \in Marked({})
      BY InstrMarks DEF Lines, AnyPrompt, Prompts, Help, CliPath, Cmd
    <3> QED BY <3>1, Two
  <2> QED BY <1>3, <1>4, <1>6, <2>1, <2>2
<1>11. ASSUME todo' = <<>>
       PROVE  FreshInv'
  <2>1. ~Some(todo', Launches)
    BY <1>11 DEF Some
  <2> QED BY <1>6, <2>1
<1>12. CASE SetDefaultMode
  <2>1. Call("default_mode", "none", <<>>)
    BY <1>12 DEF SetDefaultMode
  <2> QED BY <1>4, <1>11, <2>1
<1>13. CASE Exit
  BY <1>11, <1>13 DEF Exit, Idle
<1> QED BY <1>5, <1>7, <1>8, <1>9, <1>10, <1>12, <1>13 DEF User

(* Every step.                                                             *)
LEMMA StepFresh ==
  ASSUME IInv, NestInv, FreshInv, [Next]_vars
  PROVE  FreshInv'
<1>1. todo \in Seq(Frame(Ops, Lines)) /\ inq \in Seq(Line(Lines)) /\ call \in CallRecord
  BY TypeFacts DEF BaseTypeOK
<1>2. CASE Local
  <2>1. /\ todo # <<>> /\ ~Waiting /\ inq' = inq /\ call' = call
        /\ NoneDue(inq')
    <3>1. /\ todo # <<>> /\ frame.op \notin {"open", "wait", "send"}
          /\ inq' = inq /\ call' = call
      BY <1>2, LocalMoves DEF wire
    <3> QED BY <3>1 DEF FreshInv, Waiting, Running
  <2>2. CASE todo' = Tail(todo)
    BY <2>1, <2>2, PopFresh
  <2>3. ASSUME NEW prog, Expansion(frame, prog), todo' = prog \o Tail(todo)
        PROVE  FreshInv'
    <3>1. prog \in Seq(Frame(Ops, Lines)) /\ Tail(todo) \in Seq(Frame(Ops, Lines))
      <4>1. Offspring(frame) \subseteq Frame(Ops, Lines)
        BY InstrIsFrame DEF Offspring
      <4>2. prog \in Seq(Offspring(frame))
        BY <2>3 DEF Expansion
      <4> QED BY <1>1, <2>1, <4>1, <4>2, SeqMonotonic
    <3>2. Some(todo', Launches) <=> Some(prog, Launches) \/ Some(Tail(todo), Launches)
      BY <2>3, <3>1, SomeConcat
    <3>3. Some(todo, Launches) <=> frame \in Launches \/ Some(Tail(todo), Launches)
      BY <1>1, <2>1, SomeHeadTail DEF frame
    <3>4. Some(prog, Launches) => frame \in Launches
      BY <2>3 DEF Expansion, Offspring, Some
    <3> QED BY <2>1, <3>2, <3>3, <3>4 DEF FreshInv, Fresh, NoneDue, NoLaunchDue
  <2> QED BY <1>2, <2>2, <2>3, LocalMoves
<1>3. CASE Exceptions
  <2>1. CASE EnterModeRestarts \/ ExecRestarts
    <3>1. inq' = <<>> /\ call'.restarts = call.restarts + 1 /\ call.restarts \in Nat
      BY <1>1, <2>1 DEF EnterModeRestarts, ExecRestarts, Restart, CleanupHelper, CallRecord
    <3>2. ~Fresh'
      BY <3>1 DEF Fresh
    <3> QED BY <3>1, <3>2 DEF FreshInv, NoneDue
  <2>2. CASE Unwind
    <3>1. /\ todo # <<>> /\ todo' = Tail(todo) /\ call' = call /\ inq' = inq
          /\ ~Waiting
      BY <2>2 DEF Unwind, Raising, Quiet, wire, Waiting, Running
    <3> QED BY <3>1, PopFresh DEF FreshInv
  <2> QED BY <1>3, <2>1, <2>2 DEF Exceptions
<1>4. CASE Environment
  <2>1. UNCHANGED <<todo, exc>> /\ call'.op = call.op /\ call'.restarts = call.restarts
    <3>1. call' = call \/ call' = [call EXCEPT !.runs = call.runs + 1]
      BY <1>4 DEF Environment, Answer, AnswerHelp, Crash, Drop, Own
    <3>2. UNCHANGED <<todo, exc>>
      BY <1>4 DEF Environment, Answer, DeviceAnswers, AnswerHelp, Crash, Drop
    <3> QED BY <1>1, <3>1, <3>2 DEF CallRecord
  <2>2. inq' = inq \/ inq' = <<>> \/ (inq # <<>> /\ inq' = Tail(inq))
    BY <1>4 DEF Environment, Answer, DeviceAnswers, AnswerHelp, Crash, Drop
  <2>3. \A i \in DOMAIN inq' : \E j \in DOMAIN inq : inq'[i] = inq[j]
    <3>1. CASE inq # <<>> /\ inq' = Tail(inq)
      <4>1. \A i \in DOMAIN Tail(inq) : i + 1 \in DOMAIN inq /\ Tail(inq)[i] = inq[i + 1]
        BY <1>1, <3>1
      <4> QED BY <3>1, <4>1
    <3>2. CASE inq' = inq
      BY <3>2
    <3>3. CASE inq' = <<>>
      BY <3>3
    <3> QED BY <2>2, <3>1, <3>2, <3>3
  <2>4. (Waiting' <=> Waiting) /\ (Fresh' <=> Fresh)
    BY <2>1 DEF Waiting, Running, frame, Fresh
  <2>5. (NoneDue(inq) => NoneDue(inq')) /\ (NoLaunchDue(inq) => NoLaunchDue(inq'))
    BY <2>3 DEF NoneDue, NoLaunchDue
  <2> QED BY <2>1, <2>4, <2>5 DEF FreshInv
<1>5. CASE UNCHANGED vars
  BY <1>5 DEF vars, baseVars, wire, FreshInv, Fresh, NoneDue, NoLaunchDue, Waiting,
              Running, frame
<1> QED BY <1>2, <1>3, <1>4, <1>5, UserFresh, ExchangeFresh DEF Next, Client

(* A CLI object just made has sent nothing.                                *)
LEMMA InitFresh == Init => FreshInv
  BY DEF Init, BaseInit, NoSession, FreshInv, NoneDue, NoLaunchDue, Some

(* What a fresh call can send is known in every reachable state.           *)
LEMMA Freshness == Spec => [](IInv /\ NestInv /\ FreshInv)
<1>1. IInv /\ NestInv /\ FreshInv /\ [Next]_vars => (IInv /\ NestInv /\ FreshInv)'
  BY StepKeepsIInv, StepNests, StepFresh
<1> QED BY <1>1, InitIInv, InitNests, InitFresh, PTL DEF Spec

(* enter_mode_normal, _enable and _config never log a crashed CLI back in: *)
(* whatever the network and the appliance do, only the line that starts    *)
(* the CLI leads from the shell to a CLI prompt, and only start() and the  *)
(* restarts send it.                                                       *)
THEOREM OnlyStartsLaunch == Spec => NoSilentRelogin
<1>1. ASSUME IInv, FreshInv, [Next]_vars,
             inq # <<>>, Head(inq).due, dev = "shell", dev' \in AnyPrompt,
             link' = "open", inq' = Tail(inq)
      PROVE  call.op = "start" \/ call.restarts > 0
  <2>1. /\ SessionInv(Ops, Lines) /\ inq \in Seq(Line(Lines)) /\ call.restarts \in Nat
        /\ Head(inq) = inq[1] /\ 1 \in DOMAIN inq
    BY <1>1, TypeFacts DEF BaseTypeOK, CallRecord
  <2>2. dev' # dev
    BY <1>1 DEF AnyPrompt
  <2>3. Answer
    <3>1. ASSUME OpenSucceeds(StartPrompt)
          PROVE  FALSE
      <4>1. ~Waiting
        BY <3>1 DEF OpenSucceeds, Waiting, Running
      <4> QED BY <1>1, <2>1, <4>1 DEF FreshInv, NoneDue
    <3>2. ~(dev' = "shell")
      BY <1>1 DEF AnyPrompt
    <3>3. dev' = dev \/ dev' = "shell" \/ OpenSucceeds(StartPrompt) \/ Answer
      BY <1>1 DEF Next, User, Client, Environment, Exchange, Local, Exceptions, vars,
         baseVars, wire, Call, CallStart, CallEnterMode, CallEnterModeX,
         CallExecCommand, CallGetSubCommands, SetDefaultMode, Exit, CleanupHelper,
         OpenFails, SendFails, SendSucceeds, Expect, ExpectMatch, ExpectMore,
         ExpectClosed, ExpectTimeout, StartCli, RunCliFromShell, LeaveFor, Password,
         EnterShell, ShellFrom, UnknownMode, ExecCommand, ExecSend, CheckOutput,
         RaiseCliError, DeleteLine, LeaveTry, Quiet, EnterModeRestarts, ExecRestarts,
         Restart, Unwind, AnswerHelp, Crash, Drop
    <3> QED BY <2>2, <3>1, <3>2, <3>3
  <2>4. PICK e \in (IF typed THEN {Unknown(dev)} ELSE Effects(dev, Head(inq).line)) :
          dev' = e.prompt
    BY <2>3 DEF Answer, DeviceAnswers
  <2>5. e \in FromShell(Head(inq).line) /\ e.prompt # "shell"
    <3>1. Effects(dev, Head(inq).line) = FromShell(Head(inq).line)
      BY <1>1 DEF Effects
    <3>2. Unknown(dev).prompt = dev
      BY DEF Unknown
    <3> QED BY <1>1, <2>2, <2>4, <3>1, <3>2
  <2>6. inq[1].line = CliPath
    <3>1. /\ \A r \in Refuse("shell") : r.prompt = "shell"
          /\ \A r \in Stay("shell") : r.prompt = "shell"
      BY DEF Refuse, Stay, Unknown, To
    <3>2. CASE Head(inq).line # CliPath
      BY <2>5, <3>1, <3>2 DEF FromShell
    <3> QED BY <2>1, <3>2
  <2>7. ~Fresh
    BY <1>1, <2>1, <2>6 DEF FreshInv, NoLaunchDue
  <2> QED BY <2>1, <2>7 DEF Fresh
<1>2. IInv /\ FreshInv /\ [Next]_vars
        => [inq # <<>> /\ Head(inq).due /\ dev = "shell" /\ dev' \in AnyPrompt
              /\ link' = "open" /\ inq' = Tail(inq)
              => call.op = "start" \/ call.restarts > 0]_vars
  BY <1>1
<1> QED BY <1>2, Freshness, PTL DEF Spec, NoSilentRelogin

-----------------------------------------------------------------------------
(* Where the appliance is.  A place is the mode it is in, the kind of      *)
(* output its last answer had, and whether its line editor holds text:     *)
(* assertions about these hold before and after every instruction, and fit *)
(* together along the stack.                                               *)
Places  == Prompts \X Outs \X BOOLEAN
here    == <<dev, got.out, typed>>
Asked   == <<call.mode, call.resent, call.ready>>
Trusted == link = "open" /\ ~lost

At(modes) == {q \in Places : q[1] \in modes /\ ~q[3]}
Probed    == AnyPrompt \cup {"shell"}

(* Where a line leads, if one of the prompts waited for is shown: help     *)
(* leaves its text behind, and the two lines that are sent from more than  *)
(* one mode lead elsewhere or to an error.                                 *)
Reached(line, pats) ==
  {q \in Places :
     /\ q[1] \in pats
     /\ line # Help => ~q[3]
     /\ line = "configure terminal" => q[1] \in {"config", "shell"} \/ q[2] = "error"
     /\ line = "_shell" => q[1] = "shell" \/ q[2] = "error"}

(* Where a call that asked for the mode g[1] sends a line.  The first time *)
(* it sends its command in that mode, and if it asked for a mode or began  *)
(* at an empty prompt (g[3]), it always sends it to an empty prompt.       *)
SentFrom(g, line) ==
  {q \in Places : line = Cmd =>
     /\ ~g[2] /\ g[1] # "none" => q[1] = g[1]
     /\ g[3] => q[1] # "password" /\ ~q[3]}

(* What exec_command judges, and what it lets pass.                        *)
Judged(x) == IF x.pats = {} THEN Places ELSE Reached(x.line, x.pats)
Passed(x) == {q \in Judged(x) : q[2] = "error" => x.flag}

Before(g) == [x \in Frame(Ops, Lines) |->
  CASE x.op \in {"normal_from", "enable_from", "config_from", "shell_from"} -> At(Probed)
    [] x.op = "password"     -> At({"enable", "password"})
    [] x.op \in {"send", "exec_send"} -> SentFrom(g, x.line)
    [] x.op = "exec"         -> IF g[1] = "none" THEN SentFrom(g, x.line) ELSE Places
    [] x.op = "except_exec"  -> Reached(x.line, x.pats)
    [] x.op = "except_enter" -> At({x.mode})
    [] x.op = "check"        -> Judged(x)
    [] OTHER                 -> Places]

After == [x \in Frame(Ops, Lines) |->
  CASE x.op \in {"normal_from", "start_cli", "run_cli"} -> At({"normal"})
    [] x.op \in {"enable_from", "password"} -> At({"enable"})
    [] x.op = "config_from"  -> At({"config"})
    [] x.op = "shell_from"   -> At({"shell"})
    [] x.op = "enter_shell"  -> Places
    [] x.op = "open"         -> At(x.pats)
    [] x.op \in {"send", "except_exec"} -> Reached(x.line, x.pats)
    [] x.op = "except_enter" -> At({x.mode})
    [] x.op \in {"exec", "exec_send", "check"} -> Passed(x)
    [] OTHER                 -> {}]

(* Where a call may end, and what holds before a program for that.         *)
Landing(c) == IF c.op \in {"enter_mode", "enter_mode_x"} THEN At({c.mode}) ELSE Places
Needs(g, prog, B) == Entry(Before(g), prog, B)

(* A program whose assertions fit together.                                *)
Fits(g, prog, B) == prog \in Seq(Frame(Ops, Lines)) /\ Flow(Before(g), After, prog, B)

(* The empty program fits anywhere.                                        *)
LEMMA FitsNone ==
  ASSUME NEW g, NEW B
  PROVE  Fits(g, <<>>, B) /\ Needs(g, <<>>, B) = B
<1>1. <<>> \in Seq(Frame(Ops, Lines))
  OBVIOUS
<1> QED BY <1>1, FlowNone DEF Fits, Needs

(* A program of one instruction.                                           *)
LEMMA FitsOne ==
  ASSUME NEW g, NEW B, NEW a \in Frame(Ops, Lines), After[a] \subseteq B
  PROVE  Fits(g, <<a>>, B) /\ Needs(g, <<a>>, B) = Before(g)[a]
<1>1. <<a>> \in Seq(Frame(Ops, Lines))
  BY One
<1>2. Flow(Before(g), After, <<a>>, B) /\ Entry(Before(g), <<a>>, B) = Before(g)[a]
  BY FlowOne
<1> QED BY <1>1, <1>2 DEF Fits, Needs

(* A program of two instructions.                                          *)
LEMMA FitsTwo ==
  ASSUME NEW g, NEW B, NEW a \in Frame(Ops, Lines), NEW b \in Frame(Ops, Lines),
         After[a] \subseteq Before(g)[b], After[b] \subseteq B
  PROVE  Fits(g, <<a, b>>, B) /\ Needs(g, <<a, b>>, B) = Before(g)[a]
<1>1. <<a, b>> \in Seq(Frame(Ops, Lines))
  BY Two
<1>2. Flow(Before(g), After, <<a, b>>, B) /\ Entry(Before(g), <<a, b>>, B) = Before(g)[a]
  BY FlowTwo
<1> QED BY <1>1, <1>2 DEF Fits, Needs

(* A program of three instructions.                                        *)
LEMMA FitsThree ==
  ASSUME NEW g, NEW B, NEW a \in Frame(Ops, Lines), NEW b \in Frame(Ops, Lines),
         NEW c \in Frame(Ops, Lines), After[a] \subseteq Before(g)[b],
         After[b] \subseteq Before(g)[c], After[c] \subseteq B
  PROVE  Fits(g, <<a, b, c>>, B) /\ Needs(g, <<a, b, c>>, B) = Before(g)[a]
<1> DEFINE p == <<a, b, c>>
<1>1. p \in Seq(Frame(Ops, Lines))
  BY Three
<1>2. DOMAIN p = {1, 2, 3} /\ Len(p) = 3 /\ p[1] = a /\ p[2] = b /\ p[3] = c /\ p # <<>>
  OBVIOUS
<1> HIDE DEF p
<1>3. /\ After[p[1]] \subseteq Before(g)[p[1 + 1]] /\ After[p[2]] \subseteq Before(g)[p[2 + 1]]
      /\ After[p[3]] \subseteq B
  BY <1>2
<1>4. Fits(g, p, B) /\ Needs(g, p, B) = Before(g)[a]
  BY <1>1, <1>2, <1>3 DEF Fits, Needs, Flow, Entry
<1> QED BY <1>4 DEF p

(* A program of two programs.                                              *)
LEMMA FitsConcat ==
  ASSUME NEW g, NEW B, NEW p, NEW q, Fits(g, p, Needs(g, q, B)), Fits(g, q, B)
  PROVE  Fits(g, p \o q, B) /\ Needs(g, p \o q, B) = Needs(g, p, Needs(g, q, B))
<1>1. /\ p \in Seq(Frame(Ops, Lines)) /\ q \in Seq(Frame(Ops, Lines))
      /\ Flow(Before(g), After, p, Entry(Before(g), q, B))
      /\ Flow(Before(g), After, q, B)
  BY DEF Fits, Needs
<1>2. p \o q \in Seq(Frame(Ops, Lines))
  BY <1>1, ConcatProperties
<1>3. /\ Flow(Before(g), After, p \o q, B)
      /\ Entry(Before(g), p \o q, B) = Entry(Before(g), p, Entry(Before(g), q, B))
  BY <1>1, FlowConcat
<1> QED BY <1>2, <1>3 DEF Fits, Needs

(* A program fits where less is asked of it.                               *)
LEMMA FitsWeaken ==
  ASSUME NEW g, NEW B, NEW C, NEW p, Fits(g, p, B), B \subseteq C
  PROVE  Fits(g, p, C) /\ Needs(g, p, B) \subseteq Needs(g, p, C)
<1>1. p \in Seq(Frame(Ops, Lines)) /\ Flow(Before(g), After, p, B)
  BY DEF Fits
<1>2. /\ Flow(Before(g), After, p, C)
      /\ Entry(Before(g), p, B) \subseteq Entry(Before(g), p, C)
  BY <1>1, FlowWeaken
<1> QED BY <1>1, <1>2 DEF Fits, Needs

(* Once the command is being sent again, it may run anywhere.              *)
LEMMA FitsResent ==
  ASSUME NEW g, NEW h, h[1] = g[1], h[2] \/ h[2] = g[2], h[3] = g[3], NEW B, NEW p, Fits(g, p, B)
  PROVE  Fits(h, p, B) /\ Needs(g, p, B) \subseteq Needs(h, p, B)
<1>1. \A x \in Frame(Ops, Lines) : Before(g)[x] \subseteq Before(h)[x]
  BY DEF Before, SentFrom
<1>2. p \in Seq(Frame(Ops, Lines)) /\ \A j \in DOMAIN p : p[j] \in Frame(Ops, Lines)
  BY DEF Fits
<1>3. ASSUME NEW j \in DOMAIN p
      PROVE  After[p[j]] \subseteq IF j = Len(p) THEN B ELSE Before(h)[p[j + 1]]
  <2>1. After[p[j]] \subseteq IF j = Len(p) THEN B ELSE Before(g)[p[j + 1]]
    BY DEF Fits, Flow
  <2>2. CASE j = Len(p)
    BY <2>1, <2>2
  <2>3. CASE j # Len(p)
    <3>1. j + 1 \in DOMAIN p
      BY <1>2, <2>3
    <3>2. Before(g)[p[j + 1]] \subseteq Before(h)[p[j + 1]]
      BY <1>1, <1>2, <3>1
    <3> QED BY <2>1, <2>3, <3>2
  <2> QED BY <2>2, <2>3
<1>4. Entry(Before(g), p, B) \subseteq Entry(Before(h), p, B)
  <2>1. p # <<>> => 1 \in DOMAIN p
    BY <1>2, EmptySeq
  <2> QED BY <1>1, <1>2, <2>1 DEF Entry
<1> QED BY <1>2, <1>3, <1>4 DEF Fits, Needs, Flow

(* Places one by one.                                                      *)
LEMMA PlaceParts ==
  ASSUME NEW q \in Places
  PROVE  q[1] \in Prompts /\ q[2] \in Outs /\ q[3] \in BOOLEAN
  BY DEF Places

(* Sending a line.                                                         *)
LEMMA SendAssertions ==
  ASSUME NEW g, NEW line \in Lines, NEW pats \in SUBSET Prompts
  PROVE  /\ Send(line, pats) \in Frame(Ops, Lines)
         /\ Before(g)[Send(line, pats)] = SentFrom(g, line)
         /\ After[Send(line, pats)] = Reached(line, pats)
         /\ line # Cmd => Before(g)[Send(line, pats)] = Places
         /\ line \notin {"configure terminal", "_shell", Help} =>
              After[Send(line, pats)] = At(pats)
<1> DEFINE s == Send(line, pats)
<1>1. s \in Frame(Ops, Lines)
  BY PlainInstr, InstrIsFrame
<1>2. s.op = "send" /\ s.line = line /\ s.pats = pats
  BY DEF Send, Do
<1> HIDE DEF s
<1>3. Before(g)[s] = SentFrom(g, line) /\ After[s] = Reached(line, pats)
  BY <1>1, <1>2 DEF Before, After
<1>4. line # Cmd => SentFrom(g, line) = Places
  BY DEF SentFrom
<1>5. line \notin {"configure terminal", "_shell", Help} => Reached(line, pats) = At(pats)
  BY DEF Reached, At
<1> QED BY <1>1, <1>3, <1>4, <1>5 DEF s

(* The instructions without operands.                                      *)
LEMMA DoAssertions ==
  ASSUME NEW g
  PROVE  /\ \A op \in Ops \ {"open", "wait"} : Do(op) \in Frame(Ops, Lines)
         /\ \A op \in {"normal_from", "enable_from", "config_from", "shell_from"} :
              Before(g)[Do(op)] = At(Probed)
         /\ Before(g)[Do("password")] = At({"enable", "password"})
         /\ \A op \in {"start_cli", "run_cli", "enter_shell", "unknown_mode", "cli_error",
                       "delete_line"} : Before(g)[Do(op)] = Places
         /\ \A op \in {"normal_from", "start_cli", "run_cli"} :
              After[Do(op)] = At({"normal"})
         /\ \A op \in {"enable_from", "password"} : After[Do(op)] = At({"enable"})
         /\ After[Do("config_from")] = At({"config"})
         /\ After[Do("shell_from")] = At({"shell"})
         /\ After[Do("enter_shell")] = Places
         /\ \A op \in {"unknown_mode", "cli_error", "delete_line"} : After[Do(op)] = {}
<1>1. \A op \in Ops \ {"open", "wait"} : Do(op) \in Frame(Ops, Lines)
  BY PlainInstr, InstrIsFrame
<1>2. \A op : Do(op).op = op
  BY DEF Do
<1>3. /\ {"normal_from", "enable_from", "config_from", "shell_from", "password",
          "start_cli", "run_cli", "enter_shell", "unknown_mode", "cli_error",
          "delete_line"} \subseteq Ops \ {"open", "wait"}
  BY DEF Ops
<1>4. ASSUME NEW op \in {"normal_from", "enable_from", "config_from", "shell_from"}
      PROVE  Before(g)[Do(op)] = At(Probed)
  BY <1>1, <1>2, <1>3, <1>4 DEF Before
<1>5. Before(g)[Do("password")] = At({"enable", "password"})
  BY <1>1, <1>2, <1>3 DEF Before
<1>6. ASSUME NEW op \in {"start_cli", "run_cli", "enter_shell", "unknown_mode",
                         "cli_error", "delete_line"}
      PROVE  Before(g)[Do(op)] = Places
  BY <1>1, <1>2, <1>3, <1>6 DEF Before
<1>7. ASSUME NEW op \in {"normal_from", "start_cli", "run_cli"}
      PROVE  After[Do(op)] = At({"normal"})
  BY <1>1, <1>2, <1>3, <1>7 DEF After
<1>8. ASSUME NEW op \in {"enable_from", "password"}
      PROVE  After[Do(op)] = At({"enable"})
  BY <1>1, <1>2, <1>3, <1>8 DEF After
<1>9. /\ After[Do("config_from")] = At({"config"})
      /\ After[Do("shell_from")] = At({"shell"})
      /\ After[Do("enter_shell")] = Places
  BY <1>1, <1>2, <1>3 DEF After
<1>10. ASSUME NEW op \in {"unknown_mode", "cli_error", "delete_line"}
       PROVE  After[Do(op)] = {}
  BY <1>1, <1>2, <1>3, <1>10 DEF After
<1> QED BY <1>1, <1>4, <1>5, <1>6, <1>7, <1>8, <1>9, <1>10

(* The probe of current_cli_mode can be sent anywhere.                     *)
LEMMA ProbeAssertions ==
  ASSUME NEW g
  PROVE  Probe \in Frame(Ops, Lines) /\ Before(g)[Probe] = Places /\ After[Probe] = At(Probed)
<1>1. "" \in Lines /\ Probed \in SUBSET Prompts /\ "" # Cmd
      /\ "" \notin {"configure terminal", "_shell", Help}
  BY DEF Lines, Probed, AnyPrompt, Prompts, Cmd, Help
<1> QED BY <1>1, SendAssertions DEF Probe, Probed

(* exec_command may be called anywhere, but for the user's command in the  *)
(* mode the appliance is in, and passes what it passes.                    *)
LEMMA ExecAssertions ==
  ASSUME NEW g, NEW x \in Frame(Ops, Lines), x.op = "exec"
  PROVE  /\ x.line # Cmd \/ g[1] # "none" => Before(g)[x] = Places
         /\ g[1] = "none" => Before(g)[x] = SentFrom(g, x.line)
         /\ After[x] = Passed(x)
  BY DEF Before, After, SentFrom

(* `configure terminal' is let pass in configuration mode only.            *)
LEMMA ConfigTerminalAssertions ==
  ASSUME NEW g
  PROVE  /\ ConfigTerminal \in Frame(Ops, Lines)
         /\ Before(g)[ConfigTerminal] = Places /\ After[ConfigTerminal] \subseteq At({"config"})
<1>1. ConfigTerminal \in Frame(Ops, Lines)
  BY ExecInner, InstrIsFrame DEF ConfigTerminal, AnyPrompt, Prompts, Outs, Lines
<1>2. /\ ConfigTerminal.op = "exec" /\ ConfigTerminal.line = "configure terminal"
      /\ ConfigTerminal.pats = AnyPrompt /\ ConfigTerminal.flag = FALSE
  BY DEF ConfigTerminal, Exec
<1>3. Passed(ConfigTerminal) \subseteq At({"config"})
  BY <1>2 DEF Passed, Judged, Reached, At, AnyPrompt, Help
<1> QED BY <1>1, <1>2, <1>3, ExecAssertions DEF Cmd

(* `_shell' is let pass in the shell only.                                 *)
LEMMA ShellCommandAssertions ==
  ASSUME NEW g
  PROVE  /\ ShellCommand \in Frame(Ops, Lines)
         /\ Before(g)[ShellCommand] = Places /\ After[ShellCommand] \subseteq At({"shell"})
<1>1. ShellCommand \in Frame(Ops, Lines)
  BY ExecInner, InstrIsFrame DEF ShellCommand, StartPrompt, Prompts, Outs, Lines
<1>2. /\ ShellCommand.op = "exec" /\ ShellCommand.line = "_shell"
      /\ ShellCommand.pats = StartPrompt /\ ShellCommand.flag = FALSE
  BY DEF ShellCommand, Exec
<1>3. Passed(ShellCommand) \subseteq At({"shell"})
  BY <1>2 DEF Passed, Judged, Reached, At, StartPrompt, Help
<1> QED BY <1>1, <1>2, <1>3, ExecAssertions DEF Cmd

-----------------------------------------------------------------------------
(* Programs.                                                               *)

(* enter_mode_normal and _enable, as parts of other methods.               *)
LEMMA ModeFits ==
  ASSUME NEW g, NEW op \in {"normal_from", "enable_from", "config_from"}, NEW B,
         After[Do(op)] \subseteq B
  PROVE  Fits(g, <<Probe, Do(op)>>, B) /\ Needs(g, <<Probe, Do(op)>>, B) = Places
<1> DEFINE x == Do(op)
<1>1. x \in Frame(Ops, Lines) /\ Before(g)[x] = At(Probed)
  BY DoAssertions DEF Ops
<1> HIDE DEF x
<1>2. After[x] \subseteq B
  BY DEF x
<1>3. Fits(g, <<Probe, x>>, B) /\ Needs(g, <<Probe, x>>, B) = Places
  BY <1>1, <1>2, ProbeAssertions, FitsTwo
<1> QED BY <1>3 DEF x

(* enter_mode_<mode> may be called anywhere and ends in its mode.          *)
LEMMA BodyFits ==
  ASSUME NEW g, NEW mode, NEW B, At({mode}) \subseteq B
  PROVE  /\ Fits(g, EnterModeBody(mode), B) /\ Needs(g, EnterModeBody(mode), B) = Places
         /\ EnterModeBody(mode) # <<>>
<1>1. CASE mode \in {"normal", "enable", "config"}
  <2>1. PICK op \in {"normal_from", "enable_from", "config_from"} :
          EnterModeBody(mode) = <<Probe, Do(op)>> /\ After[Do(op)] = At({mode})
    <3>1. /\ After[Do("normal_from")] = At({"normal"})
          /\ After[Do("enable_from")] = At({"enable"})
          /\ After[Do("config_from")] = At({"config"})
      BY DoAssertions
    <3> QED BY <1>1, <3>1 DEF EnterModeBody, EnterModeNormal, EnterModeEnable, EnterModeConfig
  <2> QED BY <2>1, ModeFits
<1>2. CASE mode = "shell"
  <2> DEFINE e == Do("enter_shell")
             f == Do("shell_from")
  <2>1. /\ e \in Frame(Ops, Lines) /\ Before(g)[e] = Places /\ After[e] = Places
        /\ f \in Frame(Ops, Lines) /\ Before(g)[f] = At(Probed) /\ After[f] = At({"shell"})
    BY DoAssertions DEF Ops
  <2>2. EnterModeBody(mode) = <<e, Probe, f>>
    BY <1>2 DEF EnterModeBody, EnterModeShell
  <2> HIDE DEF e, f
  <2>3. After[f] \subseteq B
    BY <1>2, <2>1
  <2>4. Fits(g, <<e, Probe, f>>, B) /\ Needs(g, <<e, Probe, f>>, B) = Places
    BY <2>1, <2>3, ProbeAssertions, FitsThree
  <2>5. <<e, Probe, f>> # <<>>
    OBVIOUS
  <2> QED BY <2>2, <2>4, <2>5
<1>3. CASE mode \notin {"normal", "enable", "config", "shell"}
  <2> DEFINE u == Do("unknown_mode")
  <2>1. u \in Frame(Ops, Lines) /\ Before(g)[u] = Places /\ After[u] = {}
    BY DoAssertions DEF Ops
  <2>2. EnterModeBody(mode) = <<u>>
    BY <1>3 DEF EnterModeBody
  <2> HIDE DEF u
  <2>3. Fits(g, <<u>>, B) /\ Needs(g, <<u>>, B) = Places
    BY <2>1, FitsOne
  <2>4. <<u>> # <<>>
    OBVIOUS
  <2> QED BY <2>2, <2>3, <2>4
<1> QED BY <1>1, <1>2, <1>3

(* So does enter_mode, under its handler.                                  *)
LEMMA EnterModeFits ==
  ASSUME NEW g, NEW mode \in Modes \cup {"none", "undef"}, NEW reinit \in BOOLEAN, NEW B,
         At({mode}) \subseteq B
  PROVE  /\ Fits(g, EnterMode(mode, reinit), B)
         /\ Needs(g, EnterMode(mode, reinit), B) = Places
<1> DEFINE h == [Do("except_enter") EXCEPT !.mode = mode, !.flag = reinit]
           b == EnterModeBody(mode)
<1>1. h \in Frame(Ops, Lines) /\ h.op = "except_enter" /\ h.mode = mode
  BY DEF Do, Frame, Prompts, Outs, Ops, Lines
<1>2. EnterMode(mode, reinit) = b \o <<h>>
  BY DEF EnterMode
<1> HIDE DEF h
<1>3. Before(g)[h] = At({mode}) /\ After[h] = At({mode})
  BY <1>1 DEF Before, After
<1>4. Fits(g, <<h>>, B) /\ Needs(g, <<h>>, B) = At({mode})
  BY <1>1, <1>3, FitsOne
<1>5. Fits(g, b, At({mode})) /\ Needs(g, b, At({mode})) = Places
  BY BodyFits
<1> HIDE DEF b
<1> DEFINE q == <<h>>
<1> HIDE DEF q
<1>6. Fits(g, b \o q, B) /\ Needs(g, b \o q, B) = Places
  BY <1>4, <1>5, FitsConcat DEF q
<1> QED BY <1>2, <1>6 DEF q

(* start() leads to a prompt it accepts, or on to the CLI.                 *)
LEMMA StartFits ==
  ASSUME NEW g, NEW runCli \in BOOLEAN, NEW B, At({"normal"}) \subseteq B,
         ~runCli => At(StartPrompt) \subseteq B
  PROVE  Fits(g, Start(runCli), B) /\ Needs(g, Start(runCli), B) = Places
<1> DEFINE o == Open(StartPrompt)
           c == Do("start_cli")
<1>1. o \in Frame(Ops, Lines) /\ o.op = "open" /\ o.pats = StartPrompt
  BY WaitOpenFrame, RvbdVocabulary DEF StartPrompt, Prompts, Open, Do
<1>2. c \in Frame(Ops, Lines) /\ Before(g)[c] = Places /\ After[c] = At({"normal"})
  BY DoAssertions DEF Ops
<1>3. Start(runCli) = IF runCli THEN <<o>> \o <<c>> ELSE <<o>> \o <<>>
  BY DEF Start
<1> HIDE DEF o, c
<1>4. /\ Before(g)[o] = Places /\ After[o] = At(StartPrompt)
      /\ At(StartPrompt) \subseteq Places
  BY <1>1 DEF Before, After, At
<1>5. Fits(g, <<c>>, B) /\ Needs(g, <<c>>, B) = Places
  BY <1>2, FitsOne
<1>6. Fits(g, <<>>, B) /\ Needs(g, <<>>, B) = B
  BY FitsNone
<1>7. Fits(g, <<o>>, Places) /\ Needs(g, <<o>>, Places) = Places
  BY <1>1, <1>4, FitsOne
<1>8. ~runCli => Fits(g, <<o>>, B) /\ Needs(g, <<o>>, B) = Places
  BY <1>1, <1>4, FitsOne
<1> DEFINE p == <<o>>
           q == <<c>>
           r == <<>>
<1> HIDE DEF p, q, r
<1>9. Fits(g, p \o q, B) /\ Needs(g, p \o q, B) = Places
  BY <1>5, <1>7, FitsConcat DEF p, q
<1>10. ~runCli => Fits(g, p \o r, B) /\ Needs(g, p \o r, B) = Places
  BY <1>6, <1>8, FitsConcat DEF p, r
<1> QED BY <1>3, <1>9, <1>10 DEF p, q, r

(* A line that is not the user's command, sent alone.                      *)
LEMMA SendFits ==
  ASSUME NEW g, NEW line \in Lines \ {Cmd, "configure terminal", "_shell", Help},
         NEW pats \in SUBSET Prompts, NEW B, At(pats) \subseteq B
  PROVE  /\ Fits(g, <<Send(line, pats)>>, B) /\ Needs(g, <<Send(line, pats)>>, B) = Places
<1> DEFINE s == Send(line, pats)
<1>1. s \in Frame(Ops, Lines) /\ Before(g)[s] = Places /\ After[s] = At(pats)
  BY SendAssertions
<1> HIDE DEF s
<1>2. Fits(g, <<s>>, B) /\ Needs(g, <<s>>, B) = Places
  BY <1>1, FitsOne
<1> QED BY <1>2 DEF s

(* _enable leads to the enable mode.                                       *)
LEMMA EnableFits ==
  ASSUME NEW g, NEW B, At({"enable"}) \subseteq B
  PROVE  Fits(g, Enable, B) /\ Needs(g, Enable, B) = Places
<1> DEFINE s == Send("enable", {"enable", "password"})
           p == Do("password")
<1>0. /\ "enable" \in Lines \ {Cmd, "configure terminal", "_shell", Help}
      /\ {"enable", "password"} \in SUBSET Prompts
  BY DEF Lines, Cmd, Help, Prompts
<1>1. s \in Frame(Ops, Lines) /\ Before(g)[s] = Places /\ After[s] = At({"enable", "password"})
  BY <1>0, SendAssertions
<1>2. p \in Frame(Ops, Lines) /\ Before(g)[p] = At({"enable", "password"})
      /\ After[p] = At({"enable"})
  BY DoAssertions DEF Ops
<1> HIDE DEF s, p
<1>3. Fits(g, <<s, p>>, B) /\ Needs(g, <<s, p>>, B) = Places
  BY <1>1, <1>2, FitsTwo
<1> QED BY <1>3 DEF Enable, s, p

(* What enter_mode_<mode> does in a mode, it may do anywhere, and ends in  *)
(* its mode; where it does nothing it already is in its mode.              *)

Leads(g, to, mode) ==
  \A p \in Prompts :
    \/ Fits(g, to[p], At({mode})) /\ Needs(g, to[p], At({mode})) = Places
    \/ to[p] = <<>> /\ (p \in AnyPrompt => p = mode)

(* The table of enter_mode_normal.                                         *)
LEMMA NormalLeads ==
  ASSUME NEW g
  PROVE  Leads(g, ToNormal, "normal")
<1> SUFFICES ASSUME NEW p \in Prompts
             PROVE  \/ /\ Fits(g, ToNormal[p], At({"normal"}))
                       /\ Needs(g, ToNormal[p], At({"normal"})) = Places
                    \/ ToNormal[p] = <<>> /\ (p \in AnyPrompt => p = "normal")
  BY DEF Leads
<1> DEFINE e == Send("exit", {"enable"})
           d == Send("disable", {"normal"})
<1>0. /\ {"exit", "disable"} \subseteq Lines \ {Cmd, "configure terminal", "_shell", Help}
      /\ {"enable"} \in SUBSET Prompts /\ {"normal"} \in SUBSET Prompts
  BY DEF Lines, Cmd, Help, Prompts
<1>1. e \in Frame(Ops, Lines) /\ Before(g)[e] = Places /\ After[e] = At({"enable"})
  BY <1>0, SendAssertions
<1>2. d \in Frame(Ops, Lines) /\ Before(g)[d] = Places /\ After[d] = At({"normal"})
  BY <1>0, SendAssertions
<1>3. /\ p = "enable" => ToNormal[p] = <<d>>
      /\ p = "config" => ToNormal[p] = <<e, d>>
      /\ p \notin {"enable", "config"} => ToNormal[p] = <<>>
  BY DEF ToNormal
<1> HIDE DEF e, d
<1>4. At({"enable"}) \subseteq Places
  BY DEF At
<1>5. Fits(g, <<d>>, At({"normal"})) /\ Needs(g, <<d>>, At({"normal"})) = Places
  BY <1>2, FitsOne
<1>6. Fits(g, <<e, d>>, At({"normal"})) /\ Needs(g, <<e, d>>, At({"normal"})) = Places
  BY <1>1, <1>2, <1>4, FitsTwo
<1> QED BY <1>3, <1>5, <1>6 DEF AnyPrompt

(* The table of enter_mode_enable.                                         *)
LEMMA EnableLeads ==
  ASSUME NEW g
  PROVE  Leads(g, ToEnable, "enable")
<1> SUFFICES ASSUME NEW p \in Prompts
             PROVE  \/ /\ Fits(g, ToEnable[p], At({"enable"}))
                       /\ Needs(g, ToEnable[p], At({"enable"})) = Places
                    \/ ToEnable[p] = <<>> /\ (p \in AnyPrompt => p = "enable")
  BY DEF Leads
<1>1. /\ p = "normal" => ToEnable[p] = Enable
      /\ p = "config" => ToEnable[p] = <<Send("exit", {"enable"})>>
      /\ p \notin {"normal", "config"} => ToEnable[p] = <<>>
  BY DEF ToEnable
<1>2. "exit" \in Lines \ {Cmd, "configure terminal", "_shell", Help}
      /\ {"enable"} \in SUBSET Prompts
  BY DEF Lines, Cmd, Help, Prompts
<1> DEFINE x == <<Send("exit", {"enable"})>>
<1>3. Fits(g, x, At({"enable"})) /\ Needs(g, x, At({"enable"})) = Places
  BY <1>2, SendFits
<1>4. Fits(g, Enable, At({"enable"})) /\ Needs(g, Enable, At({"enable"})) = Places
  BY EnableFits
<1>5. /\ p = "normal" => ToEnable[p] = Enable
      /\ p = "config" => ToEnable[p] = x
      /\ p \notin {"normal", "config"} => ToEnable[p] = <<>>
  BY <1>1
<1> HIDE DEF x
<1> QED BY <1>3, <1>4, <1>5 DEF AnyPrompt

(* The table of enter_mode_config.                                         *)
LEMMA ConfigLeads ==
  ASSUME NEW g
  PROVE  Leads(g, ToConfig, "config")
<1> SUFFICES ASSUME NEW p \in Prompts
             PROVE  \/ /\ Fits(g, ToConfig[p], At({"config"}))
                       /\ Needs(g, ToConfig[p], At({"config"})) = Places
                    \/ ToConfig[p] = <<>> /\ (p \in AnyPrompt => p = "config")
  BY DEF Leads
<1> DEFINE c == <<ConfigTerminal>>
<1>1. /\ p = "normal" => ToConfig[p] = Enable \o c
      /\ p = "enable" => ToConfig[p] = c
      /\ p \notin {"normal", "enable"} => ToConfig[p] = <<>>
  BY DEF ToConfig
<1>2. Fits(g, c, At({"config"})) /\ Needs(g, c, At({"config"})) = Places
  BY ConfigTerminalAssertions, FitsOne
<1> HIDE DEF c
<1>3. Fits(g, Enable, Places) /\ Needs(g, Enable, Places) = Places
  BY EnableFits DEF At
<1>4. Fits(g, Enable \o c, At({"config"})) /\ Needs(g, Enable \o c, At({"config"})) = Places
  BY <1>2, <1>3, FitsConcat
<1> QED BY <1>1, <1>2, <1>4 DEF AnyPrompt

-----------------------------------------------------------------------------
(* The parts of the invariant.                                             *)
StackTyped == Flow(Before(Asked), After, todo, Landing(call))
Below      == Needs(Asked, Tail(todo), Landing(call))

(* Between two exchanges the last prompt read is the appliance's, and it   *)
(* is where the next instruction needs it.                                 *)
HereTyped == Trusted /\ ~Waiting =>
               /\ got.prompt = dev
               /\ exc = "none" => here \in Needs(Asked, todo, Landing(call))

Located == link = "open" => dev \in Probed \cup {"password"}

(* During one, the line it is about leads where the rest of the stack      *)
(* needs the appliance, or led there.                                      *)
ExchangeTyped == Trusted /\ Waiting =>
  /\ inq # <<>> => /\ here \in SentFrom(Asked, inq[1].line)
                   /\ Reached(inq[1].line, frame.pats) \subseteq Below
  /\ rx # <<>> => /\ frame.out = "none" /\ rx[1].prompt = dev
                  /\ dev \in frame.pats => <<dev, rx[1].out, typed>> \in Below
  /\ inq # <<>> => frame.out = "none"

ModeInv == StackTyped /\ HereTyped /\ Located /\ ExchangeTyped

(* What the head of the stack leaves, the rest needs.                      *)
LEMMA StackFacts ==
  ASSUME IInv, ModeInv, todo # <<>>
  PROVE  /\ frame \in Frame(Ops, Lines) /\ Tail(todo) \in Seq(Frame(Ops, Lines))
         /\ Fits(Asked, Tail(todo), Landing(call))
         /\ After[frame] \subseteq Below
         /\ Needs(Asked, todo, Landing(call)) = Before(Asked)[frame]
<1>1. /\ todo \in Seq(Frame(Ops, Lines)) /\ Flow(Before(Asked), After, todo, Landing(call))
  BY TypeFacts DEF BaseTypeOK, ModeInv, StackTyped
<1>2. frame \in Frame(Ops, Lines) /\ Tail(todo) \in Seq(Frame(Ops, Lines))
  BY <1>1, HeadTailProperties DEF frame
<1>3. frame = Head(todo)
  BY DEF frame
<1> DEFINE N == Before(Asked)
           B == Landing(call)
           S == Frame(Ops, Lines)
           t == Tail(todo)
<1>4. todo \in Seq(S) /\ Flow(N, After, todo, B) /\ frame = Head(todo) /\ t = Tail(todo)
  BY <1>1, <1>3
<1> HIDE DEF N, B, S, t
<1>5. Flow(N, After, t, B)
  BY <1>4, FlowTail, Zenon
<1>6. After[frame] \subseteq Entry(N, t, B)
  BY <1>4, FlowTail, Zenon
<1>7. Entry(N, todo, B) = N[frame]
  <2>1. todo[1] = frame
    BY <1>4
  <2> QED BY <2>1 DEF Entry
<1> QED BY <1>2, <1>5, <1>6, <1>7 DEF Fits, Needs, Below, N, B, t

(* An instruction is replaced by a program that does the same.             *)
LEMMA BecomeStep ==
  ASSUME IInv, ModeInv, todo # <<>>, ~Waiting, ~Waiting', exc = "none", exc' = exc,
         UNCHANGED <<wire, got, call>>, NEW prog, NEW B, B \subseteq Below,
         Fits(Asked, prog, B), todo' = prog \o Tail(todo),
         got.prompt = dev /\ here \in Before(Asked)[frame] => here \in Needs(Asked, prog, B)
  PROVE  ModeInv'
<1>1. Asked' = Asked /\ Landing(call') = Landing(call) /\ here' = here /\ Trusted' = Trusted
      /\ link' = link /\ dev' = dev /\ got' = got /\ call' = call
  BY DEF Asked, here, Trusted, wire
<1>2. /\ Fits(Asked, prog, Below) /\ Needs(Asked, prog, B) \subseteq Needs(Asked, prog, Below)
  BY FitsWeaken
<1>3. Fits(Asked, Tail(todo), Landing(call)) /\ Needs(Asked, todo, Landing(call)) = Before(Asked)[frame]
  BY StackFacts
<1>4. /\ Fits(Asked, prog \o Tail(todo), Landing(call))
      /\ Needs(Asked, prog \o Tail(todo), Landing(call)) = Needs(Asked, prog, Below)
  BY <1>2, <1>3, FitsConcat DEF Below
<1>5. StackTyped'
  <2>1. Flow(Before(Asked), After, todo', Landing(call))
    BY <1>4 DEF Fits
  <2> QED BY <1>1, <2>1 DEF StackTyped
<1>6. HereTyped'
  <2> SUFFICES ASSUME Trusted
               PROVE  got.prompt = dev /\ here \in Needs(Asked, todo', Landing(call))
    BY <1>1 DEF HereTyped
  <2>1. got.prompt = dev /\ here \in Before(Asked)[frame]
    BY <1>3 DEF ModeInv, HereTyped
  <2> QED BY <1>2, <1>4, <2>1
<1>7. Located' /\ ExchangeTyped'
  BY <1>1 DEF ModeInv, Located, ExchangeTyped
<1> QED BY <1>5, <1>6, <1>7 DEF ModeInv

(* An instruction ends with an exception.                                  *)
LEMMA RaiseStep ==
  ASSUME IInv, ModeInv, todo # <<>>, ~Waiting', exc' # "none", call' = call,
         got' = got, link' = "open" /\ ~lost' => link = "open" /\ ~lost /\ ~Waiting,
         link' = "open" => link = "open" /\ dev' = dev,
         todo' = Tail(todo)
  PROVE  ModeInv'
<1>1. Asked' = Asked /\ Landing(call') = Landing(call)
  BY DEF Asked
<1>2. StackTyped'
  <2>1. Flow(Before(Asked), After, todo', Landing(call))
    BY StackFacts DEF Fits
  <2> QED BY <1>1, <2>1 DEF StackTyped
<1>3. HereTyped' /\ Located' /\ ExchangeTyped'
  BY DEF ModeInv, HereTyped, Located, ExchangeTyped, Trusted
<1> QED BY <1>2, <1>3 DEF ModeInv

(* An instruction turns into a wait for the answer to it.                  *)
LEMMA WaitStep ==
  ASSUME IInv, ModeInv, todo # <<>>, todo' # <<>>, Tail(todo') = Tail(todo),
         todo' \in Seq(Frame(Ops, Lines)), frame'.op = "wait", call' = call
  PROVE  StackTyped' /\ Below' = Below
<1>1. Asked' = Asked /\ Landing(call') = Landing(call)
  BY DEF Asked
<1>2. frame' \in Frame(Ops, Lines) /\ frame' = Head(todo')
  BY HeadTailProperties DEF frame
<1>3. After[frame'] = {}
  BY <1>2 DEF After
<1>4. Flow(Before(Asked), After, Tail(todo'), Landing(call))
  BY StackFacts DEF Fits
<1> DEFINE N == Before(Asked)
           B == Landing(call)
           S == Frame(Ops, Lines)
           t == todo'
<1>5. t \in Seq(S) /\ t # <<>> /\ Flow(N, After, Tail(t), B)
      /\ After[Head(t)] \subseteq Entry(N, Tail(t), B)
  BY <1>2, <1>3, <1>4
<1> HIDE DEF N, B, S, t
<1>6. Flow(N, After, t, B)
  BY <1>5, FlowHead, Zenon
<1>7. StackTyped'
  BY <1>1, <1>6 DEF StackTyped, N, B, t
<1>8. Below' = Below
  BY <1>1 DEF Below
<1> QED BY <1>7, <1>8

(* On a session in step, what is outstanding is waited for.                *)
LEMMA InStepFacts ==
  ASSUME IInv, Trusted
  PROVE  /\ inq # <<>> => Waiting /\ rx = <<>> /\ Len(inq) = 1 /\ Tail(inq) = <<>>
                          /\ Head(inq) = inq[1]
         /\ rx # <<>> => Waiting /\ inq = <<>> /\ Len(rx) = 1 /\ Head(rx) = rx[1]
<1>1. /\ inq \in Seq(Line(Lines)) /\ rx \in Seq(Reply) /\ ConversationInStep
  BY TypeFacts DEF BaseTypeOK
<1>2. /\ Len(inq) \in Nat /\ Len(rx) \in Nat
      /\ inq = <<>> <=> Len(inq) = 0
      /\ rx = <<>> <=> Len(rx) = 0
  BY <1>1, EmptySeq
<1>3. Len(inq) + Len(rx) <= 1 /\ (~Waiting => Len(inq) + Len(rx) = 0)
  <2>1. Len(inq) + Len(rx) <= IF Waiting THEN 1 ELSE 0
    BY <1>1 DEF Trusted, ConversationInStep, Backlog
  <2> QED BY <1>2, <2>1
<1> DEFINE m == Len(inq)
           n == Len(rx)
<1> HIDE DEF m, n
<1>8. /\ m \in Nat /\ n \in Nat /\ m + n <= 1 /\ (~Waiting => m + n = 0)
      /\ (inq = <<>> <=> m = 0) /\ (rx = <<>> <=> n = 0)
  BY <1>2, <1>3 DEF m, n
<1>9. /\ m # 0 => m = 1 /\ n = 0 /\ m + n # 0
      /\ n # 0 => n = 1 /\ m = 0 /\ m + n # 0
  BY <1>8
<1>4. ASSUME inq # <<>>
      PROVE  Waiting /\ rx = <<>> /\ Len(inq) = 1
  BY <1>8, <1>9, <1>4 DEF m
<1>5. ASSUME inq # <<>>
      PROVE  Tail(inq) = <<>> /\ Head(inq) = inq[1]
  <2>1. Len(inq) = 1 /\ Tail(inq) \in Seq(Line(Lines)) /\ Len(Tail(inq)) = 0
    BY <1>1, <1>4, <1>5
  <2>2. Tail(inq) = <<>>
    BY <2>1, EmptySeq
  <2>3. Head(inq) = inq[1]
    BY <1>1, <1>5
  <2> QED BY <2>2, <2>3
<1>6. ASSUME rx # <<>>
      PROVE  Waiting /\ inq = <<>> /\ Len(rx) = 1
  BY <1>8, <1>9, <1>6 DEF n
<1>7. ASSUME rx # <<>>
      PROVE  Head(rx) = rx[1]
  BY <1>1, <1>7
<1> QED BY <1>4, <1>5, <1>6, <1>7

(* The first prompt of a session is one the CLI accepts.                   *)
LEMMA OpenMode ==
  ASSUME IInv, ModeInv, OpenSucceeds(StartPrompt), Own
  PROVE  ModeInv'
<1>1. SessionInv(Ops, Lines) /\ call' = call
  BY TypeFacts DEF Own
<1>2. /\ SessionInv(Ops, Lines)' /\ Waiting' /\ link' = "open" /\ dev' \in StartPrompt
      /\ typed' = FALSE
      /\ inq' = <<>> /\ todo # <<>> /\ todo' # <<>> /\ Tail(todo') = Tail(todo)
      /\ frame.op = "open" /\ frame' = Wait(frame.pats)
  BY <1>1, OpenSucceedsKeeps, RvbdVocabulary DEF StartPrompt, Prompts
<1>3. frame'.op = "wait" /\ frame'.pats = frame.pats /\ frame'.out = "none"
  BY <1>2 DEF Wait, Do
<1>4. todo' \in Seq(Frame(Ops, Lines))
  BY <1>2 DEF SessionInv, BaseTypeOK
<1>5. StackTyped' /\ Below' = Below
  BY <1>1, <1>2, <1>3, <1>4, WaitStep
<1>6. At(frame.pats) \subseteq Below
  <2>1. frame \in Frame(Ops, Lines) /\ After[frame] \subseteq Below
    BY <1>2, StackFacts
  <2>2. After[frame] = At(frame.pats)
    BY <1>2, <2>1 DEF After
  <2> QED BY <2>1, <2>2
<1>7. rx' = <<[prompt |-> dev', out |-> "none", due |-> TRUE]>>
  BY DEF OpenSucceeds
<1>8. rx'[1].prompt = dev' /\ rx'[1].out = "none"
  BY <1>7
<1>9. dev' \in frame.pats => <<dev', "none", typed'>> \in Below
  BY <1>2, <1>6 DEF At, Places, StartPrompt, Prompts, Outs
<1>10. ExchangeTyped'
  BY <1>2, <1>3, <1>5, <1>8, <1>9 DEF ExchangeTyped
<1>11. HereTyped' /\ Located'
  BY <1>2 DEF HereTyped, Located, Probed, AnyPrompt, StartPrompt
<1> QED BY <1>5, <1>10, <1>11 DEF ModeInv

(* A line is sent from where it may be.                                    *)
LEMMA SendMode ==
  ASSUME IInv, ModeInv, SendSucceeds, Own
  PROVE  ModeInv'
<1>1. SessionInv(Ops, Lines) /\ call' = call
  BY TypeFacts DEF Own
<1>2. /\ SessionInv(Ops, Lines)' /\ ~Waiting /\ Waiting' /\ link = "open" /\ exc = "none"
      /\ UNCHANGED <<link, dev, typed, rx, exc, got, lost>>
      /\ inq' = Append(inq, [line |-> frame.line, due |-> TRUE])
      /\ todo # <<>> /\ todo' # <<>> /\ Tail(todo') = Tail(todo)
      /\ frame.op = "send" /\ frame' = Wait(frame.pats)
  BY <1>1, SendSucceedsKeeps, RvbdVocabulary
<1>3. frame'.op = "wait" /\ frame'.pats = frame.pats /\ frame'.out = "none"
  BY <1>2 DEF Wait, Do
<1>4. todo' \in Seq(Frame(Ops, Lines))
  BY <1>2 DEF SessionInv, BaseTypeOK
<1>5. StackTyped' /\ Below' = Below
  BY <1>1, <1>2, <1>3, <1>4, WaitStep
<1>6. /\ frame \in Frame(Ops, Lines) /\ After[frame] \subseteq Below
      /\ Needs(Asked, todo, Landing(call)) = Before(Asked)[frame]
  BY <1>2, StackFacts
<1>7. After[frame] = Reached(frame.line, frame.pats)
      /\ Before(Asked)[frame] = SentFrom(Asked, frame.line)
  BY <1>2, <1>6 DEF After, Before
<1>8. HereTyped' /\ Located'
  BY <1>2 DEF HereTyped, Located, ModeInv
<1>9. ASSUME Trusted'
      PROVE  /\ inq'[1].line = frame.line /\ rx' = <<>>
             /\ here' \in SentFrom(Asked, frame.line)
             /\ Asked' = Asked
  <2>1. Trusted
    BY <1>2, <1>9 DEF Trusted
  <2>2. inq = <<>> /\ rx = <<>>
    BY <1>2, <2>1, InStepFacts
  <2>3. inq'[1] = [line |-> frame.line, due |-> TRUE]
    BY <1>2, <2>2
  <2>4. here \in SentFrom(Asked, frame.line)
    BY <1>2, <1>6, <1>7, <2>1 DEF ModeInv, HereTyped
  <2> QED BY <1>1, <1>2, <2>2, <2>3, <2>4 DEF here, Asked
<1>10. ExchangeTyped'
  BY <1>3, <1>5, <1>6, <1>7, <1>9 DEF ExchangeTyped
<1> QED BY <1>5, <1>8, <1>10 DEF ModeInv

(* The prompt waited for is where the rest of the stack needs to be.       *)
LEMMA MatchMode ==
  ASSUME IInv, ModeInv, ExpectMatch, Own
  PROVE  ModeInv'
<1>1. SessionInv(Ops, Lines) /\ ConversationInStep /\ call' = call
  BY TypeFacts DEF Own
<1>2. /\ Waiting /\ ~Waiting' /\ UNCHANGED <<link, dev, typed, exc, lost>>
      /\ rx # <<>> /\ got'.prompt = rx[1].prompt /\ rx[1].prompt \in frame.pats
      /\ exc = "none" /\ todo # <<>> /\ todo' = Tail(todo)
  BY <1>1, ExpectMatchKeeps
<1>3. Asked' = Asked /\ Landing(call') = Landing(call)
  BY <1>1 DEF Asked
<1>4. StackTyped'
  <2>1. Flow(Before(Asked), After, todo', Landing(call))
    BY <1>2, StackFacts DEF Fits
  <2> QED BY <1>3, <2>1 DEF StackTyped
<1>5. HereTyped'
  <2> SUFFICES ASSUME Trusted'
               PROVE  got'.prompt = dev' /\ here' \in Below
    BY <1>2, <1>3 DEF HereTyped, Below
  <2>1. Trusted
    BY <1>2 DEF Trusted
  <2>2. /\ frame.out = "none" /\ rx[1].prompt = dev
        /\ dev \in frame.pats => <<dev, rx[1].out, typed>> \in Below
    BY <1>2, <2>1 DEF ModeInv, ExchangeTyped
  <2>3. Head(rx) = rx[1] /\ rx[1] \in Reply
    BY <1>2, TypeFacts DEF BaseTypeOK
  <2>4. got' = [Head(rx) EXCEPT !.out = IF frame.out = "none" THEN Head(rx).out
                                        ELSE frame.out]
    BY DEF ExpectMatch
  <2>5. got'.out = rx[1].out
    BY <2>2, <2>3, <2>4 DEF Reply
  <2> QED BY <1>2, <2>2, <2>5 DEF here
<1>6. Located' /\ ExchangeTyped'
  BY <1>2 DEF ModeInv, Located, ExchangeTyped
<1> QED BY <1>4, <1>5, <1>6 DEF ModeInv

(* A prompt that is not waited for was all there was.                      *)
LEMMA MoreMode ==
  ASSUME IInv, ModeInv, ExpectMore, Own
  PROVE  ModeInv'
<1>1. SessionInv(Ops, Lines) /\ ConversationInStep /\ call' = call
  BY TypeFacts DEF Own
<1>2. /\ SessionInv(Ops, Lines)' /\ Waiting /\ Waiting'
      /\ link = "open" /\ ~lost => inq' = <<>> /\ rx' = <<>>
      /\ UNCHANGED <<link, dev, typed, inq, exc, got, lost>>
      /\ todo # <<>> /\ todo' # <<>> /\ Tail(todo') = Tail(todo)
  BY <1>1, ExpectMoreKeeps
<1>3. frame'.op = "wait" /\ todo' \in Seq(Frame(Ops, Lines))
  BY <1>2 DEF Waiting, Running, SessionInv, BaseTypeOK
<1>4. StackTyped'
  BY <1>1, <1>2, <1>3, WaitStep
<1>5. HereTyped' /\ Located' /\ ExchangeTyped'
  BY <1>2 DEF ModeInv, HereTyped, Located, ExchangeTyped, Trusted
<1> QED BY <1>4, <1>5 DEF ModeInv

(* The exchanges.                                                          *)
LEMMA ExchangeMode ==
  ASSUME IInv, ModeInv, Exchange
  PROVE  ModeInv'
<1>1. SessionInv(Ops, Lines) /\ call' = call /\ Own
  BY TypeFacts DEF Exchange, Own
<1>2. CASE OpenFails
  <2>1. /\ todo # <<>> /\ todo' = Tail(todo) /\ ~Waiting' /\ exc' # "none"
        /\ link' \in {"fresh", "half"} /\ got' = got
    BY <1>1, <1>2, OpenFailsKeeps DEF OpenFails
  <2> QED BY <1>1, <2>1, RaiseStep
<1>3. CASE SendFails
  <2>1. /\ todo # <<>> /\ todo' = Tail(todo) /\ ~Waiting /\ ~Waiting' /\ exc' # "none"
        /\ link' = link /\ lost' = lost /\ dev' = dev /\ got' = got
    BY <1>1, <1>3, SendFailsKeeps DEF wire
  <2> QED BY <1>1, <2>1, RaiseStep
<1>4. CASE ExpectClosed
  <2>1. /\ todo # <<>> /\ todo' = Tail(todo) /\ ~Waiting' /\ exc' # "none"
        /\ link' = "dead" /\ got' = got
    BY <1>1, <1>4, ExpectClosedKeeps DEF wire
  <2> QED BY <1>1, <2>1, RaiseStep
<1>5. CASE ExpectTimeout
  <2>1. /\ todo # <<>> /\ todo' = Tail(todo) /\ ~Waiting' /\ exc' # "none"
        /\ link' = link /\ dev' = dev /\ lost' /\ got' = got
    BY <1>1, <1>5, ExpectTimeoutKeeps
  <2> QED BY <1>1, <2>1, RaiseStep
<1> QED BY <1>1, <1>2, <1>3, <1>4, <1>5, OpenMode, SendMode, MatchMode, MoreMode
        DEF Exchange, Expect

(* Counting a run changes nothing the call asked for.                      *)
LEMMA CallCounted ==
  ASSUME IInv, call' = call \/ call' = [call EXCEPT !.runs = call.runs + 1]
  PROVE  /\ Asked' = Asked /\ Landing(call') = Landing(call)
         /\ call'.op = call.op /\ call'.mode = call.mode
         /\ call'.resent = call.resent /\ call'.restarts = call.restarts
         /\ call'.ready = call.ready
<1>1. call \in CallRecord
  BY TypeFacts
<1>2. /\ call'.op = call.op /\ call'.mode = call.mode
      /\ call'.resent = call.resent /\ call'.restarts = call.restarts
      /\ call'.ready = call.ready
  BY <1>1 DEF CallRecord
<1> QED BY <1>2 DEF Asked, Landing

(* The appliance and the network leave the client's stack alone.           *)
LEMMA StackStays ==
  ASSUME IInv, ModeInv, UNCHANGED <<todo, exc, got>>,
         call' = call \/ call' = [call EXCEPT !.runs = call.runs + 1]
  PROVE  /\ StackTyped' /\ Below' = Below /\ Asked' = Asked
         /\ (Waiting' <=> Waiting) /\ (todo # <<>> => frame' = frame)
         /\ Needs(Asked, todo, Landing(call))' = Needs(Asked, todo, Landing(call))
<1>1. Asked' = Asked /\ Landing(call') = Landing(call)
  BY CallCounted
<1> QED BY <1>1 DEF ModeInv, StackTyped, Below, Waiting, Running, frame

(* What a line does to the appliance.                                      *)
LEMMA EffectsLead ==
  ASSUME NEW mode \in Probed \cup {"password"}, NEW line,
         NEW e, e \in Effects(mode, line) \/ e = Unknown(mode)
  PROVE  /\ e.prompt \in Probed \cup {"password"} /\ e \in Effect
         /\ line = "configure terminal" => e.prompt \in {"config", "shell"} \/ e.out = "error"
         /\ line = "_shell" => e.prompt = "shell" \/ e.out = "error"
<1>1. /\ \A p : \A r \in Stay(p) : r = To(p, "none")
      /\ \A p : \A r \in Refuse(p) : r = Unknown(p)
      /\ \A p : \A r \in Show(p) : r.prompt = p
      /\ \A p : To(p, "none").prompt = p
      /\ \A p : Unknown(p).prompt = p /\ (p # "shell" => Unknown(p).out = "error")
  BY DEF Stay, Refuse, Show, To, Unknown
<1>2. mode \in Prompts
  BY DEF Probed, AnyPrompt, Prompts
<1>3. e \in Effect
  BY <1>2, EffectsTyped, EffectParts
<1> DEFINE Good(r) ==
      /\ r.prompt \in Probed \cup {"password"}
      /\ line = "configure terminal" => r.prompt \in {"config", "shell"} \/ r.out = "error"
      /\ line = "_shell" => r.prompt = "shell" \/ r.out = "error"
<1>4. Good(Unknown(mode))
  BY <1>1
<1>5. \A r \in FromShell(line) : Good(r)
  BY <1>1 DEF FromShell, Probed, AnyPrompt, CliPath, Cmd
<1>6. \A r \in FromNormal(line) : Good(r)
  BY <1>1 DEF FromNormal, Probed, AnyPrompt, Paging, Cmd
<1>7. \A r \in FromEnable(line) : Good(r)
  BY <1>1 DEF FromEnable, Probed, AnyPrompt, Paging, Cmd
<1>8. \A r \in FromConfig(line) : Good(r)
  BY <1>1 DEF FromConfig, Probed, AnyPrompt, Paging, Cmd
<1>9. \A r \in Refuse("normal") : Good(r)
  BY <1>1 DEF Probed, AnyPrompt
<1> HIDE DEF Good
<1>10. \A r \in Effects(mode, line) : Good(r)
  BY <1>5, <1>6, <1>7, <1>8, <1>9 DEF Effects, Probed, AnyPrompt
<1>11. Good(e)
  BY <1>4, <1>10
<1> QED BY <1>3, <1>11 DEF Good

(* An answer leaves the appliance where its line leads.                    *)
LEMMA AnswerMode ==
  ASSUME IInv, ModeInv, Answer
  PROVE  ModeInv'
<1>1. /\ link = "open" /\ link' = link /\ lost' = lost /\ UNCHANGED <<todo, exc, got>>
      /\ inq # <<>> /\ inq' = Tail(inq) /\ Head(inq).line # Help /\ typed' = FALSE
      /\ call' = call \/ call' = [call EXCEPT !.runs = call.runs + 1]
  BY DEF Answer, DeviceAnswers
<1>2. /\ StackTyped' /\ Below' = Below /\ Asked' = Asked
      /\ (Waiting' <=> Waiting) /\ (todo # <<>> => frame' = frame)
      /\ Needs(Asked, todo, Landing(call))' = Needs(Asked, todo, Landing(call))
  BY <1>1, StackStays
<1>3. PICK e \in (IF typed THEN {Unknown(dev)} ELSE Effects(dev, Head(inq).line)) :
        /\ dev' = e.prompt
        /\ rx' = Append(rx, [prompt |-> e.prompt, out |-> e.out, due |-> Head(inq).due])
  BY DEF Answer, DeviceAnswers
<1>4. dev \in Probed \cup {"password"}
  BY <1>1 DEF ModeInv, Located
<1>5. /\ e.prompt \in Probed \cup {"password"} /\ e \in Effect
      /\ Head(inq).line = "configure terminal" =>
           e.prompt \in {"config", "shell"} \/ e.out = "error"
      /\ Head(inq).line = "_shell" => e.prompt = "shell" \/ e.out = "error"
  BY <1>3, <1>4, EffectsLead
<1>6. Located'
  BY <1>3, <1>5 DEF Located
<1>7. ASSUME Trusted
      PROVE  /\ Waiting /\ inq' = <<>> /\ rx'[1].prompt = dev' /\ rx'[1].out = e.out
             /\ frame.out = "none"
             /\ dev' \in frame.pats => <<dev', e.out, typed'>> \in Below
  <2>1. Waiting /\ rx = <<>> /\ inq' = <<>> /\ Head(inq) = inq[1]
    BY <1>1, <1>7, InStepFacts
  <2>2. rx' = <<[prompt |-> e.prompt, out |-> e.out, due |-> Head(inq).due]>>
    BY <1>3, <2>1
  <2>3. Reached(inq[1].line, frame.pats) \subseteq Below /\ frame.out = "none"
    BY <1>1, <1>7, <2>1 DEF ModeInv, ExchangeTyped
  <2>4. dev' \in frame.pats => <<dev', e.out, typed'>> \in Reached(inq[1].line, frame.pats)
    <3>1. <<dev', e.out, typed'>> \in Places
      BY <1>1, <1>3, <1>5 DEF Effect, Places
    <3> QED BY <1>1, <1>3, <1>5, <2>1, <3>1 DEF Reached
  <2> QED BY <1>3, <2>1, <2>2, <2>3, <2>4
<1>8. Trusted' = Trusted /\ (Waiting => todo # <<>>)
  BY <1>1 DEF Trusted, Waiting, Running
<1>9. ExchangeTyped'
  BY <1>2, <1>7, <1>8 DEF ExchangeTyped
<1>10. HereTyped'
  BY <1>2, <1>7, <1>8 DEF HereTyped
<1> QED BY <1>2, <1>6, <1>9, <1>10 DEF ModeInv

(* Help leaves it where it is.                                             *)
LEMMA AnswerHelpMode ==
  ASSUME IInv, ModeInv, AnswerHelp
  PROVE  ModeInv'
<1>1. /\ link = "open" /\ link' = link /\ lost' = lost /\ dev' = dev
      /\ UNCHANGED <<todo, exc, got>> /\ inq # <<>> /\ inq' = Tail(inq)
      /\ call' = call /\ Head(inq).line = Help /\ typed' = TRUE
      /\ \/ rx' = rx
         \/ \E o \in {"text", "error"} :
              rx' = Append(rx, [prompt |-> dev, out |-> o, due |-> Head(inq).due])
  BY DEF AnswerHelp
<1>2. /\ StackTyped' /\ Below' = Below /\ Asked' = Asked
      /\ (Waiting' <=> Waiting) /\ (todo # <<>> => frame' = frame)
      /\ Needs(Asked, todo, Landing(call))' = Needs(Asked, todo, Landing(call))
  BY <1>1, StackStays
<1>3. ASSUME Trusted
      PROVE  /\ Waiting /\ inq' = <<>>
             /\ rx' # <<>> => /\ rx'[1].prompt = dev /\ frame.out = "none"
                              /\ dev \in frame.pats => <<dev, rx'[1].out, typed'>> \in Below
  <2>1. Waiting /\ rx = <<>> /\ inq' = <<>> /\ Head(inq) = inq[1]
    BY <1>1, <1>3, InStepFacts
  <2>2. Reached(Help, frame.pats) \subseteq Below /\ frame.out = "none"
    BY <1>1, <1>3, <2>1 DEF ModeInv, ExchangeTyped
  <2>3. Reached(Help, frame.pats) = {q \in Places : q[1] \in frame.pats}
    BY DEF Reached, Help
  <2>4. ASSUME rx' # <<>>
        PROVE  rx'[1].prompt = dev /\ rx'[1].out \in {"text", "error"}
    <3>1. PICK o \in {"text", "error"} :
            rx' = Append(rx, [prompt |-> dev, out |-> o, due |-> Head(inq).due])
      BY <1>1, <2>1, <2>4
    <3> DEFINE r == [prompt |-> dev, out |-> o, due |-> Head(inq).due]
    <3>2. rx' = <<r>> /\ r.prompt = dev /\ r.out = o
      BY <2>1, <3>1
    <3> HIDE DEF r
    <3> QED BY <3>1, <3>2
  <2>5. ASSUME rx' # <<>>, dev \in frame.pats
        PROVE  <<dev, rx'[1].out, typed'>> \in {q \in Places : q[1] \in frame.pats}
    BY <1>1, <2>4, <2>5, TypeFacts DEF Places, Outs, BaseTypeOK
  <2> QED BY <2>1, <2>2, <2>3, <2>4, <2>5
<1>4. Trusted' = Trusted /\ (Waiting => todo # <<>>)
  BY <1>1 DEF Trusted, Waiting, Running
<1>5. ExchangeTyped'
  BY <1>1, <1>2, <1>3, <1>4 DEF ExchangeTyped
<1>6. HereTyped' /\ Located'
  BY <1>1, <1>2, <1>3, <1>4 DEF HereTyped, ModeInv, Located
<1> QED BY <1>2, <1>5, <1>6 DEF ModeInv

(* What the appliance and the network do.                                  *)
LEMMA EnvironmentMode ==
  ASSUME IInv, ModeInv, Environment
  PROVE  ModeInv'
<1>1. CASE Crash \/ (Drop /\ Own)
  <2>1. /\ ~Trusted' /\ UNCHANGED <<todo, exc, got>> /\ call' = call
        /\ link' = "open" => dev' = "shell"
    BY <1>1 DEF Crash, Drop, Own, Trusted
  <2>2. StackTyped'
    BY <2>1, StackStays
  <2> QED BY <2>1, <2>2 DEF ModeInv, HereTyped, Located, ExchangeTyped, Probed
<1> QED BY <1>1, AnswerMode, AnswerHelpMode DEF Environment

(* A step between two exchanges neither waits nor begins to.               *)
LEMMA LocalWaits ==
  ASSUME IInv, NestInv, Local
  PROVE  /\ todo # <<>> /\ exc = "none" /\ ~Waiting /\ ~Waiting'
         /\ UNCHANGED <<wire, got, call>>
<1>1. /\ todo # <<>> /\ exc = "none" /\ frame.op \notin {"open", "wait", "send"}
      /\ UNCHANGED <<wire, got, call>>
  BY LocalMoves
<1>2. ~Waiting
  BY <1>1 DEF Waiting, Running
<1>3. ASSUME exc' # "none"
      PROVE  ~Waiting'
  BY <1>3 DEF Waiting, Running
<1>4. ASSUME NEW prog, Expansion(frame, prog), todo' = prog \o Tail(todo)
      PROVE  ~Waiting'
  <2>1. prog \in Seq(Instr)
    <3>1. Offspring(frame) \subseteq Instr /\ prog \in Seq(Offspring(frame))
      BY <1>4 DEF Offspring, Expansion
    <3> QED BY <3>1, SeqMonotonic
  <2>2. todo' \in Seq(Instr)
    BY <1>1, <1>4, <2>1, TypeFacts, ConcatProperties
  <2> QED BY <2>2, InnerShape DEF Instr
<1> QED BY <1>1, <1>2, <1>3, <1>4, LocalMoves

(* The appliance is somewhere.                                             *)
LEMMA HereInPlaces ==
  ASSUME IInv
  PROVE  here \in Places
  BY TypeFacts DEF here, Places, BaseTypeOK

(* The branch of enter_mode_normal, _enable and _config.                   *)
LEMMA LeaveForMode ==
  ASSUME IInv, NestInv, ModeInv, Local,
         NEW op \in {"normal_from", "enable_from", "config_from"}, NEW to, NEW mode,
         After[Do(op)] = At({mode}), LeaveFor(op, to),
         Leads(Asked, to, mode)
  PROVE  ModeInv'
<1>1. /\ todo # <<>> /\ exc = "none" /\ ~Waiting /\ ~Waiting'
      /\ UNCHANGED <<wire, got, call>>
  BY LocalWaits
<1>2. /\ frame.op = op /\ frame \in Frame(Ops, Lines) /\ After[frame] \subseteq Below
  BY <1>1, StackFacts DEF LeaveFor, Running
<1>3. Before(Asked)[frame] = At(Probed) /\ After[frame] = At({mode})
  <2>1. Do(op) \in Frame(Ops, Lines) /\ Do(op).op = op
    BY DoAssertions DEF Do, Ops
  <2>2. Before(Asked)[frame] = At(Probed)
    BY <1>2 DEF Before
  <2>3. After[frame] = After[Do(op)]
    BY <1>2, <2>1 DEF After
  <2> QED BY <2>2, <2>3
<1>4. CASE Raise("CLINotRunning")
  <2>1. exc' # "none" /\ todo' = Tail(todo)
    BY <1>4 DEF Raise
  <2> QED BY <1>1, <2>1, RaiseStep DEF wire
<1>5. CASE got.prompt # "shell" /\ Become(to[got.prompt]) /\ UNCHANGED exc
  <2> DEFINE prog == to[got.prompt]
  <2>1. got.prompt \in Prompts /\ here \in Places
    BY TypeFacts, HereInPlaces
  <2>2. prog = <<>> => Fits(Asked, prog, At({mode})) /\ Needs(Asked, prog, At({mode})) = At({mode})
    BY FitsNone
  <2>3. Fits(Asked, prog, At({mode}))
    BY <2>1, <2>2 DEF Leads
  <2>4. got.prompt = dev /\ here \in Before(Asked)[frame]
          => here \in Needs(Asked, prog, At({mode}))
    <3> SUFFICES ASSUME got.prompt = dev, here \in At(Probed)
                 PROVE  here \in Needs(Asked, prog, At({mode}))
      BY <1>3
    <3>1. dev \in Probed /\ dev \in AnyPrompt
      BY <1>5 DEF At, here, Probed
    <3>2. CASE prog = <<>> /\ (got.prompt \in AnyPrompt => got.prompt = mode)
      <4>1. here \in At({mode})
        BY <2>1, <3>1, <3>2 DEF At, here
      <4> QED BY <2>2, <3>2, <4>1
    <3> QED BY <2>1, <3>2 DEF Leads
  <2>5. todo' = prog \o Tail(todo) /\ exc' = exc
    BY <1>5 DEF Become
  <2>6. At({mode}) \subseteq Below
    BY <1>2, <1>3
  <2> HIDE DEF prog
  <2> QED BY <1>1, <2>3, <2>4, <2>5, <2>6, BecomeStep
<1> QED BY <1>4, <1>5 DEF LeaveFor

(* Launching the CLI.                                                      *)
LEMMA LaunchMode ==
  ASSUME IInv, NestInv, ModeInv, Local, StartCli \/ RunCliFromShell
  PROVE  ModeInv'
<1>1. /\ todo # <<>> /\ exc = "none" /\ ~Waiting /\ ~Waiting'
      /\ UNCHANGED <<wire, got, call>> /\ here \in Places
  BY LocalWaits, HereInPlaces
<1>2. frame \in Frame(Ops, Lines) /\ After[frame] \subseteq Below
  BY <1>1, StackFacts
<1>3. At({"normal"}) \subseteq Below
  <2>1. frame.op \in {"start_cli", "run_cli"}
    BY DEF StartCli, RunCliFromShell, Running
  <2> QED BY <1>2, <2>1 DEF After
<1>4. ASSUME NEW prog, Fits(Asked, prog, At({"normal"})),
             Needs(Asked, prog, At({"normal"})) = Places, Become(prog), UNCHANGED exc
      PROVE  ModeInv'
  BY <1>1, <1>3, <1>4, BecomeStep DEF Become
<1>5. CASE StartCli
  <2> DEFINE r == Do("run_cli")
             prog == <<Probe, r>>
  <2>1. r \in Frame(Ops, Lines) /\ Before(Asked)[r] = Places /\ After[r] = At({"normal"})
    BY DoAssertions DEF Ops
  <2>2. Become(prog) /\ UNCHANGED exc
    BY <1>5 DEF StartCli
  <2> HIDE DEF r
  <2>3. At(Probed) \subseteq Places
    BY DEF At
  <2>4. Fits(Asked, prog, At({"normal"})) /\ Needs(Asked, prog, At({"normal"})) = Places
    BY <2>1, <2>3, ProbeAssertions, FitsTwo
  <2> QED BY <1>4, <2>2, <2>4
<1>6. CASE RunCliFromShell
  <2> DEFINE c == IF got.prompt = "shell" THEN <<Send(CliPath, {"normal"})>> ELSE <<>>
             e == EnterModeNormal
             s == <<Send(Paging, {"normal"})>>
             prog == (c \o e) \o s
  <2>1. Become(prog) /\ UNCHANGED exc
    BY <1>6 DEF RunCliFromShell
  <2>2. /\ {CliPath, Paging} \subseteq Lines \ {Cmd, "configure terminal", "_shell", Help}
        /\ {"normal"} \in SUBSET Prompts /\ At({"normal"}) \subseteq Places
    BY DEF CliPath, Paging, Lines, Cmd, Help, Prompts, At
  <2>3. Fits(Asked, s, At({"normal"})) /\ Needs(Asked, s, At({"normal"})) = Places
    BY <2>2, SendFits
  <2>4. Fits(Asked, e, Places) /\ Needs(Asked, e, Places) = Places
    <3>1. After[Do("normal_from")] \subseteq Places
      BY <2>2, DoAssertions
    <3> QED BY <3>1, ModeFits DEF EnterModeNormal
  <2>5. Fits(Asked, c, Places) /\ Needs(Asked, c, Places) = Places
    <3> DEFINE x == <<Send(CliPath, {"normal"})>>
    <3>0. /\ CliPath \in Lines \ {Cmd, "configure terminal", "_shell", Help}
          /\ {"normal"} \in SUBSET Prompts /\ At({"normal"}) \subseteq Places
      BY <2>2
    <3> DEFINE P == Places
    <3>3. At({"normal"}) \subseteq P
      BY <3>0
    <3> HIDE DEF P
    <3>1. Fits(Asked, x, P) /\ Needs(Asked, x, P) = Places
      BY <3>0, <3>3, SendFits
    <3>4. c = x \/ c = <<>>
      OBVIOUS
    <3> HIDE DEF x, c
    <3>2. Fits(Asked, <<>>, Places) /\ Needs(Asked, <<>>, Places) = Places
      BY FitsNone
    <3> QED BY <3>1, <3>2, <3>4 DEF P
  <2> HIDE DEF c, e, s
  <2>6. Fits(Asked, c \o e, Places) /\ Needs(Asked, c \o e, Places) = Places
    BY <2>4, <2>5, FitsConcat
  <2>7. Fits(Asked, prog, At({"normal"})) /\ Needs(Asked, prog, At({"normal"})) = Places
    BY <2>3, <2>6, FitsConcat
  <2> QED BY <1>4, <2>1, <2>7
<1> QED BY <1>5, <1>6

(* The password prompt, and the ways into the shell.                       *)
LEMMA ShellMode ==
  ASSUME IInv, NestInv, ModeInv, Local, Password \/ EnterShell \/ ShellFrom
  PROVE  ModeInv'
<1>1. /\ todo # <<>> /\ exc = "none" /\ ~Waiting /\ ~Waiting'
      /\ UNCHANGED <<wire, got, call>> /\ here \in Places
  BY LocalWaits, HereInPlaces
<1>2. frame \in Frame(Ops, Lines) /\ After[frame] \subseteq Below
  BY <1>1, StackFacts
<1>3. \A B : Fits(Asked, <<>>, B) /\ Needs(Asked, <<>>, B) = B
  BY FitsNone
<1>4. CASE Password
  <2>1. frame.op = "password"
    BY <1>4 DEF Password, Running
  <2>2. After[frame] = At({"enable"}) /\ Before(Asked)[frame] = At({"enable", "password"})
    BY <1>2, <2>1 DEF After, Before
  <2>3. CASE Raise("AttributeError")
    <3>1. exc' # "none" /\ todo' = Tail(todo)
      BY <2>3 DEF Raise
    <3> QED BY <1>1, <3>1, RaiseStep DEF wire
  <2>4. CASE got.prompt # "password" /\ Become(<<>>) /\ UNCHANGED exc
    <3>1. got.prompt = dev /\ here \in At({"enable", "password"}) => here \in At({"enable"})
      BY <2>4 DEF At, here
    <3>2. At({"enable"}) \subseteq Below /\ exc' = exc /\ todo' = <<>> \o Tail(todo)
      BY <1>2, <2>2, <2>4 DEF Become
    <3>3. /\ Fits(Asked, <<>>, At({"enable"}))
          /\ got.prompt = dev /\ here \in Before(Asked)[frame]
               => here \in Needs(Asked, <<>>, At({"enable"}))
      BY <1>3, <2>2, <3>1
    <3> QED BY <1>1, <3>2, <3>3, BecomeStep
  <2> QED BY <1>4, <2>3, <2>4 DEF Password
<1>5. CASE EnterShell
  <2>1. frame.op = "enter_shell" /\ exc' = exc /\ todo' = <<>> \o Tail(todo)
    BY <1>5 DEF EnterShell, Running, Become
  <2>2. Places \subseteq Below
    BY <1>2, <2>1 DEF After
  <2>3. Fits(Asked, <<>>, Places) /\ here \in Needs(Asked, <<>>, Places)
    BY <1>1, <1>3
  <2> QED BY <1>1, <2>1, <2>2, <2>3, BecomeStep
<1>6. CASE ShellFrom
  <2> DEFINE c == <<ShellCommand>>
             e == EnterModeEnable
  <2>1. frame.op = "shell_from" /\ exc' = exc
    BY <1>6 DEF ShellFrom, Running
  <2>2. /\ got.prompt = "shell"  => todo' = <<>> \o Tail(todo)
        /\ got.prompt = "normal" => todo' = (e \o c) \o Tail(todo)
        /\ got.prompt \notin {"shell", "normal"} => todo' = c \o Tail(todo)
    BY <1>6 DEF ShellFrom, Become
  <2>3. At({"shell"}) \subseteq Below
    BY <1>2, <2>1 DEF After
  <2>4. Fits(Asked, c, At({"shell"})) /\ Needs(Asked, c, At({"shell"})) = Places
    BY ShellCommandAssertions, FitsOne
  <2>5. Fits(Asked, e, Places) /\ Needs(Asked, e, Places) = Places
    <3>1. After[Do("enable_from")] \subseteq Places
      BY DoAssertions DEF At
    <3> QED BY <3>1, ModeFits DEF EnterModeEnable
  <2> HIDE DEF c, e
  <2>6. Fits(Asked, e \o c, At({"shell"})) /\ Needs(Asked, e \o c, At({"shell"})) = Places
    BY <2>4, <2>5, FitsConcat
  <2>7. CASE got.prompt = "shell"
    <3>1. got.prompt = dev /\ here \in Before(Asked)[frame] => here \in At({"shell"})
      <4>1. Before(Asked)[frame] = At(Probed)
        BY <1>2, <2>1 DEF Before
      <4> QED BY <2>7, <4>1 DEF At, here
    <3>2. /\ Fits(Asked, <<>>, At({"shell"}))
          /\ got.prompt = dev /\ here \in Before(Asked)[frame]
               => here \in Needs(Asked, <<>>, At({"shell"}))
      BY <1>3, <3>1
    <3> QED BY <1>1, <2>1, <2>2, <2>3, <2>7, <3>2, BecomeStep
  <2>8. CASE got.prompt = "normal"
    BY <1>1, <2>1, <2>2, <2>3, <2>6, <2>8, BecomeStep
  <2>9. CASE got.prompt \notin {"shell", "normal"}
    BY <1>1, <2>1, <2>2, <2>3, <2>4, <2>9, BecomeStep
  <2> QED BY <2>7, <2>8, <2>9
<1> QED BY <1>4, <1>5, <1>6

(* exec_command, up to its command.                                        *)
LEMMA ExecMode ==
  ASSUME IInv, NestInv, ModeInv, Local, ExecCommand \/ ExecSend
  PROVE  ModeInv'
<1>1. /\ todo # <<>> /\ exc = "none" /\ ~Waiting /\ ~Waiting'
      /\ UNCHANGED <<wire, got, call>> /\ here \in Places
  BY LocalWaits, HereInPlaces
<1>2. /\ frame \in Frame(Ops, Lines) /\ After[frame] \subseteq Below
      /\ frame.pats \in SUBSET Prompts /\ frame.line \in Lines
      /\ prompt \in SUBSET Prompts /\ defMode \in Modes \cup {"none"}
  BY <1>1, StackFacts, TypeFacts
<1>3. CASE ExecCommand
  <2> DEFINE mode == Resolved(frame.mode)
             s == [frame EXCEPT !.op = "exec_send"]
             q == <<s>>
             p == IF mode = "none" THEN <<>> ELSE EnterMode(mode, TRUE)
  <2>1. frame.op = "exec" /\ exc' = exc /\ todo' = (p \o q) \o Tail(todo)
    BY <1>3 DEF ExecCommand, Running, Become
  <2>2. /\ s \in Frame(Ops, Lines) /\ s.op = "exec_send" /\ s.line = frame.line
        /\ s.pats = frame.pats /\ s.flag = frame.flag
    BY <1>2 DEF Frame, Ops
  <2>3. mode \in Modes \cup {"none", "undef"} /\ TRUE \in BOOLEAN
    BY <1>2 DEF Resolved, Frame
  <2>4. frame.line = Cmd => mode = Asked[1]
    <3>1. frame.line = Cmd => Rank(frame) = 8
      BY <2>1 DEF Rank
    <3> QED BY <1>1, <3>1 DEF NestInv, Asked
  <2>5. /\ At({mode}) \subseteq SentFrom(Asked, frame.line)
        /\ mode = "none" => Before(Asked)[frame] = SentFrom(Asked, frame.line)
    BY <1>2, <2>1, <2>3, <2>4, ExecAssertions DEF At, SentFrom, Modes
  <2>6. Passed(frame) \subseteq Below
    BY <1>2, <2>1, ExecAssertions
  <2>7. After[s] = Passed(frame) /\ Before(Asked)[s] = SentFrom(Asked, frame.line)
    BY <2>2 DEF After, Before, Passed, Judged
  <2>8. EnterMode(mode, TRUE) = p \/ (p = <<>> /\ mode = "none")
    OBVIOUS
  <2> HIDE DEF mode, s
  <2>9. Fits(Asked, q, Passed(frame)) /\ Needs(Asked, q, Passed(frame)) = SentFrom(Asked, frame.line)
    BY <2>2, <2>7, FitsOne
  <2> HIDE DEF q, p
  <2>10. /\ Fits(Asked, p, SentFrom(Asked, frame.line))
         /\ Before(Asked)[frame] \subseteq Needs(Asked, p, SentFrom(Asked, frame.line))
    <3>1. CASE EnterMode(mode, TRUE) = p
      <4>1. Before(Asked)[frame] \subseteq Places
        BY <1>2, <2>1 DEF Before, SentFrom
      <4> QED BY <2>3, <2>5, <3>1, <4>1, EnterModeFits
    <3>2. CASE p = <<>> /\ mode = "none"
      BY <2>5, <3>2, FitsNone
    <3> QED BY <2>8, <3>1, <3>2
  <2>11. /\ Fits(Asked, p \o q, Passed(frame))
         /\ Before(Asked)[frame] \subseteq Needs(Asked, p \o q, Passed(frame))
    BY <2>9, <2>10, FitsConcat
  <2> QED BY <1>1, <2>1, <2>6, <2>11, BecomeStep
<1>4. CASE ExecSend
  <2> DEFINE pats == IF frame.pats = {} THEN prompt ELSE frame.pats
             s == Send(frame.line, pats)
             e == [s EXCEPT !.op = "except_exec"]
             c == [frame EXCEPT !.op = "check"]
             prog == <<s, e, c>>
  <2>1. frame.op = "exec_send" /\ exc' = exc /\ todo' = prog \o Tail(todo)
    BY <1>4 DEF ExecSend, Running, Become
  <2>2. pats \in SUBSET Prompts /\ (frame.pats # {} => pats = frame.pats)
    BY <1>2
  <2>3. Reached(frame.line, pats) \subseteq Judged(frame)
    BY <2>2 DEF Judged, Reached, At
  <2> HIDE DEF pats
  <2>4. s \in Frame(Ops, Lines) /\ s.line = frame.line /\ s.pats = pats
        /\ Before(Asked)[s] = SentFrom(Asked, frame.line)
        /\ After[s] = Reached(frame.line, pats)
    <3>1. s.line = frame.line /\ s.pats = pats
      BY DEF Send, Do
    <3> QED BY <1>2, <2>2, <3>1, SendAssertions
  <2> HIDE DEF s
  <2>5. e \in Frame(Ops, Lines) /\ e.op = "except_exec" /\ e.line = frame.line /\ e.pats = pats
    BY <2>4 DEF Frame, Ops
  <2>6. c \in Frame(Ops, Lines) /\ c.op = "check" /\ c.line = frame.line
        /\ c.pats = frame.pats /\ c.flag = frame.flag
    BY <1>2 DEF Frame, Ops
  <2> HIDE DEF e, c
  <2>7. /\ Before(Asked)[e] = Reached(frame.line, pats) /\ After[e] = Reached(frame.line, pats)
        /\ Before(Asked)[c] = Judged(frame) /\ After[c] = Passed(frame)
    BY <2>5, <2>6 DEF Before, After, Passed, Judged
  <2>8. /\ Fits(Asked, prog, Passed(frame))
        /\ Needs(Asked, prog, Passed(frame)) = SentFrom(Asked, frame.line)
    BY <2>3, <2>4, <2>5, <2>6, <2>7, FitsThree
  <2>9. Passed(frame) \subseteq Below /\ Before(Asked)[frame] = SentFrom(Asked, frame.line)
    BY <1>2, <2>1 DEF After, Before
  <2> HIDE DEF prog
  <2> QED BY <1>1, <2>1, <2>8, <2>9, BecomeStep
<1> QED BY <1>3, <1>4

(* What exec_command makes of the output, and the end of a try block.      *)
LEMMA CheckMode ==
  ASSUME IInv, NestInv, ModeInv, Local, CheckOutput \/ LeaveTry
  PROVE  ModeInv'
<1>1. /\ todo # <<>> /\ exc = "none" /\ ~Waiting /\ ~Waiting'
      /\ UNCHANGED <<wire, got, call>> /\ here \in Places
  BY LocalWaits, HereInPlaces
<1>2. /\ frame \in Frame(Ops, Lines) /\ After[frame] \subseteq Below
  BY <1>1, StackFacts
<1>3. \A B : Fits(Asked, <<>>, B) /\ Needs(Asked, <<>>, B) = B
  BY FitsNone
<1>4. ASSUME Become(<<>>), UNCHANGED exc, here \in Before(Asked)[frame] => here \in After[frame]
      PROVE  ModeInv'
  <2>1. exc' = exc /\ todo' = <<>> \o Tail(todo)
    BY <1>4 DEF Become
  <2>2. /\ Fits(Asked, <<>>, After[frame])
        /\ got.prompt = dev /\ here \in Before(Asked)[frame]
             => here \in Needs(Asked, <<>>, After[frame])
    BY <1>3, <1>4
  <2> QED BY <1>1, <1>2, <2>1, <2>2, BecomeStep
<1>5. CASE CheckOutput
  <2>1. frame.op = "check"
    BY <1>5 DEF CheckOutput, Running
  <2>2. Before(Asked)[frame] = Judged(frame) /\ After[frame] = Passed(frame)
    BY <1>2, <2>1 DEF Before, After
  <2>3. ASSUME got.out = "error" => frame.flag, here \in Judged(frame)
        PROVE  here \in Passed(frame)
    BY <2>3 DEF here, Passed
  <2>4. CASE Become(<<>>) /\ UNCHANGED exc /\ (got.out = "error" => frame.flag)
    BY <1>4, <2>2, <2>3, <2>4
  <2>5. CASE Become(<<Probe, Do("cli_error")>>) /\ UNCHANGED exc
    <3> DEFINE x == Do("cli_error")
               prog == <<Probe, x>>
    <3>1. x \in Frame(Ops, Lines) /\ Before(Asked)[x] = Places /\ After[x] = {}
      BY DoAssertions DEF Ops
    <3>2. todo' = prog \o Tail(todo) /\ exc' = exc
      BY <2>5 DEF Become
    <3> HIDE DEF x
    <3>3. At(Probed) \subseteq Places
      BY DEF At
    <3>4. Fits(Asked, prog, {}) /\ Needs(Asked, prog, {}) = Places
      BY <3>1, <3>3, ProbeAssertions, FitsTwo
    <3> HIDE DEF prog
    <3>5. {} \subseteq Below
      OBVIOUS
    <3> QED BY <1>1, <3>2, <3>4, <3>5, BecomeStep
  <2>6. CASE Raise("UnexpectedOutput")
    <3>1. exc' # "none" /\ todo' = Tail(todo)
      BY <2>6 DEF Raise
    <3> QED BY <1>1, <3>1, RaiseStep DEF wire
  <2> QED BY <1>5, <2>4, <2>5, <2>6 DEF CheckOutput
<1>6. CASE LeaveTry
  <2>1. frame.op \in {"except_enter", "except_exec"} /\ Become(<<>>) /\ UNCHANGED exc
    BY <1>6 DEF LeaveTry, Running
  <2>2. Before(Asked)[frame] = After[frame]
    BY <1>2, <2>1 DEF Before, After
  <2> QED BY <1>4, <2>1, <2>2
<1> QED BY <1>5, <1>6

(* The steps between two exchanges.                                        *)
LEMMA LocalMode ==
  ASSUME IInv, NestInv, ModeInv, Local
  PROVE  ModeInv'
<1>1. /\ todo # <<>> /\ exc = "none" /\ ~Waiting /\ ~Waiting'
      /\ UNCHANGED <<wire, got, call>>
  BY LocalWaits
<1>2. ASSUME NEW e, e # "none", Raise(e)
      PROVE  ModeInv'
  <2>1. exc' # "none" /\ todo' = Tail(todo)
    BY <1>2 DEF Raise
  <2> QED BY <1>1, <2>1, RaiseStep DEF wire
<1>3. CASE LeaveFor("normal_from", ToNormal)
  <2>1. After[Do("normal_from")] = At({"normal"})
    BY DoAssertions
  <2>2. Leads(Asked, ToNormal, "normal")
    BY NormalLeads
  <2>3. "normal_from" \in {"normal_from", "enable_from", "config_from"}
    OBVIOUS
  <2> QED BY <1>3, <2>1, <2>2, <2>3, LeaveForMode
<1>4. CASE LeaveFor("enable_from", ToEnable)
  <2>1. After[Do("enable_from")] = At({"enable"})
    BY DoAssertions
  <2>2. Leads(Asked, ToEnable, "enable")
    BY EnableLeads
  <2>3. "enable_from" \in {"normal_from", "enable_from", "config_from"}
    OBVIOUS
  <2> QED BY <1>4, <2>1, <2>2, <2>3, LeaveForMode
<1>5. CASE LeaveFor("config_from", ToConfig)
  <2>1. After[Do("config_from")] = At({"config"})
    BY DoAssertions
  <2>2. Leads(Asked, ToConfig, "config")
    BY ConfigLeads
  <2>3. "config_from" \in {"normal_from", "enable_from", "config_from"}
    OBVIOUS
  <2> QED BY <1>5, <2>1, <2>2, <2>3, LeaveForMode
<1>6. CASE UnknownMode \/ RaiseCliError \/ DeleteLine
  BY <1>2, <1>6 DEF UnknownMode, RaiseCliError, DeleteLine
<1> QED BY <1>3, <1>4, <1>5, <1>6, LaunchMode, ShellMode, ExecMode, CheckMode DEF Local

(* Without a session only the stack matters.                               *)
LEMMA OffStep ==
  ASSUME NEW g, Asked' = g, link' # "open", Fits(g, todo', Landing(call)),
         Landing(call') = Landing(call)
  PROVE  ModeInv'
<1>1. StackTyped'
  BY DEF StackTyped, Fits
<1> QED BY <1>1 DEF ModeInv, HereTyped, Located, ExchangeTyped, Trusted

(* A handler that restarts the session goes on where its method needs it.  *)
LEMMA ExceptionsMode ==
  ASSUME IInv, ModeInv, Exceptions
  PROVE  ModeInv'
<1>1. /\ todo # <<>> /\ exc # "none" /\ call \in CallRecord
  BY TypeFacts DEF Exceptions, EnterModeRestarts, ExecRestarts, Unwind, Raising
<1>2. /\ frame \in Frame(Ops, Lines) /\ After[frame] \subseteq Below
      /\ Fits(Asked, Tail(todo), Landing(call))
  BY <1>1, StackFacts
<1> DEFINE start == Start(TRUE)
           t == Tail(todo)
<1>3. CASE EnterModeRestarts
  <2> DEFINE rest == EnterMode(frame.mode, FALSE)
  <2>1. /\ frame.op = "except_enter" /\ link' = "none"
        /\ todo' = (start \o rest) \o t
        /\ call' = [call EXCEPT !.restarts = @ + 1]
    BY <1>3 DEF EnterModeRestarts, EnterModeCatches, Restart, Become, CleanupHelper
  <2>2. frame.mode \in Modes \cup {"none", "undef"} /\ FALSE \in BOOLEAN /\ TRUE \in BOOLEAN
    BY <1>2 DEF Frame
  <2>3. At({frame.mode}) \subseteq Below
    BY <1>2, <2>1 DEF After
  <2>4. Fits(Asked, rest, Below) /\ Needs(Asked, rest, Below) = Places
    BY <2>2, <2>3, EnterModeFits
  <2>5. Fits(Asked, start, Places)
    <3>1. At({"normal"}) \subseteq Places
      BY DEF At
    <3> QED BY <2>2, <3>1, StartFits
  <2> HIDE DEF start, rest, t
  <2>6. Fits(Asked, start \o rest, Below)
    BY <2>4, <2>5, FitsConcat
  <2>7. Below = Needs(Asked, t, Landing(call)) /\ Fits(Asked, t, Landing(call))
    BY <1>2 DEF t, Below
  <2>8. Fits(Asked, todo', Landing(call))
    <3>1. Fits(Asked, (start \o rest) \o t, Landing(call))
      BY <2>6, <2>7, FitsConcat
    <3> QED BY <2>1, <3>1
  <2>9. Asked' = Asked /\ Landing(call') = Landing(call)
    BY <1>1, <2>1 DEF Asked, Landing, CallRecord
  <2> QED BY <2>1, <2>8, <2>9, OffStep
<1>4. CASE ExecRestarts
  <2> DEFINE s == Send(frame.line, frame.pats)
             rest == <<s>>
             h == <<call.mode, call.resent \/ frame.line = Cmd, call.ready>>
             C == Needs(h, t, Landing(call))
  <2>1. /\ frame.op = "except_exec" /\ link' = "none"
        /\ todo' = (start \o rest) \o t
        /\ call' = [call EXCEPT !.restarts = @ + 1, !.resent = @ \/ frame.line = Cmd]
    BY <1>4 DEF ExecRestarts, ExecCatches, Restart, Become, CleanupHelper
  <2>2. frame.line \in Lines /\ frame.pats \in SUBSET Prompts
    BY <1>2 DEF Frame
  <2>3. /\ s \in Frame(Ops, Lines) /\ Before(h)[s] = SentFrom(h, frame.line)
        /\ After[s] = Reached(frame.line, frame.pats)
    BY <2>2, SendAssertions
  <2>4. After[frame] = Reached(frame.line, frame.pats)
    BY <1>2, <2>1 DEF After
  <2>5. Fits(h, t, Landing(call)) /\ Below \subseteq C
    <3>1. h[1] = Asked[1] /\ (h[2] \/ h[2] = Asked[2]) /\ h[3] = Asked[3]
      <4>1. call.resent \in BOOLEAN
        BY <1>1 DEF CallRecord
      <4> QED BY <4>1 DEF Asked
    <3> HIDE DEF h
    <3> QED BY <1>2, <3>1, FitsResent DEF Below
  <2>6. At({"normal"}) \subseteq SentFrom(h, frame.line)
    <3>1. frame.line = Cmd => h[2]
      OBVIOUS
    <3> HIDE DEF h
    <3> QED BY <3>1 DEF At, SentFrom
  <2>7. Asked' = h /\ Landing(call') = Landing(call)
    BY <1>1, <2>1 DEF Asked, Landing, CallRecord
  <2> HIDE DEF s, h, C
  <2>8. Fits(h, rest, C) /\ Needs(h, rest, C) = SentFrom(h, frame.line)
    BY <1>2, <2>3, <2>4, <2>5, FitsOne
  <2>9. Fits(h, start, SentFrom(h, frame.line))
    <3>1. TRUE \in BOOLEAN
      OBVIOUS
    <3> QED BY <2>6, <3>1, StartFits
  <2> HIDE DEF start, rest, t
  <2>10. Fits(h, start \o rest, C)
    BY <2>8, <2>9, FitsConcat
  <2>11. Fits(h, (start \o rest) \o t, Landing(call))
    BY <2>5, <2>10, FitsConcat DEF C
  <2>12. Fits(h, todo', Landing(call))
    BY <2>1, <2>11
  <2> QED BY <2>1, <2>7, <2>12, OffStep
<1>5. CASE Unwind
  <2>1. todo' = Tail(todo) /\ exc' = exc /\ UNCHANGED <<wire, got, call>>
    BY <1>5 DEF Unwind, Quiet
  <2>2. ~Waiting /\ ~Waiting' /\ exc' # "none"
    BY <1>1, <2>1 DEF Waiting, Running
  <2> QED BY <1>1, <2>1, <2>2, RaiseStep DEF wire
<1> QED BY <1>3, <1>4, <1>5 DEF Exceptions

(* A call begins with its own command, not yet sent.                       *)
LEMMA CallMode ==
  ASSUME IInv, ModeInv, NEW op, NEW mode, NEW program, Call(op, mode, program), NEW L,
         L = Landing(NewCall(op, mode)), NEW g,
         g = <<mode, FALSE, NewCall(op, mode).ready>>, Fits(g, program, L),
         program \in Seq(Instr) \/ ~Waiting', here \in Needs(g, program, L)
  PROVE  ModeInv'
<1>1. /\ todo = <<>> /\ todo' = program /\ call' = NewCall(op, mode)
      /\ UNCHANGED <<wire, got>>
  BY DEF Call, Idle
<1>2. Asked' = g /\ ~Waiting /\ Landing(call') = L
  BY <1>1 DEF Asked, NewCall, Waiting, Running
<1>3. StackTyped'
  <2>1. Flow(Before(g), After, todo', L)
    BY <1>1 DEF Fits
  <2> QED BY <1>2, <2>1 DEF StackTyped
<1>4. here' = here /\ Trusted' = Trusted
  BY <1>1 DEF here, Trusted, wire
<1>5. HereTyped'
  <2> SUFFICES ASSUME Trusted
               PROVE  got.prompt = dev /\ here \in Needs(g, program, L)
    BY <1>1, <1>2, <1>4 DEF HereTyped, wire
  <2> QED BY <1>2 DEF ModeInv, HereTyped
<1>6. Located'
  BY <1>1 DEF ModeInv, Located, wire
<1>7. ExchangeTyped'
  <2>1. ~Waiting'
    BY <1>1, InnerShape DEF Instr
  <2> QED BY <2>1 DEF ExchangeTyped
<1> QED BY <1>3, <1>5, <1>6, <1>7 DEF ModeInv

(* Every call of the user fits where the appliance is.                     *)
LEMMA UserMode ==
  ASSUME IInv, ModeInv, User
  PROVE  ModeInv'
<1>0. here \in Places
  BY HereInPlaces
<1>1. TRUE \in BOOLEAN /\ UserModes \subseteq Modes \cup {"none", "undef"}
  BY UserModesAssumption
<1>2. ASSUME NEW op \in {"enter_mode", "enter_mode_x"}, NEW mode
      PROVE  Landing(NewCall(op, mode)) = At({mode})
  BY DEF Landing, NewCall
<1>3. ASSUME NEW op \in UserOps \ {"enter_mode", "enter_mode_x"}, NEW mode
      PROVE  Landing(NewCall(op, mode)) = Places
  BY DEF Landing, NewCall
<1>4. CASE CallStart
  <2>1. PICK runCli \in BOOLEAN : Call("start", "none", Start(runCli))
    BY <1>4 DEF CallStart
  <2> DEFINE m == "none"
             p == Start(runCli)
             g == <<m, FALSE, NewCall("start", m).ready>>
  <2>2. At({"normal"}) \subseteq Places /\ At(StartPrompt) \subseteq Places
    BY DEF At
  <2>3. Fits(g, p, Places) /\ Needs(g, p, Places) = Places
    BY <2>2, StartFits
  <2>7. ~Waiting'
    <3>1. <<>> \in Seq(Instr)
      OBVIOUS
    <3>2. p \in Seq(Frame(Ops, Lines))
      BY <2>3 DEF Fits
    <3> HIDE DEF p
    <3>3. todo' = p \o <<>>
      BY <2>1, <3>2, ConcatEmptySeq DEF Call, p
    <3> QED BY <3>1, <3>3, StartShape DEF p
  <2>4. Places = Landing(NewCall("start", "none"))
    BY <1>3 DEF UserOps
  <2>5. Call("start", m, p)
    BY <2>1
  <2>6. /\ g = <<m, FALSE, NewCall("start", m).ready>>
        /\ Places = Landing(NewCall("start", m))
    BY <2>4
  <2> HIDE DEF p, m, g
  <2> QED BY <1>0, <2>3, <2>5, <2>6, <2>7, CallMode
<1>5. CASE CallEnterMode
  <2>1. PICK mode \in UserModes : Call("enter_mode", mode, EnterMode(mode, TRUE))
    BY <1>5 DEF CallEnterMode
  <2> DEFINE p == EnterMode(mode, TRUE)
             g == <<mode, FALSE, NewCall("enter_mode", mode).ready>>
             L == At({mode})
  <2>2. mode \in Modes \cup {"none", "undef"} /\ L \subseteq L
    BY <1>1
  <2>3. Fits(g, p, L) /\ Needs(g, p, L) = Places
    BY <1>1, <2>2, EnterModeFits
  <2>4. p \in Seq(Instr)
    BY <1>1, <2>2, EnterModeInner
  <2>5. L = Landing(NewCall("enter_mode", mode))
    BY <1>2
  <2> HIDE DEF p, L
  <2>6. Call("enter_mode", mode, p)
    BY <2>1 DEF p
  <2> QED BY <1>0, <2>3, <2>4, <2>5, <2>6, CallMode
<1>6. CASE CallEnterModeX
  <2>1. PICK mode \in UserModes \ {"subif"} :
          Call("enter_mode_x", mode, EnterModeBody(mode))
    BY <1>6 DEF CallEnterModeX
  <2> DEFINE p == EnterModeBody(mode)
             g == <<mode, FALSE, NewCall("enter_mode_x", mode).ready>>
             L == At({mode})
  <2>2. L \subseteq L
    OBVIOUS
  <2>3. Fits(g, p, L) /\ Needs(g, p, L) = Places
    BY <2>2, BodyFits
  <2>4. p \in Seq(Instr)
    BY <1>1, EnterModeInner
  <2>5. L = Landing(NewCall("enter_mode_x", mode))
    BY <1>2
  <2> HIDE DEF p, L
  <2>6. Call("enter_mode_x", mode, p)
    BY <2>1 DEF p
  <2> QED BY <1>0, <2>3, <2>4, <2>5, <2>6, CallMode
<1>7. CASE CallExecCommand
  <2>1. PICK mode \in UserModes \cup {"none", "undef"}, errorOk \in BOOLEAN :
          Call("exec_command", Resolved(mode),
               <<Exec(Cmd, mode, "any", errorOk, {})>>)
    BY <1>7 DEF CallExecCommand
  <2> DEFINE x == Exec(Cmd, mode, "any", errorOk, {})
             p == <<x>>
             m == Resolved(mode)
             g == <<m, FALSE, NewCall("exec_command", m).ready>>
  <2>2. x \in Instr /\ x.op = "exec" /\ x.line = Cmd
    <3>1. mode \in Modes \cup {"none", "undef"}
      BY <1>1
    <3> QED BY <3>1, ExecInner DEF Lines, Exec
  <2> HIDE DEF x
  <2>3. x \in Frame(Ops, Lines)
    BY <2>2, InstrIsFrame
  <2>4. here \in Before(g)[x] /\ After[x] \subseteq Places
    <3>1. After[x] \subseteq Places
      BY <2>2, <2>3, ExecAssertions DEF Passed, Judged, Reached
    <3>2. g[1] = m /\ (m = "none" /\ g[3] => AtEmptyPrompt)
      BY DEF NewCall
    <3> HIDE DEF g, m
    <3>3. CASE m # "none"
      BY <1>0, <2>2, <2>3, <3>1, <3>2, <3>3, ExecAssertions
    <3>4. CASE m = "none"
      <4>1. Before(g)[x] = SentFrom(g, Cmd)
        BY <2>2, <2>3, <3>2, <3>4, ExecAssertions
      <4>2. g[3] => here[1] # "password" /\ ~here[3]
        BY <3>2, <3>4 DEF AtEmptyPrompt, here
      <4> QED BY <1>0, <3>1, <3>2, <3>4, <4>1, <4>2 DEF SentFrom
    <3> QED BY <3>1, <3>3, <3>4
  <2>5. Fits(g, p, Places) /\ here \in Needs(g, p, Places)
    BY <2>3, <2>4, FitsOne
  <2>6. p \in Seq(Instr)
    BY <2>2, One
  <2>7. Places = Landing(NewCall("exec_command", m))
    BY <1>3 DEF UserOps
  <2> HIDE DEF p, m
  <2>8. Call("exec_command", m, p)
    BY <2>1 DEF p, m, x
  <2> QED BY <2>5, <2>6, <2>7, <2>8, CallMode
<1>8. CASE CallGetSubCommands
  <2> DEFINE s == Send(Help, AnyPrompt)
             d == Do("delete_line")
             p == <<s, d>>
             m == "none"
             g == <<m, FALSE, NewCall("get_sub_commands", m).ready>>
  <2>1. Help \in Lines /\ Help # Cmd /\ AnyPrompt \in SUBSET Prompts
    BY DEF Help, Lines, Cmd, AnyPrompt, Prompts, CliPath
  <2>2. s \in Instr /\ s \in Frame(Ops, Lines) /\ Before(g)[s] = Places
    BY <2>1, PlainInstr, SendAssertions
  <2>3. After[s] \subseteq Places
    <3>1. After[s] = Reached(Help, AnyPrompt)
      BY <2>1, SendAssertions
    <3> QED BY <3>1 DEF Reached
  <2>4. /\ d \in Instr /\ d \in Frame(Ops, Lines) /\ Before(g)[d] = Places
        /\ After[d] = {}
    BY DoAssertions, PlainInstr DEF Ops
  <2> HIDE DEF s, d
  <2>5. Fits(g, p, Places) /\ Needs(g, p, Places) = Places
    BY <2>2, <2>3, <2>4, FitsTwo
  <2>6. p \in Seq(Instr)
    BY <2>2, <2>4, Two
  <2>7. Places = Landing(NewCall("get_sub_commands", m))
    BY <1>3 DEF UserOps
  <2> HIDE DEF p
  <2>8. Call("get_sub_commands", m, p)
    BY <1>8 DEF CallGetSubCommands, p, s, d
  <2> HIDE DEF m
  <2> QED BY <1>0, <2>5, <2>6, <2>7, <2>8, CallMode
<1>9. CASE SetDefaultMode
  <2> DEFINE m == "none"
             p == <<>>
             g == <<m, FALSE, NewCall("default_mode", m).ready>>
  <2>2. Fits(g, p, Places) /\ Needs(g, p, Places) = Places
    BY FitsNone
  <2>3. p \in Seq(Instr)
    OBVIOUS
  <2>4. Places = Landing(NewCall("default_mode", m))
    BY <1>3 DEF UserOps
  <2>5. Call("default_mode", m, p)
    BY <1>9 DEF SetDefaultMode
  <2> HIDE DEF p, m
  <2> QED BY <1>0, <2>2, <2>3, <2>4, <2>5, CallMode
<1>10. CASE Exit
  <2>1. link' = "none" /\ todo' = <<>> /\ call' = NewCall("exit", "none")
    BY <1>10 DEF Exit, CleanupHelper, Idle
  <2>2. StackTyped'
    <3>1. \A N, B : Flow(N, After, <<>>, B)
      BY DEF Flow
    <3> QED BY <2>1, <3>1 DEF StackTyped
  <2> QED BY <2>1, <2>2 DEF ModeInv, HereTyped, Located, ExchangeTyped, Trusted
<1> QED BY <1>4, <1>5, <1>6, <1>7, <1>8, <1>9, <1>10 DEF User

(* No CLI has said anything of a session yet.                              *)
LEMMA InitMode == Init => ModeInv
<1> SUFFICES ASSUME Init
             PROVE  ModeInv
  OBVIOUS
<1>1. link = "none" /\ todo = <<>>
  BY DEF Init, BaseInit
<1>2. \A N, B : Flow(N, After, <<>>, B)
  BY DEF Flow
<1> QED BY <1>1, <1>2 DEF ModeInv, StackTyped, HereTyped, Located, ExchangeTyped, Trusted

(* Every step.                                                             *)
LEMMA StepMode ==
  ASSUME IInv, NestInv, ModeInv, [Next]_vars
  PROVE  ModeInv'
<1>1. CASE UNCHANGED vars
  <2>1. UNCHANGED <<link, dev, typed, inq, rx, lost, todo, exc, got, call>>
    BY <1>1 DEF vars, baseVars, wire
  <2> QED BY <2>1 DEF ModeInv, StackTyped, HereTyped, Located, ExchangeTyped, Trusted,
                      Waiting, Running, frame, here, Asked, Below
<1> QED BY <1>1, UserMode, ExchangeMode, LocalMode, ExceptionsMode, EnvironmentMode
        DEF Next, Client

(* Where the appliance is, is known in every reachable state.              *)
LEMMA Location == Spec => [](IInv /\ NestInv /\ ModeInv)
<1>1. IInv /\ NestInv /\ ModeInv /\ [Next]_vars => (IInv /\ NestInv /\ ModeInv)'
  BY StepKeepsIInv, StepNests, StepMode
<1> QED BY <1>1, InitIInv, InitNests, InitMode, PTL DEF Spec

(* enter_mode and enter_mode_<mode>, when they return, have left the       *)
(* appliance in the mode they were called for, whatever it refused or how  *)
(* often they restarted the session, unless the session lost step.         *)
THEOREM Lands == Spec => []EnterModeLands
<1>1. ASSUME IInv, ModeInv
      PROVE  EnterModeLands
  <2> SUFFICES ASSUME Idle, exc = "none", call.op \in {"enter_mode", "enter_mode_x"},
                      link = "open", ~lost
               PROVE  dev = call.mode
    BY DEF EnterModeLands
  <2>1. here \in Needs(Asked, todo, Landing(call))
    BY <1>1 DEF ModeInv, HereTyped, Trusted, Idle, Waiting, Running
  <2>2. Needs(Asked, todo, Landing(call)) = Landing(call)
    BY FitsNone DEF Idle
  <2> QED BY <2>1, <2>2 DEF Landing, At, here
<1> QED BY <1>1, Location, PTL

(* The user's command runs in the mode the call asked for, for every set   *)
(* of modes users ask for and in every interleaving: no answer that is     *)
(* late or out of turn leads exec_command to send it elsewhere, unless the *)
(* session lost step or the command is being sent again.                   *)
THEOREM RunsWhereAsked == Spec => CommandInRequestedMode
<1>1. ASSUME IInv, NestInv, ModeInv, [Next]_vars,
             call'.runs = call.runs + 1, ~lost, ~call.resent, call.mode # "none"
      PROVE  dev = call.mode
  <2>1. call \in CallRecord /\ call.runs \in Nat
    BY <1>1, TypeFacts DEF CallRecord
  <2>2. Answer /\ RunsCommand
    <3>1. ASSUME call'.runs = call.runs
          PROVE  FALSE
      BY <1>1, <2>1, <3>1
    <3>2. ASSUME NEW op, NEW mode, NEW program, Call(op, mode, program)
          PROVE  FALSE
      BY <1>1, <2>1, <3>2 DEF Call, NewCall
    <3>3. ~User
      <4>1. ~Exit
        BY <1>1, <2>1 DEF Exit, NewCall
      <4> QED BY <3>2, <4>1 DEF User, CallStart, CallEnterMode, CallEnterModeX,
                 CallExecCommand, CallGetSubCommands, SetDefaultMode
    <3>4. ~(UNCHANGED call)
      BY <3>1
    <3>5. ~Exchange /\ ~AnswerHelp /\ ~Crash /\ ~(Drop /\ Own) /\ ~(UNCHANGED vars)
      BY <3>4 DEF Exchange, Own, AnswerHelp, Crash, vars
    <3>6. ~Local
      BY <1>1, <3>4, LocalMoves
    <3>7. ~Exceptions
      BY <2>1, <3>1, <3>4 DEF Exceptions, EnterModeRestarts, ExecRestarts, Unwind, Quiet,
         CallRecord
    <3>8. Answer
      BY <1>1, <3>3, <3>5, <3>6, <3>7 DEF Next, Client, Environment
    <3> QED BY <3>4, <3>8 DEF Answer
  <2>3. Trusted /\ inq # <<>>
    BY <1>1, <2>2 DEF Trusted, Answer
  <2>4. Waiting /\ Head(inq) = inq[1]
    BY <1>1, <2>3, InStepFacts
  <2>5. here \in SentFrom(Asked, Cmd)
    BY <1>1, <2>2, <2>3, <2>4 DEF ModeInv, ExchangeTyped, RunsCommand
  <2> QED BY <1>1, <2>5 DEF SentFrom, Asked, here
<1>2. IInv /\ NestInv /\ ModeInv /\ [Next]_vars
        => [call'.runs = call.runs + 1 /\ ~lost /\ ~call.resent /\ call.mode # "none"
              => dev = call.mode]_vars
  BY <1>1
<1> QED BY <1>2, Location, PTL DEF Spec, CommandInRequestedMode

-----------------------------------------------------------------------------
(* What has become of the user's command.  While something on the stack    *)
(* will send it, it is not under way and has run at most as often as       *)
(* before; once nothing will, it is under way, or has run, or the call is  *)
(* failing, and no instruction is left that could replace the session.     *)
(* Only a call that found the appliance at a prompt that was not empty may *)
(* return without its having run.                                          *)
Ran        == [line |-> Cmd, due |-> TRUE]
OneDue(q)  == \A i, j \in DOMAIN q : q[i].due /\ q[j].due => i = j
RunDue(q)  == \E i \in DOMAIN q : q[i] = Ran
Reopens    == {x \in Frame(Ops, Lines) : x.op = "open" \/ Rank(x) \in 1 .. 5}
Earlier(c) == IF c.resent THEN 1 ELSE 0

CountInv ==
  /\ OneDue(inq)
  /\ Some(todo, Unsent) => ~Some(todo, Ranked({6}))
  /\ Some(todo, Runs) \/ RunDue(inq)
       => call.op = "exec_command" /\ call.runs <= Earlier(call)
  /\ ~(Some(todo, Runs) /\ RunDue(inq))
  /\ Some(todo, Ranked({7, 8})) => call.op = "exec_command" /\ ~call.resent
  /\ call.op = "exec_command" => call.runs <= Earlier(call) + 1
  /\ call.op = "exec_command" /\ ~Some(todo, Runs)
       => /\ ~Some(todo, Reopens)
          /\ RunDue(inq) \/ call.runs >= 1 \/ ~call.ready \/ exc # "none" \/ ~Trusted

(* The lines under way, as they are read and sent.                         *)
LEMMA QueueSteps ==
  ASSUME NEW q \in Seq(Line(Lines))
  PROVE  /\ NoneDue(q) => OneDue(q) /\ ~RunDue(q)
         /\ NoneDue(q) => \A l \in Line(Lines) : /\ OneDue(Append(q, l))
                                                 /\ RunDue(Append(q, l)) <=> l = Ran
         /\ q # <<>> /\ OneDue(q) =>
              /\ OneDue(Tail(q))
              /\ Head(q) = Ran  => RunDue(q) /\ ~RunDue(Tail(q))
              /\ Head(q) # Ran => (RunDue(q) <=> RunDue(Tail(q)))
<1>0. Ran.due
  BY DEF Ran
<1>1. NoneDue(q) => OneDue(q) /\ ~RunDue(q)
  BY <1>0 DEF NoneDue, OneDue, RunDue
<1>2. ASSUME NoneDue(q), NEW l \in Line(Lines)
      PROVE  OneDue(Append(q, l)) /\ (RunDue(Append(q, l)) <=> l = Ran)
  <2> DEFINE s == Append(q, l)
             n == Len(q)
  <2>1. /\ n \in Nat /\ DOMAIN s = 1 .. (n + 1) /\ DOMAIN q = 1 .. n
        /\ s[n + 1] = l /\ \A i \in 1 .. n : s[i] = q[i]
    OBVIOUS
  <2> HIDE DEF s, n
  <2>2. \A i \in DOMAIN s : i # n + 1 => i \in DOMAIN q /\ s[i] = q[i]
    BY <2>1
  <2>3. \A i \in DOMAIN s : i # n + 1 => ~s[i].due
    BY <1>2, <2>2 DEF NoneDue
  <2>4. OneDue(s)
    BY <2>3 DEF OneDue
  <2>5. n + 1 \in DOMAIN s
    BY <2>1
  <2>6. RunDue(s) <=> l = Ran
    BY <1>0, <2>1, <2>3, <2>5 DEF RunDue
  <2> QED BY <2>4, <2>6 DEF s
<1>3. ASSUME q # <<>>, OneDue(q)
      PROVE  /\ OneDue(Tail(q))
             /\ Head(q) = Ran  => RunDue(q) /\ ~RunDue(Tail(q))
             /\ Head(q) # Ran => (RunDue(q) <=> RunDue(Tail(q)))
  <2> DEFINE t == Tail(q)
             n == Len(q)
  <2>1. /\ n \in Nat /\ n >= 1 /\ DOMAIN q = 1 .. n /\ Head(q) = q[1]
    BY <1>3, EmptySeq
  <2>2. /\ t \in Seq(Line(Lines)) /\ DOMAIN t = 1 .. (n - 1)
        /\ \A i \in 1 .. (n - 1) : t[i] = q[i + 1]
    BY <1>3, <2>1
  <2> HIDE DEF t, n
  <2>3. \A i \in DOMAIN t : i + 1 \in DOMAIN q /\ i + 1 # 1 /\ t[i] = q[i + 1]
    BY <2>1, <2>2
  <2>4. \A j \in DOMAIN q : j # 1 => j - 1 \in DOMAIN t /\ t[j - 1] = q[j]
    BY <2>1, <2>2
  <2>5. 1 \in DOMAIN q
    BY <2>1
  <2>6. OneDue(t)
    <3>1. ASSUME NEW i \in DOMAIN t, NEW j \in DOMAIN t, t[i].due, t[j].due
          PROVE  i = j
      <4>1. i + 1 = j + 1
        BY <1>3, <2>3, <3>1 DEF OneDue
      <4> QED BY <2>1, <2>2, <4>1
    <3> QED BY <3>1 DEF OneDue
  <2>7. RunDue(t) => RunDue(q)
    BY <2>3 DEF RunDue
  <2>8. ASSUME q[1] = Ran
        PROVE  ~RunDue(t)
    BY <1>0, <1>3, <2>3, <2>5, <2>8 DEF OneDue, RunDue
  <2>9. ASSUME q[1] # Ran, RunDue(q)
        PROVE  RunDue(t)
    BY <2>4, <2>9 DEF RunDue
  <2>10. q[1] = Ran => RunDue(q)
    BY <2>5 DEF RunDue
  <2> QED BY <2>1, <2>6, <2>7, <2>8, <2>9, <2>10 DEF t
<1> QED BY <1>1, <1>2, <1>3

(* The marks of what runs the command, will, or could replace the session. *)
LEMMA CountMarks ==
  ASSUME NEW x
  PROVE  /\ x \in Runs => Rank(x) \in {6, 7, 8}
         /\ x \in Unsent => Rank(x) = 7 /\ x \in Runs
         /\ x \in Ranked({6}) => Rank(x) = 6 /\ x \in Runs
         /\ x \in Instr /\ x \in Reopens => Rank(x) \in 1 .. 5
  BY DEF Runs, Unsent, Ranked, Rank, Reopens, Instr, Inner

(* Programs with low marks neither run the command nor handle it.          *)
LEMMA LowMarks ==
  ASSUME NEW p \in Seq(Ranked(0 .. 5))
  PROVE  ~Some(p, Runs) /\ ~Some(p, Unsent) /\ ~Some(p, Ranked({6})) /\ ~Some(p, Ranked({7, 8}))
<1>1. \A j \in DOMAIN p : Rank(p[j]) \in 0 .. 5
  BY DEF Ranked
<1>2. \A j \in DOMAIN p : p[j] \notin Runs /\ p[j] \notin Unsent /\ p[j] \notin Ranked({6})
                          /\ p[j] \notin Ranked({7, 8})
  BY <1>1, CountMarks DEF Ranked
<1> QED BY <1>2 DEF Some

(* Below an instruction that runs the command nothing does, or replaces    *)
(* the session.                                                            *)
LEMMA BelowRun ==
  ASSUME IInv, NestInv, CountInv, todo # <<>>, frame \in Runs
  PROVE  ~Some(Tail(todo), Runs) /\ ~Some(Tail(todo), Reopens)
<1>1. /\ \A S : Some(todo, S) <=> frame \in S \/ Some(Tail(todo), S)
      /\ \A r \in 1 .. 8 : r <= Rank(frame) => ~Some(Tail(todo), Ranked({r}))
      /\ ~Some(Tail(todo), Ranked({8})) /\ Tail(todo) \in Seq(Frame(Ops, Lines))
  BY BelowHead
<1>2. Tail(todo) \in Seq(Instr) /\ Rank(frame) \in {6, 7, 8} /\ frame \in Frame(Ops, Lines)
  BY TypeFacts, CountMarks
<1>3. ASSUME NEW r \in 1 .. 6
      PROVE  ~Some(Tail(todo), Ranked({r}))
  <2>1. r \in 1 .. 8 /\ r <= Rank(frame)
    BY <1>2
  <2> QED BY <1>1, <2>1
<1>4. ~Some(Tail(todo), Unsent)
  <2>1. CASE Rank(frame) = 6
    <3>1. frame \in Ranked({6})
      BY <1>2, <2>1 DEF Ranked
    <3> QED BY <1>1, <3>1 DEF CountInv
  <2>2. CASE Rank(frame) \in {7, 8}
    <3>1. ~Some(Tail(todo), Ranked({7}))
      BY <1>1, <2>2
    <3> QED BY <3>1 DEF Some, Unsent, Ranked, Rank
  <2> QED BY <1>2, <2>1, <2>2
<1>5. ~Some(Tail(todo), Runs)
  <2>1. 6 \in 1 .. 6
    OBVIOUS
  <2>2. ~Some(Tail(todo), Ranked({6}))
    BY <1>3, <2>1
  <2> QED BY <1>1, <1>4, <2>2 DEF Some, Runs, Ranked
<1>6. ~Some(Tail(todo), Reopens)
  <2>1. ASSUME NEW j \in DOMAIN Tail(todo), Tail(todo)[j] \in Reopens
        PROVE  FALSE
    <3> DEFINE y == Tail(todo)[j]
    <3>1. y \in Instr /\ y \in Frame(Ops, Lines)
      BY <1>1, <1>2
    <3>2. Rank(y) \in 1 .. 5
      BY <2>1, <3>1, CountMarks
    <3> DEFINE r == Rank(y)
    <3>3. y \in Ranked({r})
      BY <3>1 DEF Ranked
    <3>4. r \in 1 .. 6
      BY <3>2
    <3> HIDE DEF r
    <3>5. ~Some(Tail(todo), Ranked({r}))
      BY <1>3, <3>4
    <3> QED BY <3>3, <3>5 DEF Some
  <2> QED BY <2>1 DEF Some
<1> QED BY <1>5, <1>6

(* A step that sends no command and reads none.                            *)
LEMMA StackCount ==
  ASSUME CountInv, OneDue(inq'), RunDue(inq') => RunDue(inq),
         call'.op = call.op, call'.runs = call.runs, call'.resent = call.resent,
         call'.ready = call.ready,
         Some(todo', Unsent) => ~Some(todo', Ranked({6})),
         Some(todo', Runs) => Some(todo, Runs),
         Some(todo', Ranked({7, 8})) => Some(todo, Ranked({7, 8})),
         Some(todo', Reopens) => Some(todo, Reopens) \/ Some(todo', Runs),
         Some(todo, Runs) => Some(todo', Runs) \/ (exc' # "none" /\ ~Some(todo', Reopens)),
         ~Some(todo, Reopens) /\ (RunDue(inq) \/ exc # "none" \/ ~Trusted)
           => RunDue(inq') \/ ~call.ready \/ exc' # "none" \/ ~Trusted'
  PROVE  CountInv'
<1>1. Earlier(call') = Earlier(call)
  BY DEF Earlier
<1>2. ASSUME call.op = "exec_command", ~Some(todo', Runs)
      PROVE  /\ ~Some(todo', Reopens)
             /\ RunDue(inq') \/ call.runs >= 1 \/ ~call.ready \/ exc' # "none" \/ ~Trusted'
  BY <1>2 DEF CountInv
<1> QED BY <1>1, <1>2 DEF CountInv

(* The instruction is taken away by an exception.                          *)
LEMMA PopCount ==
  ASSUME IInv, NestInv, CountInv, todo # <<>>, todo' = Tail(todo), call' = call,
         exc' # "none", OneDue(inq'), RunDue(inq') => RunDue(inq)
  PROVE  CountInv'
<1>1. \A S : Some(todo, S) <=> frame \in S \/ Some(todo', S)
  BY BelowHead
<1>2. frame \in Runs => ~Some(todo', Runs) /\ ~Some(todo', Reopens)
  BY BelowRun
<1>3. Some(todo', Unsent) => ~Some(todo', Ranked({6}))
  BY <1>1 DEF CountInv
<1> QED BY <1>1, <1>2, <1>3, StackCount

(* It gives way to one that waits for what it asked, or ends.              *)
LEMMA SwapCount ==
  ASSUME IInv, NestInv, CountInv, todo # <<>>, call' = call, exc' = exc,
         frame \notin Runs, OneDue(inq'), RunDue(inq') => RunDue(inq),
         \/ todo' = Tail(todo)
         \/ /\ todo' \in Seq(Frame(Ops, Lines)) /\ todo' # <<>>
            /\ Tail(todo') = Tail(todo) /\ frame'.op = "wait",
         ~Some(todo, Reopens) /\ (RunDue(inq) \/ ~Trusted) => RunDue(inq') \/ ~Trusted'
  PROVE  CountInv'
<1>1. \A S : Some(todo, S) <=> frame \in S \/ Some(Tail(todo), S)
  BY BelowHead
<1>2. \A S \in {Runs, Unsent, Ranked({6}), Ranked({7, 8}), Reopens} :
        Some(todo', S) => Some(Tail(todo), S)
  <2>1. CASE todo' = Tail(todo)
    BY <2>1
  <2>2. CASE /\ todo' \in Seq(Frame(Ops, Lines)) /\ todo' # <<>>
             /\ Tail(todo') = Tail(todo) /\ frame'.op = "wait"
    <3>1. \A S : Some(todo', S) <=> frame' \in S \/ Some(Tail(todo), S)
      BY <2>2, SomeHeadTail DEF frame
    <3>2. Rank(frame') = 0
      BY <2>2 DEF Rank
    <3>3. /\ frame' \notin Runs /\ frame' \notin Unsent /\ frame' \notin Ranked({6})
          /\ frame' \notin Ranked({7, 8}) /\ frame' \notin Reopens
      BY <2>2, <3>2, CountMarks DEF Ranked, Reopens
    <3> QED BY <3>1, <3>3
  <2> QED BY <2>1, <2>2
<1>3. Some(todo, Runs) => Some(todo', Runs)
  <2>1. CASE todo' = Tail(todo)
    BY <1>1, <2>1
  <2>2. CASE /\ todo' \in Seq(Frame(Ops, Lines)) /\ todo' # <<>>
             /\ Tail(todo') = Tail(todo)
    <3>1. \A S : Some(todo', S) <=> frame' \in S \/ Some(Tail(todo), S)
      BY <2>2, SomeHeadTail DEF frame
    <3> QED BY <1>1, <3>1
  <2> QED BY <2>1, <2>2
<1>4. Some(todo', Unsent) => ~Some(todo', Ranked({6}))
  BY <1>1, <1>2 DEF CountInv
<1>5. /\ Some(todo', Runs) => Some(todo, Runs)
      /\ Some(todo', Ranked({7, 8})) => Some(todo, Ranked({7, 8}))
      /\ Some(todo', Reopens) => Some(todo, Reopens)
  BY <1>1, <1>2
<1> QED BY <1>3, <1>4, <1>5, StackCount

(* What the steps between two exchanges put on the stack.                  *)
LEMMA LocalCount ==
  ASSUME IInv, NestInv, FreshInv, CountInv, Local
  PROVE  CountInv'
<1> DEFINE t == Tail(todo)
           m == Rank(frame)
<1>1. /\ todo # <<>> /\ exc = "none" /\ frame.op \notin {"open", "wait", "send"}
      /\ UNCHANGED <<wire, got, call>>
      /\ \/ exc' # "none" /\ todo' = Tail(todo)
         \/ /\ exc' = "none"
            /\ \E prog : Expansion(frame, prog) /\ todo' = prog \o Tail(todo)
  BY LocalMoves
<1>2. OneDue(inq') /\ RunDue(inq') = RunDue(inq) /\ Trusted' = Trusted
  BY <1>1 DEF wire, CountInv, Trusted, OneDue, RunDue
<1>3. CASE exc' # "none" /\ todo' = Tail(todo)
  BY <1>1, <1>2, <1>3, PopCount
<1>4. ASSUME NEW prog, Expansion(frame, prog), todo' = prog \o Tail(todo)
      PROVE  CountInv'
  <2>1. /\ \A S : Some(todo, S) <=> frame \in S \/ Some(t, S)
        /\ t \in Seq(Frame(Ops, Lines))
        /\ \A r \in 1 .. 8 : r <= m => ~Some(t, Ranked({r}))
    BY <1>1, BelowHead
  <2>2. m \in {0, 1, 2, 3, 4, 5, 7, 8} /\ frame \in Frame(Ops, Lines)
    <3>1. m \in 0 .. 8
      BY RankTyped
    <3>2. m # 6
      BY <1>1 DEF Rank
    <3> QED BY <1>1, <3>1, <3>2, TypeFacts
  <2>3. prog \in Seq(Offspring(frame)) /\ prog \in Seq(Frame(Ops, Lines))
    <3>1. Offspring(frame) \subseteq Frame(Ops, Lines)
      BY InstrIsFrame DEF Offspring
    <3> QED BY <1>4, <3>1, SeqMonotonic DEF Expansion
  <2>4. \A S : Some(todo', S) <=> Some(prog, S) \/ Some(t, S)
    BY <1>4, <2>1, <2>3, SomeConcat
  <2>5. \A j \in DOMAIN prog : /\ prog[j] \in Instr /\ Rank(prog[j]) \in Yields(m)
                               /\ prog[j] \in Runs => frame \in Runs
                               /\ prog[j] \in Unsent => m = 8
    BY <2>3 DEF Offspring
  <2> HIDE DEF t, m
  <2>6. \A r : Some(prog, Ranked({r})) => r \in Yields(m)
    BY <2>5 DEF Some, Ranked
  <2>7. Some(t, Unsent) => Some(t, Ranked({7}))
    BY CountMarks DEF Some, Unsent, Ranked
  <2>8. Some(todo', Unsent) => ~Some(todo', Ranked({6}))
    <3>1. CASE m = 8
      <4>1. 6 \notin Yields(m) /\ 6 \in 1 .. 8 /\ 6 <= m
        BY <3>1 DEF Yields
      <4> QED BY <2>1, <2>4, <2>6, <4>1
    <3>2. CASE m = 7
      <4>1. ~Some(prog, Unsent)
        BY <2>5, <3>2 DEF Some
      <4>2. ~Some(t, Ranked({7}))
        <5>1. 7 \in 1 .. 8 /\ 7 <= m
          BY <3>2
        <5> QED BY <2>1, <5>1
      <4> QED BY <2>4, <2>7, <4>1, <4>2
    <3>3. CASE m \notin {7, 8}
      <4>1. ~Some(prog, Unsent)
        BY <2>5, <3>3 DEF Some
      <4>2. 6 \notin Yields(m)
        BY <2>2, <3>3 DEF Yields
      <4> QED BY <2>1, <2>4, <2>6, <4>1, <4>2 DEF CountInv
    <3> QED BY <3>1, <3>2, <3>3
  <2>9. Some(prog, Runs) => frame \in Runs
    BY <2>5 DEF Some
  <2>10. Some(prog, Ranked({7, 8})) => frame \in Ranked({7, 8})
    <3>1. \A r \in Yields(m) : r \in {7, 8} => m \in {7, 8}
      BY <2>2 DEF Yields
    <3>2. Some(prog, Ranked({7, 8})) => m \in {7, 8}
      BY <2>5, <3>1 DEF Some, Ranked
    <3> QED BY <2>2, <3>2 DEF Ranked, m
  <2>11. frame \in Runs => Some(prog, Runs)
    BY <1>4 DEF Expansion
  <2>12. Some(prog, Reopens) => frame \in Reopens \/ Some(prog, Runs)
    <3>1. ASSUME NEW j \in DOMAIN prog, prog[j] \in Reopens
          PROVE  frame \in Reopens \/ frame \in Runs
      <4>1. Rank(prog[j]) \in 1 .. 5 /\ Rank(prog[j]) \in Yields(m)
        BY <2>5, <3>1, CountMarks
      <4>2. \A r \in Yields(m) : r \in 1 .. 5 => m \in 1 .. 5 \/ m = 8
        BY <2>2 DEF Yields
      <4>3. m \in 1 .. 5 \/ m = 8
        BY <4>1, <4>2
      <4> QED BY <2>2, <4>3 DEF Reopens, Runs, Ranked, m
    <3> QED BY <2>11, <3>1 DEF Some
  <2>13. /\ Some(todo', Runs) => Some(todo, Runs)
         /\ Some(todo', Ranked({7, 8})) => Some(todo, Ranked({7, 8}))
         /\ Some(todo', Reopens) => Some(todo, Reopens) \/ Some(todo', Runs)
         /\ Some(todo, Runs) => Some(todo', Runs)
    BY <2>1, <2>4, <2>9, <2>10, <2>11, <2>12
  <2> QED BY <1>1, <1>2, <2>8, <2>13, StackCount
<1> QED BY <1>1, <1>3, <1>4

(* What the exchanges leave under way.                                     *)
LEMMA ExchangeCount ==
  ASSUME IInv, NestInv, FreshInv, CountInv, Exchange
  PROVE  CountInv'
<1>1. /\ SessionInv(Ops, Lines) /\ inq \in Seq(Line(Lines)) /\ call' = call
      /\ ConversationInStep
  BY TypeFacts DEF Exchange, Own, BaseTypeOK
<1>2. NoneDue(<<>>) /\ \A q : NoneDue(q) => OneDue(q) /\ ~RunDue(q)
  BY DEF NoneDue, OneDue, RunDue, Ran
<1>3. SessionInv(Ops, Lines)' => todo' \in Seq(Frame(Ops, Lines))
  BY DEF SessionInv, BaseTypeOK
<1>4. frame.op \in {"open", "wait"} => frame \notin Runs
  BY LatchingRuns
<1>5. \A pats : Wait(pats).op = "wait"
  BY DEF Wait, Do
<1>6. CASE OpenFails
  <2>1. todo # <<>> /\ todo' = Tail(todo) /\ inq' = <<>> /\ exc' # "none"
    BY <1>1, <1>6, OpenFailsKeeps DEF OpenFails
  <2>2. OneDue(inq') /\ ~RunDue(inq')
    BY <1>2, <2>1
  <2> QED BY <1>1, <2>1, <2>2, PopCount
<1>7. CASE OpenSucceeds(StartPrompt)
  <2>1. /\ SessionInv(Ops, Lines)' /\ inq' = <<>> /\ frame.op = "open" /\ exc' = "none"
        /\ todo # <<>> /\ todo' # <<>> /\ Tail(todo') = Tail(todo)
        /\ frame' = Wait(frame.pats) /\ exc = "none"
    BY <1>1, <1>7, OpenSucceedsKeeps, RvbdVocabulary
       DEF StartPrompt, Prompts, OpenSucceeds, Running
  <2>2. OneDue(inq') /\ ~RunDue(inq')
    BY <1>2, <2>1
  <2>3. Some(todo, Reopens)
    <3>1. frame \in Reopens
      BY <2>1, TypeFacts DEF Reopens
    <3> QED BY <2>1, <3>1, BelowHead
  <2>4. frame'.op = "wait"
    BY <1>5, <2>1
  <2>5. todo' \in Seq(Frame(Ops, Lines)) /\ frame \notin Runs /\ exc' = exc
    BY <1>3, <1>4, <2>1
  <2> QED BY <1>1, <2>1, <2>2, <2>3, <2>4, <2>5, SwapCount
<1>8. CASE SendFails
  <2>1. todo # <<>> /\ todo' = Tail(todo) /\ inq' = inq /\ exc' # "none"
    BY <1>1, <1>8, SendFailsKeeps DEF wire
  <2>2. OneDue(inq') /\ (RunDue(inq') => RunDue(inq))
    BY <2>1 DEF CountInv
  <2> QED BY <1>1, <2>1, <2>2, PopCount
<1>9. CASE SendSucceeds
  <2> DEFINE l == [line |-> frame.line, due |-> TRUE]
  <2>1. /\ SessionInv(Ops, Lines)' /\ ~Waiting /\ inq' = Append(inq, l)
        /\ todo # <<>> /\ todo' # <<>> /\ Tail(todo') = Tail(todo) /\ exc' = exc
        /\ frame' = Wait(frame.pats) /\ frame.op = "send" /\ UNCHANGED <<link, lost>>
    BY <1>1, <1>9, SendSucceedsKeeps, RvbdVocabulary
  <2>2. l \in Line(Lines)
    BY <2>1, TypeFacts DEF Line
  <2>3. l = Ran <=> frame.line = Cmd
    BY DEF Ran
  <2>4. NoneDue(inq)
    BY <2>1 DEF FreshInv
  <2> HIDE DEF l
  <2>5. OneDue(inq') /\ (RunDue(inq') <=> l = Ran) /\ ~RunDue(inq)
    <3>1. \A x \in Line(Lines) : OneDue(Append(inq, x)) /\ (RunDue(Append(inq, x)) <=> x = Ran)
      BY <1>1, <2>4, QueueSteps
    <3> QED BY <1>2, <2>1, <2>2, <2>4, <3>1
  <2>6. todo' \in Seq(Frame(Ops, Lines)) /\ frame'.op = "wait"
    BY <1>3, <1>5, <2>1
  <2>7. frame \in Frame(Ops, Lines)
    BY <2>1, TypeFacts
  <2>8. CASE frame.line = Cmd
    <3>1. frame \in Runs
      BY <2>1, <2>7, <2>8 DEF Runs, Ranked, Rank
    <3>2. ~Some(Tail(todo), Runs) /\ ~Some(Tail(todo), Reopens)
      BY <2>1, <3>1, BelowRun
    <3>3. \A S : Some(todo', S) <=> frame' \in S \/ Some(Tail(todo), S)
      BY <2>1, <2>6, SomeHeadTail DEF frame
    <3>4. Rank(frame') = 0
      BY <2>6 DEF Rank
    <3>5. /\ frame' \notin Runs /\ frame' \notin Unsent /\ frame' \notin Ranked({6})
          /\ frame' \notin Ranked({7, 8}) /\ frame' \notin Reopens
      BY <2>6, <3>4, CountMarks DEF Ranked, Reopens
    <3>6. \A S : Some(todo, S) <=> frame \in S \/ Some(Tail(todo), S)
      BY <2>1, BelowHead
    <3>7. /\ ~Some(todo', Runs) /\ ~Some(todo', Reopens)
          /\ Some(todo', Ranked({7, 8})) => Some(todo, Ranked({7, 8}))
      BY <3>2, <3>3, <3>5, <3>6
    <3>8. ~Some(todo', Unsent)
      BY <3>7, CountMarks DEF Some
    <3>9. Some(todo, Runs)
      BY <3>1, <3>6
    <3>10. call.op = "exec_command" /\ call.runs <= Earlier(call)
      BY <3>9 DEF CountInv
    <3>11. RunDue(inq') /\ OneDue(inq')
      BY <2>3, <2>5, <2>8
    <3>12. (Some(todo', Ranked({7, 8})) => ~call.resent) /\ call.runs <= Earlier(call) + 1
      BY <3>7, <3>10 DEF CountInv
    <3> QED BY <1>1, <3>7, <3>8, <3>10, <3>11, <3>12 DEF CountInv
  <2>9. CASE frame.line # Cmd
    <3>1. frame \notin Runs
      BY <2>1, <2>9 DEF Runs, Unsent, Ranked, Rank
    <3>2. ~RunDue(inq')
      BY <2>3, <2>5, <2>9
    <3>3. Trusted' = Trusted
      BY <2>1 DEF Trusted
    <3> QED BY <1>1, <2>1, <2>5, <2>6, <3>1, <3>2, <3>3, SwapCount
  <2> QED BY <2>8, <2>9
<1>10. CASE ExpectMatch
  <2>1. /\ todo # <<>> /\ todo' = Tail(todo) /\ NoneDue(inq') /\ exc' = exc
        /\ UNCHANGED <<link, lost>>
        /\ Trusted => inq = <<>>
    BY <1>1, <1>10, ExpectMatchKeeps DEF NoneDue, Trusted
  <2>2. frame.op = "wait"
    BY <1>10 DEF ExpectMatch, Running
  <2>3. OneDue(inq') /\ ~RunDue(inq') /\ Trusted' = Trusted /\ (Trusted => ~RunDue(inq))
    BY <1>2, <2>1 DEF Trusted
  <2> QED BY <1>1, <1>4, <2>1, <2>2, <2>3, SwapCount
<1>11. CASE ExpectMore
  <2>1. /\ SessionInv(Ops, Lines)' /\ Waiting /\ Waiting' /\ inq' = inq /\ exc' = exc
        /\ todo # <<>> /\ todo' # <<>> /\ Tail(todo') = Tail(todo)
        /\ UNCHANGED <<link, lost>>
    BY <1>1, <1>11, ExpectMoreKeeps
  <2>2. frame.op = "wait"
    BY <2>1 DEF Waiting, Running
  <2>3. frame'.op = "wait"
    BY <2>1 DEF Waiting, Running
  <2>4. OneDue(inq') /\ (RunDue(inq') <=> RunDue(inq)) /\ Trusted' = Trusted
    BY <2>1 DEF CountInv, Trusted
  <2>5. todo' \in Seq(Frame(Ops, Lines)) /\ frame \notin Runs
    BY <1>3, <1>4, <2>1, <2>2
  <2> QED BY <1>1, <2>1, <2>3, <2>4, <2>5, SwapCount
<1>12. CASE ExpectClosed
  <2>1. todo # <<>> /\ todo' = Tail(todo) /\ inq' = <<>> /\ exc' # "none"
    BY <1>1, <1>12, ExpectClosedKeeps DEF wire
  <2>2. OneDue(inq') /\ ~RunDue(inq')
    BY <1>2, <2>1
  <2> QED BY <1>1, <2>1, <2>2, PopCount
<1>13. CASE ExpectTimeout
  <2>1. todo # <<>> /\ todo' = Tail(todo) /\ NoneDue(inq') /\ exc' # "none"
    BY <1>1, <1>13, ExpectTimeoutKeeps DEF NoneDue
  <2>2. OneDue(inq') /\ ~RunDue(inq')
    BY <1>2, <2>1
  <2> QED BY <1>1, <2>1, <2>2, PopCount
<1> QED BY <1>6, <1>7, <1>8, <1>9, <1>10, <1>11, <1>12, <1>13 DEF Exchange, Expect

(* On a session in step the appliance reads the user's command at an empty *)
(* prompt, if the call named a mode or found it at one.                    *)
LEMMA CommandIsRead ==
  ASSUME IInv, ModeInv, inq # <<>>, Head(inq) = Ran, Trusted, call.ready
  PROVE  AtEmptyPrompt
<1>1. Head(inq) = inq[1] /\ Waiting
  BY InStepFacts
<1>2. here \in SentFrom(Asked, Cmd)
  BY <1>1 DEF ModeInv, ExchangeTyped, Ran
<1> QED BY <1>2 DEF SentFrom, Asked, here, AtEmptyPrompt

(* What the appliance and the network do with what is under way.           *)
LEMMA EnvironmentCount ==
  ASSUME IInv, NestInv, FreshInv, ModeInv, CountInv, Environment
  PROVE  CountInv'
<1>1. inq \in Seq(Line(Lines)) /\ call \in CallRecord
  BY TypeFacts DEF BaseTypeOK
<1>2. ASSUME UNCHANGED <<todo, exc, call>>, OneDue(inq'), RunDue(inq') => RunDue(inq),
             RunDue(inq) => RunDue(inq') \/ ~Trusted', ~Trusted => ~Trusted'
      PROVE  CountInv'
  BY <1>2, StackCount DEF CountInv
<1>3. ASSUME inq # <<>>, inq' = Tail(inq)
      PROVE  /\ OneDue(inq')
             /\ Head(inq) = Ran => RunDue(inq) /\ ~RunDue(inq')
             /\ Head(inq) # Ran => (RunDue(inq') <=> RunDue(inq))
  BY <1>1, <1>3, QueueSteps DEF CountInv
<1>4. CASE Answer
  <2>1. /\ inq # <<>> /\ inq' = Tail(inq) /\ UNCHANGED <<todo, exc>> /\ Trusted' = Trusted
    BY <1>4 DEF Answer, DeviceAnswers, Trusted
  <2>2. CASE Head(inq) # Ran
    <3>1. call' = call
      BY <1>4, <2>2 DEF Answer, RunsCommand, Ran
    <3> QED BY <1>2, <1>3, <2>1, <2>2, <3>1
  <2>4. CASE Head(inq) = Ran /\ ~AtEmptyPrompt
    <3>1. call' = call
      BY <1>4, <2>4 DEF Answer, RunsCommand
    <3>2. ~call.ready \/ ~Trusted
      BY <2>1, <2>4, CommandIsRead
    <3>3. OneDue(inq') /\ ~RunDue(inq')
      BY <1>3, <2>1, <2>4
    <3>4. Some(todo, Unsent) => ~Some(todo, Ranked({6}))
      BY DEF CountInv
    <3> QED BY <2>1, <3>1, <3>2, <3>3, <3>4, StackCount
  <2>3. CASE Head(inq) = Ran /\ AtEmptyPrompt
    <3>1. call' = [call EXCEPT !.runs = @ + 1]
      BY <1>4, <2>3 DEF Answer, RunsCommand, Ran
    <3>2. /\ call'.op = call.op /\ call'.resent = call.resent
          /\ call'.runs = call.runs + 1 /\ call.runs \in Nat
      BY <1>1, <3>1 DEF CallRecord
    <3>3. RunDue(inq) /\ ~RunDue(inq') /\ OneDue(inq')
      BY <1>3, <2>1, <2>3
    <3>4. /\ call.op = "exec_command" /\ call.runs <= Earlier(call)
          /\ ~Some(todo, Runs) /\ ~Some(todo, Reopens)
      BY <3>3 DEF CountInv
    <3>5. Earlier(call') = Earlier(call) /\ Earlier(call) \in Nat
      BY <3>2 DEF Earlier
    <3>6. call'.runs >= 1 /\ call'.runs <= Earlier(call') + 1
      BY <3>2, <3>4, <3>5
    <3>7. /\ Some(todo, Unsent) => ~Some(todo, Ranked({6}))
          /\ Some(todo, Ranked({7, 8})) => call.op = "exec_command" /\ ~call.resent
      BY DEF CountInv
    <3> QED BY <2>1, <3>2, <3>3, <3>4, <3>6, <3>7 DEF CountInv
  <2> QED BY <2>2, <2>3, <2>4
<1>5. CASE AnswerHelp
  <2>1. /\ inq # <<>> /\ inq' = Tail(inq) /\ UNCHANGED <<todo, exc, call>>
        /\ Trusted' = Trusted /\ Head(inq).line = Help
    BY <1>5 DEF AnswerHelp, Trusted
  <2>2. Head(inq) # Ran
    <3>1. Ran.line = Cmd /\ Help # Cmd
      BY DEF Ran, Help, Cmd
    <3> QED BY <2>1, <3>1
  <2> QED BY <1>2, <1>3, <2>1, <2>2
<1>6. CASE Crash
  <2>1. UNCHANGED <<todo, exc, call>> /\ inq' = inq /\ ~Trusted'
    BY <1>6 DEF Crash, Trusted
  <2>2. OneDue(inq') /\ (RunDue(inq') <=> RunDue(inq))
    BY <2>1 DEF CountInv
  <2> QED BY <1>2, <2>1, <2>2
<1>7. CASE Drop /\ Own
  <2>1. UNCHANGED <<todo, exc, call>> /\ inq' = <<>> /\ ~Trusted'
    BY <1>7 DEF Drop, Own, Trusted
  <2>2. OneDue(inq') /\ ~RunDue(inq')
    BY <2>1 DEF OneDue, RunDue
  <2> QED BY <1>2, <2>1, <2>2
<1> QED BY <1>4, <1>5, <1>6, <1>7 DEF Environment

(* A handler that replaces the session and does not send the command.      *)
LEMMA RestartCount ==
  ASSUME IInv, NestInv, CountInv, todo # <<>>, Rank(frame) \in 1 .. 5,
         NEW rest \in Seq(Ranked(0 .. 5)),
         todo' = (Start(TRUE) \o rest) \o Tail(todo), inq' = <<>>,
         call'.op = call.op, call'.runs = call.runs, call'.resent = call.resent,
         call'.ready = call.ready
  PROVE  CountInv'
<1> DEFINE t == Tail(todo)
           b == Start(TRUE)
           p == b \o rest
<1>1. /\ \A S : Some(todo, S) <=> frame \in S \/ Some(t, S)
      /\ t \in Seq(Frame(Ops, Lines))
  BY BelowHead
<1>2. b \in Seq(Ranked(0 .. 5))
  <2>1. TRUE \in BOOLEAN /\ Ranked(0 .. 1) \subseteq Ranked(0 .. 5)
    BY DEF Ranked
  <2>2. b \in Seq(Ranked(0 .. 1))
    BY <2>1, StartMarks
  <2> QED BY <2>1, <2>2, SeqMonotonic
<1> HIDE DEF t, b
<1>3. p \in Seq(Ranked(0 .. 5)) /\ p \in Seq(Frame(Ops, Lines))
  <2>1. p \in Seq(Ranked(0 .. 5))
    BY <1>2, ConcatProperties
  <2>2. Ranked(0 .. 5) \subseteq Frame(Ops, Lines)
    BY DEF Ranked
  <2> QED BY <2>1, <2>2, SeqMonotonic
<1>4. todo' = p \o t
  BY DEF b, t
<1> HIDE DEF p
<1>5. \A S : Some(todo', S) <=> Some(p, S) \/ Some(t, S)
  <2>1. \A S : Some(p \o t, S) <=> Some(p, S) \/ Some(t, S)
    <3>1. p \in Seq(Frame(Ops, Lines)) /\ t \in Seq(Frame(Ops, Lines))
      BY <1>1, <1>3
    <3> QED BY <3>1, SomeConcat
  <2> QED BY ONLY <1>4, <2>1
<1>6. ~Some(p, Runs) /\ ~Some(p, Unsent) /\ ~Some(p, Ranked({6})) /\ ~Some(p, Ranked({7, 8}))
  BY <1>3, LowMarks
<1>7. frame \notin Runs /\ frame \in Reopens
  BY CountMarks, TypeFacts DEF Reopens
<1>8. Some(todo', Unsent) => ~Some(todo', Ranked({6}))
  BY <1>1, <1>5, <1>6 DEF CountInv
<1>9. /\ Some(todo', Runs) <=> Some(todo, Runs)
      /\ Some(todo', Ranked({7, 8})) => Some(todo, Ranked({7, 8}))
      /\ Some(todo, Reopens)
  BY <1>1, <1>5, <1>6, <1>7
<1>10. OneDue(inq') /\ ~RunDue(inq')
  BY DEF OneDue, RunDue
<1> QED BY <1>8, <1>9, <1>10, StackCount

(* The handler of the user's command sends it a second time, and there is  *)
(* no other.                                                               *)
LEMMA ResendCount ==
  ASSUME IInv, NestInv, CountInv, ExecRestarts, frame.line = Cmd
  PROVE  /\ CountInv' /\ todo' # <<>>
         /\ call.op = "exec_command" /\ ~call.resent
         /\ call' = [call EXCEPT !.restarts = @ + 1, !.resent = @ \/ frame.line = Cmd]
<1> DEFINE t == Tail(todo)
           b == Start(TRUE)
           s == Send(frame.line, frame.pats)
           q == <<s>>
<1>1. /\ todo # <<>> /\ frame.op = "except_exec" /\ inq' = <<>>
      /\ todo' = (b \o q) \o t
      /\ call' = [call EXCEPT !.restarts = @ + 1, !.resent = @ \/ frame.line = Cmd]
  BY DEF ExecRestarts, Raising, ExecCatches, Restart, Become, CleanupHelper
<1>2. /\ \A S : Some(todo, S) <=> frame \in S \/ Some(t, S)
      /\ t \in Seq(Frame(Ops, Lines))
      /\ \A r \in 1 .. 8 : r <= Rank(frame) => ~Some(t, Ranked({r}))
      /\ ~Some(t, Ranked({8}))
  BY <1>1, BelowHead
<1>3. Rank(frame) = 7 /\ frame \in Frame(Ops, Lines)
  BY <1>1, TypeFacts DEF Rank
<1>4. ~Some(t, Ranked({6})) /\ ~Some(t, Ranked({7})) /\ ~Some(t, Ranked({8}))
  <2>1. 6 \in 1 .. 8 /\ 7 \in 1 .. 8 /\ 6 <= Rank(frame) /\ 7 <= Rank(frame)
    BY <1>3
  <2> QED BY <1>2, <2>1
<1>5. ~Some(t, Unsent) /\ ~Some(t, Ranked({7, 8}))
  BY <1>4, CountMarks DEF Some, Ranked, Unsent
<1>6. b \in Seq(Ranked(0 .. 5)) /\ b \in Seq(Frame(Ops, Lines))
  <2>1. TRUE \in BOOLEAN /\ Ranked(0 .. 1) \subseteq Ranked(0 .. 5)
    BY DEF Ranked
  <2>2. b \in Seq(Ranked(0 .. 1)) /\ b \in Seq(Frame(Ops, Lines))
    BY <2>1, StartMarks
  <2> QED BY <2>1, <2>2, SeqMonotonic
<1>7. s \in Frame(Ops, Lines) /\ s.op = "send" /\ s.line = Cmd
  <2>1. frame.line \in Lines /\ frame.pats \in SUBSET Prompts
    BY <1>1, TypeFacts
  <2> QED BY <2>1, PlainInstr, InstrIsFrame DEF Send, Do
<1> HIDE DEF t, b, s
<1>8. Rank(s) = 6 /\ s \in Runs /\ s \notin Unsent /\ s \notin Ranked({7, 8})
  <2>1. Rank(s) = 6
    BY <1>7 DEF Rank
  <2> QED BY <1>7, <2>1 DEF Runs, Unsent, Ranked
<1>9. q \in Seq(Frame(Ops, Lines)) /\ \A S : Some(q, S) <=> s \in S
  BY <1>7, One, SomeShort
<1> HIDE DEF q
<1>10. \A S : Some(todo', S) <=> Some(b, S) \/ s \in S \/ Some(t, S)
  <2>1. \A S : Some(b \o q, S) <=> Some(b, S) \/ s \in S
    BY <1>6, <1>9, SomeConcat
  <2>2. b \o q \in Seq(Frame(Ops, Lines))
    BY <1>6, <1>9, ConcatProperties
  <2>3. \A S : Some((b \o q) \o t, S) <=> Some(b \o q, S) \/ Some(t, S)
    BY <1>2, <2>2, SomeConcat
  <2> QED BY <1>1, <2>1, <2>3
<1>11. ~Some(b, Unsent) /\ ~Some(b, Ranked({7, 8}))
  BY <1>6, LowMarks
<1>12. /\ ~Some(todo', Unsent) /\ ~Some(todo', Ranked({7, 8})) /\ Some(todo', Runs)
  BY <1>5, <1>8, <1>10, <1>11
<1>13. call.op = "exec_command" /\ ~call.resent /\ call.runs <= Earlier(call) + 1
  <2>1. Some(todo, Ranked({7, 8}))
    BY <1>2, <1>3 DEF Ranked
  <2> QED BY <2>1 DEF CountInv
<1>14. /\ call'.op = call.op /\ call'.runs = call.runs /\ call'.resent
       /\ call.runs \in Nat
  <2>1. call \in CallRecord
    BY TypeFacts
  <2> QED BY <1>1, <2>1 DEF CallRecord
<1>15. Earlier(call) = 0 /\ Earlier(call') = 1
  BY <1>13, <1>14 DEF Earlier
<1>16. call'.runs <= Earlier(call') /\ call'.runs <= Earlier(call') + 1
  BY <1>13, <1>14, <1>15
<1>17. OneDue(inq') /\ ~RunDue(inq')
  BY <1>1 DEF OneDue, RunDue
<1>18. todo' # <<>>
  BY <1>12, SomeShort
<1> QED BY <1>1, <1>12, <1>13, <1>14, <1>16, <1>17, <1>18 DEF CountInv

(* The handlers, and unwinding.                                            *)
LEMMA ExceptionsCount ==
  ASSUME IInv, NestInv, CountInv, Exceptions
  PROVE  CountInv'
<1>1. todo # <<>> /\ exc # "none" /\ call \in CallRecord /\ frame \in Frame(Ops, Lines)
  BY TypeFacts DEF Exceptions, EnterModeRestarts, ExecRestarts, Unwind, Raising
<1>2. CASE EnterModeRestarts
  <2> DEFINE rest == EnterMode(frame.mode, FALSE)
  <2>1. /\ frame.op = "except_enter" /\ frame.flag /\ inq' = <<>>
        /\ todo' = (Start(TRUE) \o rest) \o Tail(todo)
        /\ call' = [call EXCEPT !.restarts = @ + 1]
    BY <1>2 DEF EnterModeRestarts, EnterModeCatches, Restart, Become, CleanupHelper
  <2>2. Rank(frame) \in 1 .. 5
    BY <2>1 DEF Rank
  <2>3. frame.mode \in Modes \cup {"none", "undef"} /\ FALSE \in BOOLEAN
    BY <1>1 DEF Frame
  <2>4. rest \in Seq(Marked({2, 3, 4}))
    BY <2>3, EnterModeMarks
  <2> HIDE DEF rest
  <2>5. rest \in Seq(Ranked(0 .. 5))
    <3>1. {0} \cup {2, 3, 4} \subseteq 0 .. 5
      OBVIOUS
    <3> QED BY <2>4, <3>1, MarkedIsRanked
  <2>6. /\ call'.op = call.op /\ call'.runs = call.runs
        /\ call'.resent = call.resent /\ call'.ready = call.ready
    BY <1>1, <2>1 DEF CallRecord
  <2> QED BY <1>1, <2>1, <2>2, <2>5, <2>6, RestartCount
<1>3. CASE ExecRestarts /\ frame.line # Cmd
  <2> DEFINE s == Send(frame.line, frame.pats)
             rest == <<s>>
  <2>1. /\ frame.op = "except_exec" /\ inq' = <<>>
        /\ todo' = (Start(TRUE) \o rest) \o Tail(todo)
        /\ call' = [call EXCEPT !.restarts = @ + 1, !.resent = @ \/ frame.line = Cmd]
    BY <1>3 DEF ExecRestarts, ExecCatches, Restart, Become, CleanupHelper
  <2>2. Rank(frame) \in 1 .. 5
    BY <1>3, <2>1 DEF Rank
  <2>3. s \in Frame(Ops, Lines) /\ Rank(s) = 0
    <3>1. frame.line \in Lines /\ frame.pats \in SUBSET Prompts
      BY <1>1, TypeFacts
    <3>2. s \in Frame(Ops, Lines) /\ s.op = "send" /\ s.line = frame.line
      BY <3>1, PlainInstr, InstrIsFrame DEF Send, Do
    <3> QED BY <1>3, <3>2 DEF Rank
  <2> HIDE DEF s
  <2>4. rest \in Seq(Ranked(0 .. 5))
    <3>1. s \in Ranked(0 .. 5)
      BY <2>3 DEF Ranked
    <3> QED BY <3>1, One
  <2> HIDE DEF rest
  <2>5. /\ call'.op = call.op /\ call'.runs = call.runs
        /\ call'.resent = call.resent /\ call'.ready = call.ready
    BY <1>1, <1>3, <2>1 DEF CallRecord
  <2> QED BY <1>1, <2>1, <2>2, <2>4, <2>5, RestartCount
<1>4. CASE ExecRestarts /\ frame.line = Cmd
  BY <1>4, ResendCount
<1>5. CASE Unwind
  <2>1. todo' = Tail(todo) /\ call' = call /\ inq' = inq /\ exc' # "none"
    BY <1>1, <1>5 DEF Unwind, Quiet, wire
  <2>2. OneDue(inq') /\ (RunDue(inq') <=> RunDue(inq))
    BY <2>1 DEF CountInv
  <2> QED BY <1>1, <2>1, <2>2, PopCount
<1> QED BY <1>2, <1>3, <1>4, <1>5 DEF Exceptions

(* The user's calls: exec_command has its command still to send, the       *)
(* others none.                                                            *)
LEMMA UserCount ==
  ASSUME IInv, FreshInv, User
  PROVE  CountInv'
<1>1. OneDue(inq') /\ ~RunDue(inq')
  <2>1. NoneDue(inq')
    <3>1. CASE inq' = inq /\ Idle
      BY <3>1 DEF FreshInv, Waiting, Running, Idle
    <3>2. CASE inq' = <<>>
      BY <3>2 DEF NoneDue
    <3> QED BY <3>1, <3>2 DEF User, CallStart, CallEnterMode, CallEnterModeX,
               CallExecCommand, CallGetSubCommands, SetDefaultMode, Exit, Call,
               CleanupHelper, wire
  <2> QED BY <2>1 DEF NoneDue, OneDue, RunDue, Ran
<1>2. ASSUME NEW op, NEW mode, NEW program, Call(op, mode, program)
      PROVE  todo' = program /\ call'.op = op /\ call'.runs = 0 /\ call'.resent = FALSE
  BY <1>2 DEF Call, NewCall
<1>3. ASSUME todo' \in Seq(Ranked(0 .. 5)), call'.op # "exec_command"
      PROVE  CountInv'
  <2>1. /\ ~Some(todo', Runs) /\ ~Some(todo', Unsent)
        /\ ~Some(todo', Ranked({6})) /\ ~Some(todo', Ranked({7, 8}))
    BY <1>3, LowMarks
  <2> QED BY <1>1, <1>3, <2>1 DEF CountInv
<1>4. ASSUME NEW R, {0} \cup R \subseteq 0 .. 5
      PROVE  Seq(Marked(R)) \subseteq Seq(Ranked(0 .. 5))
  BY <1>4, MarkedIsRanked
<1>5. CASE CallStart
  <2>1. PICK runCli \in BOOLEAN : Call("start", "none", Start(runCli))
    BY <1>5 DEF CallStart
  <2>2. Start(runCli) \in Seq(Ranked(0 .. 1))
    BY StartMarks
  <2>3. Ranked(0 .. 1) \subseteq Ranked(0 .. 5)
    BY DEF Ranked
  <2>4. Start(runCli) \in Seq(Ranked(0 .. 5))
    BY <2>2, <2>3, SeqMonotonic
  <2>5. todo' \in Seq(Ranked(0 .. 5)) /\ call'.op = "start"
    BY <1>2, <2>1, <2>4
  <2> QED BY <1>3, <2>5
<1>6. CASE CallEnterMode
  <2>1. PICK mode \in UserModes : Call("enter_mode", mode, EnterMode(mode, TRUE))
    BY <1>6 DEF CallEnterMode
  <2>2. mode \in Modes \cup {"none", "undef"} /\ TRUE \in BOOLEAN
    BY UserModesAssumption
  <2>3. EnterMode(mode, TRUE) \in Seq(Marked({2, 3, 5}))
    BY <2>2, EnterModeMarks
  <2>4. {0} \cup {2, 3, 5} \subseteq 0 .. 5
    OBVIOUS
  <2>5. EnterMode(mode, TRUE) \in Seq(Ranked(0 .. 5))
    BY <1>4, <2>3, <2>4
  <2>6. todo' = EnterMode(mode, TRUE) /\ call'.op = "enter_mode"
    BY <1>2, <2>1
  <2> QED BY <1>3, <2>5, <2>6
<1>7. CASE CallEnterModeX
  <2>1. PICK mode \in UserModes \ {"subif"} :
          Call("enter_mode_x", mode, EnterModeBody(mode))
    BY <1>7 DEF CallEnterModeX
  <2>2. mode \in Modes \cup {"none", "undef"} /\ TRUE \in BOOLEAN
    BY UserModesAssumption
  <2>3. EnterModeBody(mode) \in Seq(Marked({2, 3}))
    BY <2>2, EnterModeMarks
  <2>4. {0} \cup {2, 3} \subseteq 0 .. 5
    OBVIOUS
  <2>5. EnterModeBody(mode) \in Seq(Ranked(0 .. 5))
    BY <1>4, <2>3, <2>4
  <2>6. todo' = EnterModeBody(mode) /\ call'.op = "enter_mode_x"
    BY <1>2, <2>1
  <2> QED BY <1>3, <2>5, <2>6
<1>8. CASE CallExecCommand
  <2>1. PICK mode \in UserModes \cup {"none", "undef"}, errorOk \in BOOLEAN :
          Call("exec_command", Resolved(mode),
               <<Exec(Cmd, mode, "any", errorOk, {})>>)
    BY <1>8 DEF CallExecCommand
  <2> DEFINE x == Exec(Cmd, mode, "any", errorOk, {})
  <2>2. x \in Frame(Ops, Lines) /\ x.op = "exec" /\ x.line = Cmd
    <3>1. x \in Instr
      BY ExecInner, UserModesAssumption DEF Lines
    <3> QED BY <3>1, InstrIsFrame DEF Exec
  <2>3. todo' = <<x>> /\ call'.op = "exec_command" /\ call'.runs = 0 /\ call'.resent = FALSE
    BY <1>2, <2>1
  <2> HIDE DEF x
  <2>4. x \in Runs /\ x \notin Unsent
    BY <2>2 DEF Runs, Unsent, Ranked, Rank
  <2>5. Some(todo', Runs) /\ ~Some(todo', Unsent)
    BY <2>3, <2>4, SomeShort
  <2>6. Earlier(call') = 0
    BY <2>3 DEF Earlier
  <2> QED BY <1>1, <2>3, <2>5, <2>6 DEF CountInv
<1>9. CASE CallGetSubCommands
  <2>1. Call("get_sub_commands", "none", <<Send(Help, AnyPrompt), Do("delete_line")>>)
    BY <1>9 DEF CallGetSubCommands
  <2>2. <<Send(Help, AnyPrompt), Do("delete_line")>> \in Seq(Marked({}))
    <3>1. Send(Help, AnyPrompt) \in Marked({}) /\ Do("delete_line") \in Marked({})
      BY InstrMarks DEF Lines, AnyPrompt, Prompts, Help, CliPath, Cmd
    <3> QED BY <3>1, Two
  <2>3. {0} \cup {} \subseteq 0 .. 5
    OBVIOUS
  <2>4. <<Send(Help, AnyPrompt), Do("delete_line")>> \in Seq(Ranked(0 .. 5))
    BY <1>4, <2>2, <2>3
  <2>5. /\ todo' = <<Send(Help, AnyPrompt), Do("delete_line")>>
        /\ call'.op = "get_sub_commands"
    BY <1>2, <2>1
  <2> QED BY <1>3, <2>4, <2>5
<1>10. CASE SetDefaultMode
  <2>1. Call("default_mode", "none", <<>>)
    BY <1>10 DEF SetDefaultMode
  <2>2. todo' = <<>> /\ call'.op = "default_mode"
    BY <1>2, <2>1
  <2> QED BY <1>3, <2>2
<1>11. CASE Exit
  <2>1. todo' = <<>> /\ call'.op = "exit"
    BY <1>11 DEF Exit, Idle, NewCall
  <2> QED BY <1>3, <2>1
<1> QED BY <1>5, <1>6, <1>7, <1>8, <1>9, <1>10, <1>11 DEF User

(* A CLI object just made has no command to run.                           *)
LEMMA InitCount == Init => CountInv
<1> SUFFICES ASSUME Init PROVE CountInv
  OBVIOUS
<1>1. todo = <<>> /\ inq = <<>> /\ call.op = "none"
  BY DEF Init, BaseInit, NoSession, NewCall
<1>2. \A S : ~Some(todo, S)
  BY <1>1, SomeShort
<1> QED BY <1>1, <1>2 DEF CountInv, OneDue, RunDue

(* Every step.                                                             *)
LEMMA StepCount ==
  ASSUME IInv, NestInv, FreshInv, ModeInv, CountInv, [Next]_vars
  PROVE  CountInv'
<1>1. CASE UNCHANGED vars
  <2>1. UNCHANGED <<todo, exc, inq, call>> /\ Trusted' = Trusted
    BY <1>1 DEF vars, baseVars, wire, Trusted
  <2> QED BY <2>1, StackCount DEF CountInv
<1> QED BY <1>1, LocalCount, ExchangeCount, ExceptionsCount, EnvironmentCount,
           UserCount DEF Next, Client

(* What has become of the user's command is known in every reachable       *)
(* state.                                                                  *)
LEMMA Counting == Spec => [](IInv /\ NestInv /\ FreshInv /\ ModeInv /\ CountInv)
<1>1. IInv /\ NestInv /\ FreshInv /\ ModeInv /\ CountInv /\ [Next]_vars
        => (IInv /\ NestInv /\ FreshInv /\ ModeInv /\ CountInv)'
  BY StepKeepsIInv, StepNests, StepFresh, StepMode, StepCount
<1> QED BY <1>1, InitIInv, InitNests, InitFresh, InitMode, InitCount, PTL DEF Spec

-----------------------------------------------------------------------------
(* The class keeps the promise of CliService.                              *)
ServedInv == IInv /\ NestInv /\ FreshInv /\ ModeInv /\ CountInv

(* The first state promises nothing.                                       *)
LEMMA ServiceInit == Init => Service!Init
<1> SUFFICES ASSUME Init PROVE Service!Init
  OBVIOUS
<1>1. /\ link = "none" /\ dev = "shell" /\ todo = <<>> /\ exc = "none"
      /\ call = NewCall("none", "none")
  BY DEF Init, BaseInit, NoSession
<1>2. Phase = "ok" /\ AtEmptyPrompt \in BOOLEAN
  BY <1>1 DEF Phase, AtEmptyPrompt
<1>3. Request = [kind |-> "other", goal |-> Prompts, ready |-> AtEmptyPrompt,
                 runs |-> 0, retried |-> FALSE]
  BY <1>1 DEF Request, NewCall, AtEmptyPrompt
<1>4. dev \in Prompts
  BY <1>1 DEF Prompts
<1> QED BY <1>1, <1>2, <1>3, <1>4 DEF Service!Init, Service!Call

(* The appliance is always at one of the places.                           *)
LEMMA AtPlace ==
  ASSUME IInv'
  PROVE  dev' \in Prompts /\ Service!Anywhere
<1>1. dev' \in Prompts
  BY DEF IInv, SessionInv, BaseTypeOK
<1>2. AtEmptyPrompt' \in BOOLEAN
  BY DEF AtEmptyPrompt
<1> QED BY <1>1, <1>2 DEF Service!Anywhere

(* A call that returns has done what it was to do.                         *)
LEMMA ReturnKeeps ==
  ASSUME ServedInv', todo' = <<>>, exc' = "none", Trusted'
  PROVE  /\ Request'.kind = "enter" => dev' \in Request'.goal
         /\ Request'.kind = "exec"  => (Request'.ready => Request'.runs >= 1)
<1>1. ~Waiting' /\ ~Some(todo', Runs)
  BY SomeShort DEF Waiting, Running
<1>2. ~RunDue(inq')
  BY <1>1 DEF ServedInv, FreshInv, NoneDue, RunDue, Ran
<1>3. ASSUME call'.op \in {"enter_mode", "enter_mode_x"}
      PROVE  dev' \in Request'.goal
  <2>1. here' \in Needs(Asked', todo', Landing(call'))
    BY <1>1 DEF ServedInv, ModeInv, HereTyped
  <2>2. Needs(Asked', todo', Landing(call')) = Landing(call')
    BY FitsNone
  <2>3. dev' = call'.mode
    BY <1>3, <2>1, <2>2 DEF Landing, At, here
  <2>4. dev' \in Prompts
    BY AtPlace DEF ServedInv
  <2> QED BY <1>3, <2>3, <2>4 DEF Request
<1>4. ASSUME call'.op = "exec_command", Request'.ready
      PROVE  Request'.runs >= 1
  <2>1. call'.ready
    BY <1>4 DEF Request
  <2>2. call'.runs >= 1
    BY <1>1, <1>2, <1>4, <2>1 DEF ServedInv, CountInv
  <2> QED BY <2>2 DEF Request
<1>5. /\ Request'.kind = "enter" => call'.op \in {"enter_mode", "enter_mode_x"}
      /\ Request'.kind = "exec" => call'.op = "exec_command"
  BY DEF Request
<1> QED BY <1>3, <1>4, <1>5

(* A step of the thread that leaves the appliance where it is, or gives up *)
(* on the session, ends the call or shows nothing.                         *)
LEMMA ThreadServes ==
  ASSUME ServedInv, ServedInv', Request' = Request, todo # <<>>,
         UNCHANGED <<link, dev, typed, lost>> \/ ~Trusted'
  PROVE  [Service!Next]_(Service!vars)
<1>1. Phase = "busy" /\ Service!Anywhere
  BY AtPlace DEF Phase, ServedInv
<1>2. \/ UNCHANGED <<Service!here, (link = "open" /\ ~lost)>>
      \/ ~(link = "open" /\ ~lost)' /\ Service!Anywhere
  BY <1>1 DEF Trusted, Service!here, AtEmptyPrompt
<1>3. CASE todo' # <<>>
  <2>1. Phase' = Phase
    BY <1>1, <1>3 DEF Phase
  <2> QED BY <1>1, <1>2, <2>1 DEF Service!vars, Service!Next, Service!Lose
<1>4. CASE todo' = <<>>
  <2>1. Phase' \in {"ok", "failed"} /\ (Phase' = "ok" => exc' = "none")
    BY <1>4 DEF Phase
  <2>2. ASSUME Phase' = "ok", (link = "open" /\ ~lost)'
        PROVE  /\ Request.kind = "enter" => dev \in Request.goal
               /\ Request.kind = "exec"  => (Request.ready => Request.runs >= 1)
    <3>1. Trusted' /\ UNCHANGED <<link, dev, lost>>
      BY <2>2 DEF Trusted
    <3>2. /\ Request'.kind = "enter" => dev' \in Request'.goal
          /\ Request'.kind = "exec"  => (Request'.ready => Request'.runs >= 1)
      BY <1>4, <2>1, <2>2, <3>1, ReturnKeeps
    <3> QED BY <3>1, <3>2
  <2>3. Service!KeepOrLose
    BY <1>2 DEF Service!KeepOrLose
  <2>4. Phase' = "ok" /\ (link = "open" /\ ~lost)' => Service!Kept
    BY <2>2 DEF Service!Kept
  <2>5. Service!Return
    BY <1>1, <2>1, <2>3, <2>4 DEF Service!Return
  <2> QED BY <2>5 DEF Service!Next
<1> QED BY <1>3, <1>4

(* The user's view of a call whose command is to be sent again.            *)
LEMMA RetryCounted ==
  ASSUME NEW k, NEW g, NEW d, NEW n, NEW r, NEW u, NEW request, NEW next,
         request = [kind |-> k, goal |-> g, ready |-> d, runs |-> n, retried |-> r],
         next = [kind |-> k, goal |-> g, ready |-> d, runs |-> n, retried |-> u]
  PROVE  next = [request EXCEPT !.retried = u]
<1>1. request \in [kind : {k}, goal : {g}, ready : {d}, runs : {n}, retried : {r}]
  OBVIOUS
<1>2. [request EXCEPT !.retried = u]
        = [kind |-> k, goal |-> g, ready |-> d, runs |-> n, retried |-> u]
  BY <1>1
<1> QED BY <1>2

(* Exchanges.                                                              *)
LEMMA ExchangeServes ==
  ASSUME ServedInv, ServedInv', Exchange
  PROVE  [Service!Next]_(Service!vars)
<1>1. Request' = Request /\ SessionInv(Ops, Lines)
  <2>1. call' = call
    BY DEF Exchange, Own
  <2> QED BY <2>1, TypeFacts DEF Request, ServedInv
<1>2. CASE OpenFails
  <2>1. todo # <<>> /\ ~Trusted'
    BY <1>1, <1>2, OpenFailsKeeps DEF Trusted
  <2> QED BY <1>1, <2>1, ThreadServes
<1>3. CASE OpenSucceeds(StartPrompt)
  <2>1. todo # <<>> /\ link' = "open" /\ todo' # <<>>
    BY <1>1, <1>3, RvbdVocabulary, OpenSucceedsKeeps DEF StartPrompt, Prompts
  <2>2. ~lost'
    BY <1>3 DEF OpenSucceeds
  <2>3. Phase = "busy" /\ Phase' = "busy"
    BY <2>1 DEF Phase
  <2>4. Service!Anywhere
    BY AtPlace DEF ServedInv
  <2>5. CASE Trusted
    <3>1. Service!Move
      BY <1>1, <2>1, <2>2, <2>3, <2>4, <2>5 DEF Service!Move, Trusted
    <3> QED BY <3>1 DEF Service!Next
  <2>6. CASE ~Trusted
    <3>1. Service!Open
      BY <1>1, <2>1, <2>2, <2>3, <2>4, <2>6 DEF Service!Open, Trusted
    <3> QED BY <3>1 DEF Service!Next
  <2> QED BY <2>5, <2>6
<1>4. CASE SendFails \/ ExpectClosed
  <2>1. todo # <<>> /\ UNCHANGED wire
    BY <1>4 DEF SendFails, ExpectClosed, Running
  <2> QED BY <1>1, <2>1, ThreadServes DEF wire
<1>5. CASE SendSucceeds \/ ExpectMatch \/ ExpectMore
  <2>1. todo # <<>> /\ UNCHANGED <<link, dev, typed, lost>>
    BY <1>5 DEF SendSucceeds, ExpectMatch, ExpectMore, Running
  <2> QED BY <1>1, <2>1, ThreadServes
<1>6. CASE ExpectTimeout
  <2>1. todo # <<>> /\ ~Trusted'
    BY <1>6 DEF ExpectTimeout, Running, Trusted
  <2> QED BY <1>1, <2>1, ThreadServes
<1> QED BY <1>2, <1>3, <1>4, <1>5, <1>6 DEF Exchange, Expect

(* Every other step of the thread.                                         *)
LEMMA ClientServes ==
  ASSUME ServedInv, ServedInv', Client
  PROVE  [Service!Next]_(Service!vars)
<1>1. call \in CallRecord
  BY TypeFacts DEF ServedInv
<1>2. CASE Local
  <2>1. UNCHANGED <<wire, call>> /\ todo # <<>>
    BY <1>2, LocalMoves DEF ServedInv
  <2>2. Request' = Request
    BY <2>1 DEF Request
  <2> QED BY <2>1, <2>2, ThreadServes DEF wire
<1>3. CASE EnterModeRestarts
  <2>1. /\ todo # <<>> /\ link' = "none"
        /\ call' = [call EXCEPT !.restarts = @ + 1]
    BY <1>3 DEF EnterModeRestarts, Raising, Restart, CleanupHelper
  <2>2. Request' = Request
    BY <1>1, <2>1 DEF Request, CallRecord
  <2>3. ~Trusted'
    BY <2>1 DEF Trusted
  <2> QED BY <2>1, <2>2, <2>3, ThreadServes
<1>4. CASE ExecRestarts /\ frame.line # Cmd
  <2>1. /\ todo # <<>> /\ link' = "none"
        /\ call' = [call EXCEPT !.restarts = @ + 1, !.resent = @ \/ frame.line = Cmd]
    BY <1>4 DEF ExecRestarts, Raising, Restart, CleanupHelper
  <2>2. /\ call'.op = call.op /\ call'.mode = call.mode /\ call'.ready = call.ready
        /\ call'.runs = call.runs /\ call'.resent = call.resent
    BY <1>1, <1>4, <2>1 DEF CallRecord
  <2>3. Request' = Request
    BY <2>2 DEF Request
  <2>4. ~Trusted'
    BY <2>1 DEF Trusted
  <2> QED BY <2>1, <2>3, <2>4, ThreadServes
<1>5. CASE ExecRestarts /\ frame.line = Cmd
  <2>1. /\ todo # <<>> /\ link' = "none"
    BY <1>5 DEF ExecRestarts, Raising, Restart, CleanupHelper
  <2>2. /\ todo' # <<>> /\ call.op = "exec_command" /\ ~call.resent
        /\ call' = [call EXCEPT !.restarts = @ + 1, !.resent = @ \/ frame.line = Cmd]
    BY <1>5, ResendCount DEF ServedInv
  <2>3. /\ call'.op = call.op /\ call'.mode = call.mode /\ call'.ready = call.ready
        /\ call'.runs = call.runs /\ call'.resent = TRUE /\ call.resent = FALSE
    BY <1>1, <1>5, <2>2 DEF CallRecord
  <2>4. Phase = "busy" /\ Phase' = "busy" /\ ~(link = "open" /\ ~lost)' /\ Service!Anywhere
    BY <2>1, <2>2, AtPlace DEF Phase, ServedInv
  <2>5. Request.kind = "exec" /\ Request.retried = FALSE
    BY <2>2, <2>3 DEF Request
  <2>6. Request' = [Request EXCEPT !.retried = TRUE]
    <3> DEFINE kind == CASE call.op \in {"enter_mode", "enter_mode_x"} -> "enter"
                         [] call.op = "exec_command" -> "exec"
                         [] OTHER                    -> "other"
               goal == IF call.mode = "none" THEN Prompts ELSE {call.mode}
               yes  == TRUE
    <3>1. Request = [kind |-> kind, goal |-> goal, ready |-> call.ready,
                     runs |-> call.runs, retried |-> call.resent]
      BY DEF Request
    <3>2. Request' = [kind |-> kind', goal |-> goal', ready |-> call'.ready,
                      runs |-> call'.runs, retried |-> call'.resent]
      BY DEF Request
    <3>3. kind' = kind /\ goal' = goal /\ call'.resent = yes
      BY <2>3
    <3> HIDE DEF kind, goal, yes
    <3>4. Request' = [kind |-> kind, goal |-> goal, ready |-> call.ready,
                      runs |-> call.runs, retried |-> yes]
      BY <2>3, <3>2, <3>3
    <3>5. Request' = [Request EXCEPT !.retried = yes]
      BY <3>1, <3>4, RetryCounted
    <3> QED BY <3>5 DEF yes
  <2>7. Service!Retry
    BY <2>4, <2>5, <2>6 DEF Service!Retry
  <2> QED BY <2>7 DEF Service!Next
<1>6. CASE Unwind
  <2>1. UNCHANGED <<wire, call>> /\ todo # <<>>
    BY <1>6 DEF Unwind, Quiet, Raising
  <2>2. Request' = Request
    BY <2>1 DEF Request
  <2> QED BY <2>1, <2>2, ThreadServes DEF wire
<1> QED BY <1>2, <1>3, <1>4, <1>5, <1>6, ExchangeServes DEF Client, Exceptions

(* enter_mode and enter_mode_<mode> have something to do.                  *)
LEMMA EnterModeNotEmpty ==
  ASSUME NEW mode \in Modes, NEW reinit \in BOOLEAN
  PROVE  EnterModeBody(mode) # <<>> /\ EnterMode(mode, reinit) # <<>>
<1>1. EnterModeBody(mode) # <<>>
  BY DEF EnterModeBody, EnterModeNormal, EnterModeEnable, EnterModeConfig, EnterModeShell
<1> DEFINE p == EnterModeBody(mode)
           x == [Do("except_enter") EXCEPT !.mode = mode, !.flag = reinit]
           q == <<x>>
<1>2. p \in Seq(Frame(Ops, Lines))
  <2>1. mode \in Modes \cup {"none", "undef"}
    OBVIOUS
  <2>2. p \in Seq(Marked({2, 3}))
    BY <2>1, EnterModeMarks
  <2>3. Marked({2, 3}) \subseteq Frame(Ops, Lines)
    BY InstrIsFrame DEF Marked
  <2> QED BY <2>2, <2>3, SeqMonotonic
<1>3. q \in Seq({x}) /\ q # <<>>
  OBVIOUS
<1>4. EnterMode(mode, reinit) = p \o q
  BY DEF EnterMode
<1> HIDE DEF p, q, x
<1>5. p \in Seq(Frame(Ops, Lines) \cup {x}) /\ q \in Seq(Frame(Ops, Lines) \cup {x})
  BY <1>2, <1>3, SeqMonotonic
<1>6. Len(p \o q) = Len(p) + Len(q) /\ Len(p) \in Nat /\ Len(q) \in Nat /\ Len(q) # 0
  BY <1>3, <1>5, ConcatProperties, EmptySeq
<1>7. p \o q # <<>>
  BY <1>6
<1> QED BY <1>1, <1>4, <1>7

(* A call of the user, with what the promise calls it and asks of it.      *)
LEMMA CallServes ==
  ASSUME NEW op \in UserOps \ {"default_mode"}, NEW mode \in Modes \cup {"none"},
         NEW prog, prog # <<>>, Call(op, mode, prog),
         op \in {"start", "get_sub_commands"} => mode = "none",
         op \in {"start", "get_sub_commands", "enter_mode", "enter_mode_x", "exec_command"}
  PROVE  Service!Next
<1>1. /\ todo = <<>> /\ todo' # <<>> /\ UNCHANGED wire
      /\ call' = NewCall(op, mode)
  BY DEF Call, Idle
<1>2. Phase # "busy" /\ Phase' = "busy"
  BY <1>1 DEF Phase
<1>3. UNCHANGED <<Service!here, (link = "open" /\ ~lost)>>
  BY <1>1 DEF wire, Service!here, AtEmptyPrompt
<1>4. Request' = [kind |-> CASE op \in {"enter_mode", "enter_mode_x"} -> "enter"
                             [] op = "exec_command" -> "exec"
                             [] OTHER -> "other",
                  goal |-> IF mode = "none" THEN Prompts ELSE {mode},
                  ready |-> mode # "none" \/ AtEmptyPrompt,
                  runs |-> 0, retried |-> FALSE]
  BY <1>1 DEF Request, NewCall
<1>5. mode # "none" => mode \in Prompts /\ {mode} # Prompts
  <2>1. "shell" \in Prompts /\ "normal" \in Prompts
    BY DEF Prompts
  <2> QED BY <2>1 DEF Modes, Prompts
<1>6. CASE op \in {"start", "get_sub_commands"}
  <2>1. Request' = [kind |-> "other", goal |-> Prompts,
                    ready |-> Prompts # Prompts \/ AtEmptyPrompt,
                    runs |-> 0, retried |-> FALSE]
    BY <1>4, <1>6
  <2>2. Service!Invoke
    BY <1>2, <1>3, <2>1 DEF Service!Invoke, Service!Call
  <2> QED BY <2>2 DEF Service!Next
<1>7. CASE op \notin {"start", "get_sub_commands"}
  <2>1. PICK kind \in {"enter", "exec"}, goal \in {{p} : p \in Prompts} \cup {Prompts} :
          Request' = [kind |-> kind, goal |-> goal, ready |-> goal # Prompts \/ AtEmptyPrompt,
                      runs |-> 0, retried |-> FALSE]
    <3> DEFINE kind == IF op = "exec_command" THEN "exec" ELSE "enter"
               goal == IF mode = "none" THEN Prompts ELSE {mode}
    <3>1. kind \in {"enter", "exec"} /\ goal \in {{p} : p \in Prompts} \cup {Prompts}
      BY <1>5
    <3>2. (mode # "none" \/ AtEmptyPrompt) = (goal # Prompts \/ AtEmptyPrompt)
      BY <1>5 DEF AtEmptyPrompt
    <3>3. Request' = [kind |-> kind, goal |-> goal,
                      ready |-> goal # Prompts \/ AtEmptyPrompt,
                      runs |-> 0, retried |-> FALSE]
      BY <1>4, <1>7, <3>2
    <3> HIDE DEF kind, goal
    <3> QED BY <3>1, <3>3
  <2>2. Service!Invoke
    BY <1>2, <1>3, <2>1 DEF Service!Invoke, Service!Call
  <2> QED BY <2>2 DEF Service!Next
<1> QED BY <1>6, <1>7

(* What takes no exchange: the session is closed, or left as it is.        *)
LEMMA ManageServes ==
  ASSUME IInv', todo = <<>>, todo' = <<>>, exc' = "none",
         NEW op \in {"default_mode", "exit"},
         call' = NewCall(op, "none"), UNCHANGED wire \/ link' = "none"
  PROVE  Service!Next
<1>1. Phase # "busy" /\ Phase' = "ok"
  BY DEF Phase
<1>2. Request' = [kind |-> "other", goal |-> Prompts,
                  ready |-> Prompts # Prompts \/ AtEmptyPrompt,
                  runs |-> 0, retried |-> FALSE]
  BY DEF Request, NewCall
<1>3. \/ UNCHANGED <<Service!here, (link = "open" /\ ~lost)>>
      \/ ~(link = "open" /\ ~lost)' /\ Service!Anywhere
  BY AtPlace DEF wire, Service!here, AtEmptyPrompt
<1>4. Service!Manage
  BY <1>1, <1>2, <1>3 DEF Service!Manage, Service!Call, Service!KeepOrLose
<1> QED BY <1>4 DEF Service!Next

(* The calls of the user.                                                  *)
LEMMA UserServes ==
  ASSUME IInv, IInv', User
  PROVE  Service!Next
<1>1. CASE CallStart
  <2>1. PICK runCli \in BOOLEAN : Call("start", "none", Start(runCli))
    BY <1>1 DEF CallStart
  <2>2. Start(runCli) # <<>>
    <3> DEFINE a == Open(StartPrompt)
               b == Do("start_cli")
               S == {a, b}
               p == <<a>>
               r == <<b>>
               q == IF runCli THEN r ELSE <<>>
    <3>1. a \in S /\ b \in S /\ Start(runCli) = p \o q
      BY DEF Start
    <3> HIDE DEF a, b, S
    <3>2. p \in Seq(S) /\ r \in Seq(S) /\ Len(p) = 1 /\ <<>> \in Seq(S)
      BY <3>1, One
    <3> HIDE DEF p, r
    <3>3. q \in Seq(S)
      BY <3>2
    <3> HIDE DEF q
    <3>4. Len(p \o q) = Len(p) + Len(q) /\ Len(q) \in Nat
      <4>1. p \in Seq(S) /\ q \in Seq(S)
        BY <3>2, <3>3
      <4> QED BY ONLY <4>1, ConcatProperties
    <3>5. p \o q # <<>>
      BY <3>2, <3>4
    <3> QED BY <3>1, <3>5
  <2> QED BY <2>1, <2>2, CallServes DEF UserOps
<1>2. CASE CallEnterMode
  <2>1. PICK mode \in UserModes : Call("enter_mode", mode, EnterMode(mode, TRUE))
    BY <1>2 DEF CallEnterMode
  <2>2. mode \in Modes /\ TRUE \in BOOLEAN
    BY UserModesAssumption
  <2>3. EnterMode(mode, TRUE) # <<>>
    BY <2>2, EnterModeNotEmpty
  <2> QED BY <2>1, <2>2, <2>3, CallServes DEF UserOps
<1>3. CASE CallEnterModeX
  <2>1. PICK mode \in UserModes \ {"subif"} :
          Call("enter_mode_x", mode, EnterModeBody(mode))
    BY <1>3 DEF CallEnterModeX
  <2>2. mode \in Modes /\ TRUE \in BOOLEAN
    BY UserModesAssumption
  <2>3. EnterModeBody(mode) # <<>>
    BY <2>2, EnterModeNotEmpty
  <2> QED BY <2>1, <2>2, <2>3, CallServes DEF UserOps
<1>4. CASE CallExecCommand
  <2>1. PICK mode \in UserModes \cup {"none", "undef"}, errorOk \in BOOLEAN :
          Call("exec_command", Resolved(mode),
               <<Exec(Cmd, mode, "any", errorOk, {})>>)
    BY <1>4 DEF CallExecCommand
  <2>2. Resolved(mode) \in Modes \cup {"none"}
    <3>1. defMode \in Modes \cup {"none"}
      BY TypeFacts
    <3> QED BY <3>1, UserModesAssumption DEF Resolved
  <2> DEFINE x == Exec(Cmd, mode, "any", errorOk, {})
  <2>3. <<x>> # <<>>
    OBVIOUS
  <2> HIDE DEF x
  <2>4. Call("exec_command", Resolved(mode), <<x>>)
    BY <2>1 DEF x
  <2> QED BY <2>2, <2>3, <2>4, CallServes DEF UserOps
<1>5. CASE CallGetSubCommands
  <2> DEFINE p == <<Send(Help, AnyPrompt), Do("delete_line")>>
  <2>1. Call("get_sub_commands", "none", p) /\ p # <<>>
    BY <1>5 DEF CallGetSubCommands
  <2> HIDE DEF p
  <2> QED BY <2>1, CallServes DEF UserOps
<1>6. CASE SetDefaultMode
  <2>1. /\ todo = <<>> /\ todo' = <<>> /\ exc' = "none" /\ UNCHANGED wire
        /\ call' = NewCall("default_mode", "none")
    BY <1>6 DEF SetDefaultMode, Call, Idle
  <2> QED BY <2>1, ManageServes
<1>7. CASE Exit
  <2>1. /\ todo = <<>> /\ todo' = <<>> /\ exc' = "none" /\ link' = "none"
        /\ call' = NewCall("exit", "none")
    BY <1>7 DEF Exit, Idle, CleanupHelper
  <2> QED BY <2>1, ManageServes
<1> QED BY <1>1, <1>2, <1>3, <1>4, <1>5, <1>6, <1>7 DEF User

(* The user's command is run on behalf of the call in progress, where it   *)
(* was asked for.                                                          *)
LEMMA RunServes ==
  ASSUME ServedInv, ServedInv', Answer, RunsCommand
  PROVE  Service!Next
<1>1. /\ link = "open" /\ inq # <<>> /\ UNCHANGED <<link, lost, todo, exc>>
      /\ call' = [call EXCEPT !.runs = @ + 1]
  BY DEF Answer, DeviceAnswers
<1>2. Service!Anywhere /\ (link = "open" /\ ~lost)' = (link = "open" /\ ~lost)
  BY <1>1, AtPlace DEF ServedInv
<1>3. call \in CallRecord /\ inq \in Seq(Line(Lines)) /\ dev \in Prompts
  BY TypeFacts DEF ServedInv, BaseTypeOK
<1>4. 1 \in DOMAIN inq /\ inq[1] = Ran
  <2>1. Head(inq) = Ran
    BY DEF RunsCommand, Ran
  <2>2. 1 \in DOMAIN inq /\ Head(inq) = inq[1]
    BY <1>1, <1>3
  <2> QED BY <2>1, <2>2
<1>5. RunDue(inq)
  BY <1>4 DEF RunDue
<1>6. Waiting
  <2>1. ~NoneDue(inq)
    BY <1>4 DEF NoneDue, Ran
  <2> QED BY <2>1 DEF ServedInv, FreshInv
<1>7. Phase = "busy" /\ Phase' = Phase
  BY <1>1, <1>6 DEF Phase, Waiting, Running
<1>8. call.op = "exec_command" /\ call.runs <= Earlier(call)
  BY <1>5 DEF ServedInv, CountInv
<1>9. /\ Request.kind = "exec" /\ Request.runs = call.runs /\ Request.retried = call.resent
      /\ Request.goal = IF call.mode = "none" THEN Prompts ELSE {call.mode}
  BY <1>8 DEF Request
<1>10. ASSUME link = "open" /\ ~lost, ~Request.retried
       PROVE  dev \in Request.goal
  <2>1. here \in SentFrom(Asked, Cmd) /\ ~call.resent
    BY <1>1, <1>4, <1>6, <1>9, <1>10 DEF ServedInv, ModeInv, ExchangeTyped, Trusted, Ran
  <2>2. call.mode # "none" => dev = call.mode
    BY <2>1 DEF SentFrom, Asked, here
  <2> QED BY <1>3, <1>9, <2>2
<1>11. Request.runs <= IF Request.retried THEN 1 ELSE 0
  BY <1>8, <1>9 DEF Earlier
<1>12. Request' = [Request EXCEPT !.runs = Request.runs + 1]
  <2>1. /\ call'.op = call.op /\ call'.mode = call.mode /\ call'.ready = call.ready
        /\ call'.resent = call.resent
        /\ call'.runs = call.runs + 1 /\ call.runs \in Nat
    BY <1>1, <1>3 DEF CallRecord
  <2> DEFINE kind == CASE call.op \in {"enter_mode", "enter_mode_x"} -> "enter"
                       [] call.op = "exec_command" -> "exec"
                       [] OTHER                    -> "other"
             goal == IF call.mode = "none" THEN Prompts ELSE {call.mode}
  <2>2. Request = [kind |-> kind, goal |-> goal, ready |-> call.ready,
                   runs |-> call.runs, retried |-> call.resent]
    BY DEF Request
  <2>3. Request' = [kind |-> kind', goal |-> goal', ready |-> call'.ready,
                    runs |-> call'.runs, retried |-> call'.resent]
    BY DEF Request
  <2>4. kind' = kind /\ goal' = goal
    BY <2>1
  <2> HIDE DEF kind, goal
  <2>5. Request' = [kind |-> kind, goal |-> goal, ready |-> call.ready,
                    runs |-> call'.runs, retried |-> call.resent]
    BY <2>1, <2>3, <2>4
  <2> QED BY <2>1, <2>2, <2>5, RunCounted
<1>13. Service!Run
  BY <1>2, <1>7, <1>9, <1>10, <1>11, <1>12 DEF Service!Run
<1> QED BY <1>13 DEF Service!Next

(* Whatever else the appliance answers is on behalf of the call as long as *)
(* the session is in step.                                                 *)
LEMMA AnswerServes ==
  ASSUME ServedInv, ServedInv', Answer
  PROVE  Service!Next
<1>1. CASE RunsCommand
  BY <1>1, RunServes
<1>2. CASE ~RunsCommand
  <2>1. inq # <<>> /\ UNCHANGED <<link, lost, todo, exc, call>>
    BY <1>2 DEF Answer, DeviceAnswers
  <2>2. Service!Anywhere /\ Phase' = Phase /\ Request' = Request
    BY <2>1, AtPlace DEF ServedInv, Phase, Request
  <2>3. CASE todo # <<>>
    <3>1. Service!Move
      BY <2>1, <2>2, <2>3 DEF Service!Move, Phase
    <3> QED BY <3>1 DEF Service!Next
  <2>4. CASE todo = <<>>
    <3>1. ~Trusted
      BY <2>1, <2>4, InStepFacts DEF ServedInv, Waiting, Running
    <3>2. Service!Lose
      BY <2>1, <2>2, <3>1 DEF Service!Lose, Trusted
    <3> QED BY <3>2 DEF Service!Next
  <2> QED BY <2>3, <2>4
<1> QED BY <1>1, <1>2

(* The appliance and the network.                                          *)
LEMMA EnvironmentServes ==
  ASSUME ServedInv, ServedInv', Environment
  PROVE  [Service!Next]_(Service!vars)
<1>1. CASE AnswerHelp
  <2>1. inq # <<>> /\ UNCHANGED <<link, lost, todo, exc, call>>
    BY <1>1 DEF AnswerHelp
  <2>2. Service!Anywhere /\ Phase' = Phase /\ Request' = Request
    BY <2>1, AtPlace DEF ServedInv, Phase, Request
  <2>3. CASE todo # <<>>
    <3>1. Service!Move
      BY <2>1, <2>2, <2>3 DEF Service!Move, Phase
    <3> QED BY <3>1 DEF Service!Next
  <2>4. CASE todo = <<>>
    <3>1. ~Trusted
      BY <2>1, <2>4, InStepFacts DEF ServedInv, Waiting, Running
    <3>2. Service!Lose
      BY <2>1, <2>2, <3>1 DEF Service!Lose, Trusted
    <3> QED BY <3>2 DEF Service!Next
  <2> QED BY <2>3, <2>4
<1>2. CASE Crash \/ (Drop /\ Own)
  <2>1. UNCHANGED <<todo, exc, call>> /\ ~(link = "open" /\ ~lost)'
    BY <1>2 DEF Crash, Drop, Own
  <2>2. Phase' = Phase /\ Request' = Request /\ Service!Anywhere
    BY <2>1, AtPlace DEF Phase, Request, ServedInv
  <2>3. Service!Lose
    BY <2>1, <2>2 DEF Service!Lose
  <2> QED BY <2>3 DEF Service!Next
<1> QED BY <1>1, <1>2, AnswerServes DEF Environment

(* RVBD_CLI implements CliService, for every backlog and every set of      *)
(* modes users ask for: however the connection fails, replies are lost     *)
(* with it, and the appliance refuses, crashes or lags, between calls it   *)
(* stays where it is, a mode change ends in its mode, a command runs where *)
(* it was asked for, and a second time only after the session was replaced *)
(* for it.  A call that returns has had its command run, if it names a     *)
(* mode or found the appliance at an empty prompt.                         *)
THEOREM Implements == Spec => ImplementsService
<1>1. ASSUME ServedInv, ServedInv', [Next]_vars
      PROVE  [Service!Next]_(Service!vars)
  <2>1. CASE UNCHANGED vars
    <3>1. UNCHANGED <<link, dev, typed, lost, todo, exc, call>>
      BY <2>1 DEF vars, baseVars, wire
    <3>2. Phase' = Phase /\ Request' = Request
      BY <3>1 DEF Phase, Request
    <3> QED BY <3>1, <3>2 DEF Service!vars, Service!here, AtEmptyPrompt
  <2>2. CASE User
    BY <1>1, <2>2, UserServes DEF ServedInv
  <2> QED BY <1>1, <2>1, <2>2, ClientServes, EnvironmentServes DEF Next
<1>2. Spec => []ServedInv
  BY Counting DEF ServedInv
<1> QED BY <1>1, <1>2, ServiceInit, PTL DEF Spec, ImplementsService, Service!Spec
=============================================================================
