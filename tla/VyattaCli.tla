------------------------------ MODULE VyattaCli ------------------------------
(***************************************************************************)
(* VyattaCLI: the CLI of a Vyatta router, on a CliSession.  The router has *)
(* two modes, and refuses to leave configuration mode while there are      *)
(* changes nobody committed: enter_mode_normal then raises, unless it was  *)
(* told to discard them.  The refusal is a line of its own ("Cannot        *)
(* exit...") followed by the configuration prompt; the CLI matches the     *)
(* line, so the prompt behind it may be left for the next expect().        *)
(*                                                                         *)
(* Definitions whose name begins with Bug are faults a change could bring  *)
(* in; nothing uses them but the check that the properties notice.         *)
(***************************************************************************)
EXTENDS CliSession

VARIABLES
  dirty,  \* the router holds configuration changes that are not committed
  call    \* the user's call: its name, its arguments, how often its command ran

vars == <<baseVars, dirty, call>>

-----------------------------------------------------------------------------
AnyPrompt == {"normal", "config"}                  \* CLI_ANY_PROMPT
Paging    == "set terminal length 0"
Cmds      == {"show", "set", "commit"}             \* the user's commands
Lines     == {"", Paging, "configure", "exit", "exit discard"} \cup Cmds
Ops       == {"open", "wait", "send", "normal_from", "config_from",
              "refused", "unknown_mode", "check"}
CallRecord == [op : {"none", "start", "exit", "enter_mode", "exec_command"},
               mode : Modes \cup {"none"}, force : BOOLEAN,
               cmd : Cmds \cup {"none"}, runs : Nat]

(* The methods' bodies.                                                    *)
Probe == Send("", AnyPrompt)                       \* current_cli_mode

BugStart == <<Open({"normal"}), Send("terminal length 0", {"normal"})>>

Start == <<Open({"normal"}), Send(Paging, {"normal"})>>

EnterModeNormal(force) == <<Probe, [Do("normal_from") EXCEPT !.flag = force]>>
EnterModeConfig        == <<Probe, Do("config_from")>>

EnterMode(mode, force) ==
  CASE mode = "normal" -> EnterModeNormal(force)
    [] mode = "config" -> EnterModeConfig
    [] OTHER           -> <<Do("unknown_mode")>>

(* "[edit]" ends every output of configuration mode; it is taken out only  *)
(* when the call named that mode.                                          *)
Check(mode, output) == [Do("check") EXCEPT !.mode = mode, !.out = output]

BugExecWithoutMode(cmd, mode, force, output) ==
  <<Send(cmd, AnyPrompt), Check(mode, output)>>

ExecCommand(cmd, mode, force, output) ==
  (IF mode = "none" THEN <<>> ELSE EnterMode(mode, force))
    \o <<Send(cmd, AnyPrompt), Check(mode, output)>>

-----------------------------------------------------------------------------
(* Steps of the client thread between two exchanges.                       *)
Quiet == UNCHANGED <<wire, got>>

BugNormalFrom ==
  /\ Running("normal_from")
  /\ Become(IF got.prompt = "normal" THEN <<>>
            ELSE IF frame.flag THEN <<Send("exit discard", {"normal"})>>
            ELSE <<Send("exit", {"cannot"} \cup AnyPrompt), Do("refused")>>)
  /\ Quiet /\ UNCHANGED exc

BugAlwaysDiscard ==
  /\ Running("normal_from")
  /\ Become(IF got.prompt = "normal" THEN <<>>
            ELSE <<Send("exit discard", {"normal"})>>)
  /\ Quiet /\ UNCHANGED exc

NormalFrom ==
  /\ Running("normal_from")
  /\ Become(IF got.prompt = "normal" THEN <<>>
            ELSE IF frame.flag THEN <<Send("exit discard", {"normal"})>>
            ELSE <<Send("exit", {"cannot", "normal"}), Do("refused")>>)
  /\ Quiet /\ UNCHANGED exc

ConfigFrom ==
  /\ Running("config_from")
  /\ Become(IF got.prompt = "config" THEN <<>> ELSE <<Send("configure", {"config"})>>)
  /\ Quiet /\ UNCHANGED exc

BugIgnoreRefusal == Running("refused") /\ Become(<<>>) /\ Quiet /\ UNCHANGED exc

Refused ==
  /\ Running("refused")
  /\ \/ got.prompt = "cannot" /\ Raise("CLIError")
     \/ got.prompt # "cannot" /\ Become(<<>>) /\ UNCHANGED exc
  /\ Quiet

UnknownMode == Running("unknown_mode") /\ Raise("UnknownCLIMode") /\ Quiet

(* exec_command on the output of the command: nothing is an error to it.   *)
CheckOutput ==
  /\ Running("check")
  /\ LET shown == got.out # "none" \/ (got.prompt = "config" /\ frame.mode # "config")
     IN  IF frame.out = "any" \/ (frame.out # "none") = shown
         THEN Become(<<>>) /\ UNCHANGED exc
         ELSE Raise("UnexpectedOutput")
  /\ Quiet

Unwind == exc # "none" /\ todo # <<>> /\ todo' = Tail(todo) /\ Quiet /\ UNCHANGED exc

-----------------------------------------------------------------------------
(* The user.                                                               *)
NewCall(op, mode, force, cmd) ==
  [op |-> op, mode |-> mode, force |-> force, cmd |-> cmd, runs |-> 0]

Ready == Idle /\ Backlog <= MaxBacklog

Call(op, mode, force, cmd, program) ==
  /\ todo' = program /\ exc' = "none"
  /\ call' = NewCall(op, mode, force, cmd)
  /\ UNCHANGED <<wire, got, dirty>>

CallStart == Ready /\ Call("start", "none", FALSE, "none", Start)

CallEnterMode ==
  /\ Ready
  /\ \E mode \in {"normal", "config", "enable"}, force \in BOOLEAN :
       Call("enter_mode", mode, force, "none", EnterMode(mode, force))

CallExecCommand ==
  /\ Ready
  /\ \E cmd \in Cmds, mode \in {"normal", "config", "none"}, force \in BOOLEAN,
        output \in {"any", "none", "text"} :
       Call("exec_command", mode, force, cmd, ExecCommand(cmd, mode, force, output))

Exit == /\ Idle /\ link # "none"
        /\ CleanupHelper
        /\ exc' = "none" /\ dirty' = FALSE
        /\ call' = NewCall("exit", "none", FALSE, "none")
        /\ UNCHANGED <<todo, got>>

-----------------------------------------------------------------------------
(* The router.                                                             *)
FromNormal(line) ==
  CASE line \in {"", Paging} -> Stay("normal")
    [] line = "configure"    -> Stay("config")
    [] line = "show"         -> Show("normal")
    [] OTHER                 -> Refuse("normal")

FromConfig(line) ==
  CASE line = ""                           -> Stay("config")
    [] line \in {"exit", "exit discard"}   -> Stay("normal")
    [] line \in Cmds                       -> Show("config")
    [] OTHER                               -> Refuse("config")

Ran(line) == call' = IF line = [line |-> call.cmd, due |-> TRUE]
                     THEN [call EXCEPT !.runs = @ + 1] ELSE call

RefusesToExit == dev = "config" /\ dirty /\ Head(inq).line = "exit"

Answer ==
  /\ link = "open" /\ inq # <<>> /\ ~RefusesToExit
  /\ DeviceAnswers(IF dev = "config" THEN FromConfig(Head(inq).line)
                                     ELSE FromNormal(Head(inq).line))
  /\ dirty' \in IF dev # "config" \/ Head(inq).line = "exit discard" THEN {FALSE}
                ELSE CASE Head(inq).line = "set"    -> {dirty, TRUE}
                       [] Head(inq).line = "commit" -> {dirty, FALSE}
                       [] OTHER                     -> {dirty}
  /\ Ran(Head(inq))

RefuseExit ==
  /\ link = "open" /\ inq # <<>> /\ RefusesToExit
  /\ \E rest \in {"none", "text"} :
       rx' = rx \o <<[prompt |-> "cannot", out |-> "none", due |-> Head(inq).due],
                     [prompt |-> "config", out |-> rest, due |-> Head(inq).due]>>
  /\ inq' = Tail(inq)
  /\ UNCHANGED <<link, dev, typed, todo, exc, got, lost, dirty, call>>

(* The changes die with the session.                                       *)
LoseSession == Drop /\ dirty' = FALSE /\ UNCHANGED call

-----------------------------------------------------------------------------
Init == BaseInit /\ dirty = FALSE /\ call = NewCall("none", "none", FALSE, "none")

User == CallStart \/ CallEnterMode \/ CallExecCommand \/ Exit

Opening == (OpenFails \/ OpenSucceeds({"normal"})) /\ dirty' = FALSE

Exchange == (SendFails \/ SendSucceeds \/ Expect) /\ UNCHANGED dirty

Local == /\ NormalFrom \/ ConfigFrom \/ Refused \/ UnknownMode \/ CheckOutput \/ Unwind
         /\ UNCHANGED dirty

Client == (Opening \/ Exchange \/ Local) /\ UNCHANGED call

Next == User \/ Client \/ Answer \/ RefuseExit \/ LoseSession

Spec == Init /\ [][Next]_vars

-----------------------------------------------------------------------------
TypeOK == BaseTypeOK(Ops, Lines) /\ dirty \in BOOLEAN /\ call \in CallRecord

(* The CLI falls at most one reply behind the router on a session where no *)
(* expect() was given up, however often the router refuses to leave        *)
(* configuration mode: the next exit skips what an earlier refusal left.   *)
AtMostOneReplyBehind ==
  link = "open" /\ ~lost => Backlog <= IF Waiting THEN 3 ELSE 1

(* enter_mode returns only in the mode asked for, a refused exit and the   *)
(* prompt it left behind included.                                         *)
EnterModeLands ==
  Idle /\ exc = "none" /\ call.op = "enter_mode" /\ link = "open" /\ ~lost
    => dev = call.mode

(* The router runs the user's command in the mode the call asked for.      *)
CommandInRequestedMode ==
  [][ call'.runs = call.runs + 1 /\ ~lost /\ call.mode # "none"
        => dev = call.mode ]_vars

(* While no expect() was given up, uncommitted changes are lost to nothing *)
(* but a commit, a call that said force or a new session: a refused exit   *)
(* and the replies it shifts never make the CLI discard them unasked.      *)
ChangesSurvive ==
  [][ dirty /\ ~dirty' /\ link' = "open" /\ ~lost /\ call.op # "start"
        => Head(inq).line = "commit" \/ call.force ]_vars

(* What exec_command returns is the command's output (its docstring).      *)
OutputIsOfCommand ==
  Idle /\ exc = "none" /\ call.op = "exec_command" /\ ~lost => got.due
=============================================================================
