------------------------------ MODULE RvbdCli ------------------------------
(***************************************************************************)
(* RVBD_CLI: the CLI of a Riverbed appliance, on a CliSession.  A user     *)
(* calls one method at a time; methods probe the mode, change it, run      *)
(* commands, and restart the session when the connection fails.  The       *)
(* appliance may refuse a mode, ask for a password, lose its CLI process   *)
(* or its connection at any moment, and answer as late as it likes.        *)
(*                                                                         *)
(* Definitions whose name begins with Bug are faults a change could bring  *)
(* in; nothing uses them but the check that the properties notice.         *)
(***************************************************************************)
EXTENDS CliSession

CONSTANT UserModes   \* the modes users ask for

ASSUME UserModesAssumption == UserModes \subseteq Modes

VARIABLES
  defMode,  \* self._default_mode
  prompt,   \* self._prompt: the prompts exec_command waits for by default
  call      \* the user's call: its name, the mode it asks for, whether it
            \* goes there or found the appliance at an empty prompt, how often
            \* it restarted the session and ran its command, and whether it
            \* re-sent it

vars == <<baseVars, defMode, prompt, call>>

-----------------------------------------------------------------------------
(* Prompt patterns and command lines.                                      *)
AnyPrompt   == {"normal", "enable", "config"}      \* CLI_ANY_PROMPT
StartPrompt == {"normal", "shell"}                 \* CLI_START_PROMPT
CliPath     == "/opt/tms/bin/cli"
Paging      == "no cli session paging enable"
Cmd         == "show"                              \* the user's command
Help        == "root ?"                            \* sent without line end

Lines == {"", CliPath, Paging, Cmd, Help, "enable", "disable", "exit",
          "configure terminal", "_shell"}

(* The points between two exchanges where a method goes on, and the        *)
(* handlers.                                                               *)
Ops == {"open", "wait", "send", "start_cli", "run_cli", "normal_from",
        "enable_from", "config_from", "enter_shell", "shell_from", "password",
        "unknown_mode", "exec", "exec_send", "check", "cli_error",
        "delete_line", "except_enter", "except_exec"}
UserOps == {"none", "start", "exit", "enter_mode", "enter_mode_x",
            "exec_command", "get_sub_commands", "default_mode"}

ConnectionErrors == {"ConnectionError", "CLINotRunning"}

-----------------------------------------------------------------------------
(* The methods' bodies, as instructions.                                   *)
Probe == Send("", AnyPrompt \cup {"shell"})        \* current_cli_mode

Start(runCli) ==
  <<Open(StartPrompt)>> \o IF runCli THEN <<Do("start_cli")>> ELSE <<>>

EnterModeNormal == <<Probe, Do("normal_from")>>
EnterModeEnable == <<Probe, Do("enable_from")>>
EnterModeConfig == <<Probe, Do("config_from")>>
EnterModeShell  == <<Do("enter_shell"), Probe, Do("shell_from")>>

EnterModeBody(mode) ==
  CASE mode = "normal" -> EnterModeNormal
    [] mode = "enable" -> EnterModeEnable
    [] mode = "config" -> EnterModeConfig
    [] mode = "shell"  -> EnterModeShell
    [] OTHER           -> <<Do("unknown_mode")>>

BugReinitAgain(mode, reinit) ==
  EnterModeBody(mode) \o
    <<[Do("except_enter") EXCEPT !.mode = mode, !.flag = TRUE]>>

EnterMode(mode, reinit) ==
  EnterModeBody(mode) \o
    <<[Do("except_enter") EXCEPT !.mode = mode, !.flag = reinit]>>

(* exec_command(line, mode, output_expected, error_expected, prompt); no   *)
(* patterns stand for prompt=None.                                         *)
Exec(line, mode, output, errorOk, pats) ==
  [op |-> "exec", line |-> line, mode |-> mode, out |-> output,
   flag |-> errorOk, pats |-> pats]

BugConfigTerminal == Exec("configure terminal", "none", "any", TRUE, AnyPrompt)

ConfigTerminal == Exec("configure terminal", "none", "any", FALSE, AnyPrompt)
ShellCommand   == Exec("_shell", "undef", "none", FALSE, StartPrompt)
Enable         == <<Send("enable", {"enable", "password"}), Do("password")>>

(* What enter_mode_<mode> does from each mode but the shell.               *)
BugToNormal == [p \in Prompts |->
  CASE p \in {"enable", "config"} -> <<Send("disable", AnyPrompt)>>
    [] OTHER -> <<>>]

ToNormal == [p \in Prompts |->
  CASE p = "enable" -> <<Send("disable", {"normal"})>>
    [] p = "config" -> <<Send("exit", {"enable"}), Send("disable", {"normal"})>>
    [] OTHER        -> <<>>]
ToEnable == [p \in Prompts |->
  CASE p = "normal" -> Enable
    [] p = "config" -> <<Send("exit", {"enable"})>>
    [] OTHER        -> <<>>]
ToConfig == [p \in Prompts |->
  CASE p = "normal" -> Enable \o <<ConfigTerminal>>
    [] p = "enable" -> <<ConfigTerminal>>
    [] OTHER        -> <<>>]

-----------------------------------------------------------------------------
(* Steps of the client thread between two exchanges with the appliance.    *)
Quiet == UNCHANGED <<wire, got, call>>

BugStartCliKeepsUndef ==
  /\ Running("start_cli")
  /\ defMode' = "undef"
  /\ Become(<<Probe, Do("run_cli")>>)
  /\ Quiet /\ UNCHANGED <<exc, prompt>>

(* RVBD_CLI.start after the session is up, run_cli=True.                   *)
StartCli ==
  /\ Running("start_cli")
  /\ defMode' = "enable"
  /\ Become(<<Probe, Do("run_cli")>>)
  /\ Quiet /\ UNCHANGED <<exc, prompt>>

RunCliFromShell ==
  /\ Running("run_cli")
  /\ Become((IF got.prompt = "shell" THEN <<Send(CliPath, {"normal"})>> ELSE <<>>)
            \o EnterModeNormal \o <<Send(Paging, {"normal"})>>)
  /\ Quiet /\ UNCHANGED <<exc, defMode, prompt>>

(* The branch of enter_mode_normal, _enable and _config on the probed mode. *)
BugLeaveFor(op, to) ==
  /\ Running(op)
  /\ Become(IF got.prompt = "shell"
            THEN <<Send(CliPath, {"normal"}), Probe, Do(op)>>
            ELSE to[got.prompt])
  /\ Quiet /\ UNCHANGED <<exc, defMode, prompt>>

LeaveFor(op, to) ==
  /\ Running(op)
  /\ \/ got.prompt = "shell" /\ Raise("CLINotRunning")
     \/ got.prompt # "shell" /\ Become(to[got.prompt]) /\ UNCHANGED exc
  /\ Quiet /\ UNCHANGED <<defMode, prompt>>

(* _enable: self._password is set nowhere, so a password prompt is as far  *)
(* as it gets.                                                             *)
Password ==
  /\ Running("password")
  /\ \/ got.prompt = "password" /\ Raise("AttributeError")
     \/ got.prompt # "password" /\ Become(<<>>) /\ UNCHANGED exc
  /\ Quiet /\ UNCHANGED <<defMode, prompt>>

EnterShell ==
  /\ Running("enter_shell")
  /\ defMode' = "none" /\ prompt' = {"shell"}
  /\ Become(<<>>)
  /\ Quiet /\ UNCHANGED exc

ShellFrom ==
  /\ Running("shell_from")
  /\ Become(CASE got.prompt = "shell"  -> <<>>
              [] got.prompt = "normal" -> EnterModeEnable \o <<ShellCommand>>
              [] OTHER                 -> <<ShellCommand>>)
  /\ Quiet /\ UNCHANGED <<exc, defMode, prompt>>

UnknownMode ==
  /\ Running("unknown_mode")
  /\ Raise("UnknownCLIMode")
  /\ Quiet /\ UNCHANGED <<defMode, prompt>>

(* exec_command up to and including the mode change ...                    *)
Resolved(mode) == IF mode = "undef" THEN defMode ELSE mode

ExecCommand ==
  /\ Running("exec")
  /\ LET mode == Resolved(frame.mode)
     IN  Become((IF mode = "none" THEN <<>> ELSE EnterMode(mode, TRUE))
                \o <<[frame EXCEPT !.op = "exec_send"]>>)
  /\ Quiet /\ UNCHANGED <<exc, defMode, prompt>>

(* ... the command itself, under its handler ...                           *)
ExecSend ==
  /\ Running("exec_send")
  /\ LET pats == IF frame.pats = {} THEN prompt ELSE frame.pats
     IN  Become(<<Send(frame.line, pats),
                  [Send(frame.line, pats) EXCEPT !.op = "except_exec"],
                  [frame EXCEPT !.op = "check"]>>)
  /\ Quiet /\ UNCHANGED <<exc, defMode, prompt>>

(* ... and what it makes of the output.                                    *)
CheckOutput ==
  /\ Running("check")
  /\ \/ got.out = "error" /\ frame.flag /\ Become(<<>>) /\ UNCHANGED exc
     \/ got.out = "error" /\ ~frame.flag
        /\ Become(<<Probe, Do("cli_error")>>) /\ UNCHANGED exc
     \/ got.out # "error" /\ frame.out \in {"any", got.out}
        /\ Become(<<>>) /\ UNCHANGED exc
     \/ got.out # "error" /\ frame.out \notin {"any", got.out}
        /\ Raise("UnexpectedOutput")
  /\ Quiet /\ UNCHANGED <<defMode, prompt>>

RaiseCliError ==
  /\ Running("cli_error")
  /\ Raise("CLIError")
  /\ Quiet /\ UNCHANGED <<defMode, prompt>>

(* get_sub_commands: DELETE_LINE is bytes, the line end appended to it is  *)
(* not, so the line is never deleted.                                      *)
DeleteLine ==
  /\ Running("delete_line")
  /\ Raise("TypeError")
  /\ Quiet /\ UNCHANGED <<defMode, prompt>>

(* A try block that ended without an exception.                            *)
LeaveTry ==
  /\ Running("except_enter") \/ Running("except_exec")
  /\ Become(<<>>)
  /\ Quiet /\ UNCHANGED <<exc, defMode, prompt>>

-----------------------------------------------------------------------------
(* Exceptions.                                                             *)
Raising == exc # "none" /\ todo # <<>>

EnterModeCatches == /\ frame.op = "except_enter" /\ frame.flag
                    /\ exc \in ConnectionErrors \cup {"SocketError"}
BugExecCatches   == /\ frame.op = "except_exec"
                    /\ exc \in ConnectionErrors \cup {"CmdlineTimeout"}
ExecCatches      == frame.op = "except_exec" /\ exc \in ConnectionErrors

Restart(rest) ==
  /\ CleanupHelper
  /\ exc' = "none"
  /\ Become(Start(TRUE) \o rest)
  /\ UNCHANGED <<got, defMode, prompt>>

EnterModeRestarts ==
  /\ Raising /\ EnterModeCatches
  /\ Restart(EnterMode(frame.mode, FALSE))
  /\ call' = [call EXCEPT !.restarts = @ + 1]

ExecRestarts ==
  /\ Raising /\ ExecCatches
  /\ Restart(<<Send(frame.line, frame.pats)>>)
  /\ call' = [call EXCEPT !.restarts = @ + 1, !.resent = @ \/ frame.line = Cmd]

Unwind ==
  /\ Raising /\ ~EnterModeCatches /\ ~ExecCatches
  /\ todo' = Tail(todo)
  /\ Quiet /\ UNCHANGED <<exc, defMode, prompt>>

-----------------------------------------------------------------------------
(* The user.                                                               *)
NewCall(op, mode) ==
  [op |-> op, mode |-> mode, ready |-> mode # "none" \/ AtEmptyPrompt,
   restarts |-> 0, runs |-> 0, resent |-> FALSE]

Call(op, mode, program) ==
  /\ Idle /\ Backlog <= MaxBacklog
  /\ todo' = program /\ exc' = "none"
  /\ call' = NewCall(op, mode)
  /\ UNCHANGED <<wire, got, prompt>>

CallStart == /\ \E runCli \in BOOLEAN : Call("start", "none", Start(runCli))
             /\ UNCHANGED defMode

CallEnterMode == /\ \E mode \in UserModes :
                      Call("enter_mode", mode, EnterMode(mode, TRUE))
                 /\ UNCHANGED defMode

(* enter_mode_normal and its like, called without enter_mode around them.  *)
CallEnterModeX ==
  /\ \E mode \in UserModes \ {"subif"} :
       Call("enter_mode_x", mode, EnterModeBody(mode))
  /\ UNCHANGED defMode

CallExecCommand ==
  /\ \E mode \in UserModes \cup {"none", "undef"}, errorOk \in BOOLEAN :
       Call("exec_command", Resolved(mode),
            <<Exec(Cmd, mode, "any", errorOk, {})>>)
  /\ UNCHANGED defMode

CallGetSubCommands ==
  /\ Call("get_sub_commands", "none", <<Send(Help, AnyPrompt), Do("delete_line")>>)
  /\ UNCHANGED defMode

SetDefaultMode ==
  /\ Call("default_mode", "none", <<>>)
  /\ defMode' \in UserModes

Exit == /\ Idle /\ link # "none"
        /\ CleanupHelper
        /\ exc' = "none" /\ call' = NewCall("exit", "none")
        /\ UNCHANGED <<todo, got, defMode, prompt>>

-----------------------------------------------------------------------------
(* The appliance.                                                          *)
FromShell(line) ==
  CASE line = ""      -> Stay("shell")
    [] line = CliPath -> Stay("normal") \cup Refuse("shell")
    [] line = Cmd     -> Stay("shell") \cup Refuse("shell")
    [] OTHER          -> Refuse("shell")

FromNormal(line) ==
  CASE line \in {"", Paging, "disable"} -> Stay("normal")
    [] line = "enable" -> Stay("enable") \cup Stay("password") \cup Refuse("normal")
    [] line = "exit"   -> Stay("shell")
    [] line = Cmd      -> Show("normal")
    [] OTHER           -> Refuse("normal")

FromEnable(line) ==
  CASE line \in {"", Paging, "enable"} -> Stay("enable")
    [] line = "disable"            -> Stay("normal")
    [] line = "configure terminal" -> Stay("config") \cup Refuse("enable")
    [] line = "_shell"             -> Stay("shell") \cup Refuse("enable")
    [] line = "exit"               -> Stay("shell")
    [] line = Cmd                  -> Show("enable")
    [] OTHER                       -> Refuse("enable")

FromConfig(line) ==
  CASE line \in {"", Paging, "enable", "configure terminal"} -> Stay("config")
    [] line = "exit"   -> Stay("enable")
    [] line = "_shell" -> Stay("shell") \cup Refuse("config")
    [] line = Cmd      -> Show("config")
    [] OTHER           -> Refuse("config")

Effects(mode, line) ==
  CASE mode = "shell"    -> FromShell(line)
    [] mode = "normal"   -> FromNormal(line)
    [] mode = "enable"   -> FromEnable(line)
    [] mode = "config"   -> FromConfig(line)
    [] mode = "password" -> Refuse("normal")     \* a wrong password
    [] OTHER             -> Stay(mode)

(* The appliance runs the command the current call waits on: it is not     *)
(* taken for a password, or for the end of a line typed before.            *)
RunsCommand == AtEmptyPrompt /\ Head(inq) = [line |-> Cmd, due |-> TRUE]

Answer ==
  /\ link = "open" /\ inq # <<>> /\ Head(inq).line # Help
  /\ DeviceAnswers(Effects(dev, Head(inq).line))
  /\ call' = IF RunsCommand THEN [call EXCEPT !.runs = @ + 1] ELSE call
  /\ UNCHANGED <<defMode, prompt>>

(* The CLI prints its help and the line again; a shell or a password       *)
(* prompt just takes the characters.                                       *)
AnswerHelp ==
  /\ link = "open" /\ inq # <<>> /\ Head(inq).line = Help
  /\ inq' = Tail(inq)
  /\ typed' = TRUE
  /\ rx' \in IF dev \in AnyPrompt
             THEN {Append(rx, [prompt |-> dev, out |-> o, due |-> Head(inq).due]) :
                     o \in {"text", "error"}}
             ELSE {rx}
  /\ UNCHANGED <<link, dev, todo, exc, got, lost, defMode, prompt, call>>

(* The CLI process dies and its parent shell shows a prompt.               *)
Crash ==
  /\ link = "open" /\ dev # "shell"
  /\ dev' = "shell" /\ typed' = FALSE
  /\ rx' = Append(rx, [prompt |-> "shell", out |-> "none", due |-> FALSE])
  /\ lost' = TRUE
  /\ UNCHANGED <<link, inq, todo, exc, got, defMode, prompt, call>>

-----------------------------------------------------------------------------
Init == BaseInit /\ defMode = "none" /\ prompt = AnyPrompt
        /\ call = NewCall("none", "none")

User == \/ CallStart \/ CallEnterMode \/ CallEnterModeX \/ CallExecCommand
        \/ CallGetSubCommands \/ SetDefaultMode \/ Exit

Own == UNCHANGED <<defMode, prompt, call>>

Exchange == /\ \/ OpenFails \/ OpenSucceeds(StartPrompt)
               \/ SendFails \/ SendSucceeds \/ Expect
            /\ Own

Local == \/ StartCli \/ RunCliFromShell
         \/ LeaveFor("normal_from", ToNormal)
         \/ LeaveFor("enable_from", ToEnable)
         \/ LeaveFor("config_from", ToConfig)
         \/ Password \/ EnterShell \/ ShellFrom \/ UnknownMode
         \/ ExecCommand \/ ExecSend \/ CheckOutput \/ RaiseCliError
         \/ DeleteLine \/ LeaveTry

Exceptions == EnterModeRestarts \/ ExecRestarts \/ Unwind

Client == Exchange \/ Local \/ Exceptions

Environment == Answer \/ AnswerHelp \/ Crash \/ (Drop /\ Own)

Next == User \/ Client \/ Environment

Spec == Init /\ [][Next]_vars

(* The thread is never stuck: every expect() ends by an answer, by the     *)
(* loss of the connection or by its timeout, which select() polls every    *)
(* 10 s.  A host that accepts the login is assumed to answer the requests  *)
(* for a terminal and a shell, or to hang up: paramiko waits for those     *)
(* answers without a timeout.  Nothing else is assumed of the user, the    *)
(* appliance or the network.                                               *)
FairSpec == Spec /\ WF_vars(Client)

-----------------------------------------------------------------------------
CallRecord == [op : UserOps, mode : Modes \cup {"none"}, ready : BOOLEAN,
               restarts : Nat, runs : Nat, resent : BOOLEAN]

TypeOK ==
  /\ BaseTypeOK(Ops, Lines)
  /\ defMode \in Modes \cup {"none"}
  /\ prompt \in SUBSET Prompts
  /\ call \in CallRecord

(* A call that entered a mode and returned leaves the appliance in that    *)
(* mode, unless the session lost step (enter_mode, enter_mode_<mode>).     *)
EnterModeLands ==
  Idle /\ exc = "none" /\ call.op \in {"enter_mode", "enter_mode_x"}
       /\ link = "open" /\ ~lost
    => dev = call.mode

(* The appliance runs the user's command in the mode the call asked for    *)
(* (exec_command's `mode'), unless the session lost step or the command is *)
(* re-sent after a restart.                                                *)
CommandInRequestedMode ==
  [][ call'.runs = call.runs + 1 /\ ~lost /\ ~call.resent /\ call.mode # "none"
        => dev = call.mode ]_vars

(* One call restarts the session at most four times: once per handler, and *)
(* `configure terminal' and `_shell' are run under handlers of their own   *)
(* in both attempts of enter_mode.                                         *)
RestartsBounded == call.restarts <= 4

(* The CLI is launched from a shell only while a session is being started: *)
(* a crashed CLI is reported as CLINotRunning or replaced by a new session,*)
(* never silently logged back in (enter_mode_normal, _enable, _config).    *)
NoSilentRelogin ==
  [][ inq # <<>> /\ Head(inq).due /\ dev = "shell" /\ dev' \in AnyPrompt
        /\ link' = "open" /\ inq' = Tail(inq)
      => call.op = "start" \/ call.restarts > 0 ]_vars

(* A timeout is fatal to the call: the session may hold an answer that     *)
(* comes late, so until the user has seen the exception nothing more is    *)
(* sent on it and it is not replaced (no handler takes CmdlineTimeout).    *)
TimeoutEndsCall ==
  [][ exc = "CmdlineTimeout" /\ ~Idle =>
        exc' = "CmdlineTimeout" /\ link' \in {link, "dead"}
          /\ Len(inq') <= Len(inq) ]_vars

(* The call as its user thinks of it: where it is to end or to run, whether *)
(* its command has run, and whether it was sent again.                     *)
Request == [kind    |-> CASE call.op \in {"enter_mode", "enter_mode_x"} -> "enter"
                          [] call.op = "exec_command" -> "exec"
                          [] OTHER                    -> "other",
            goal    |-> IF call.mode = "none" THEN Prompts ELSE {call.mode},
            ready   |-> call.ready,
            runs    |-> call.runs,
            retried |-> call.resent]

(* The promise of CLI.enter_mode and CLI.exec_command, kept on a failing   *)
(* connection too: between calls the appliance stays in its mode, a mode   *)
(* change ends in the mode it names, a command runs where it was asked for *)
(* and a second time only after the session was replaced for it, and a     *)
(* call that returns has had it run, if it names a mode or the appliance   *)
(* stood at an empty prompt.                                               *)
Service == INSTANCE CliService WITH
  Places   <- Prompts,
  MayRetry <- TRUE,
  phase    <- Phase,
  call     <- Request,
  at       <- dev,
  clear    <- AtEmptyPrompt,
  trusted  <- link = "open" /\ ~lost

ImplementsService == Service!Spec

(* Every call returns, with a value or an exception, however often the     *)
(* connection drops.                                                       *)
CallsReturn == ~Idle ~> Idle

-----------------------------------------------------------------------------
(* What the documentation says and the code does not do.                   *)

(* "mode to enter before running the command" (rvbd_cli.py:311): also when *)
(* the command is re-sent.                                                 *)
ResentCommandInRequestedMode ==
  [][ call'.runs = call.runs + 1 /\ ~lost /\ call.mode # "none"
        => dev = call.mode ]_vars
=============================================================================
