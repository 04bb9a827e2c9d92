------------------------------- MODULE IosCli -------------------------------
(***************************************************************************)
(* IOS_CLI: the CLI of a Cisco IOS device, on a CliSession.  It has no     *)
(* shell, enters a sub-interface mode for one interface at a time, and     *)
(* never restarts a session: whatever goes wrong is the caller's.          *)
(*                                                                         *)
(* Definitions whose name begins with Bug are faults a change could bring  *)
(* in; nothing uses them but the check that the properties notice.         *)
(***************************************************************************)
EXTENDS CliSession

CONSTANT Interfaces   \* the lines "interface <name>" users may ask for

ASSUME InterfacesAssumption ==
  Interfaces \cap {"", "none", "terminal length 0", "show", "enable", "disable",
                   "end", "exit", "config terminal"} = {}

VARIABLES
  iface,  \* the interface the device is configuring in sub-interface mode
  call    \* the user's call: its name, the mode and the interface it asks
          \* for, whether it goes there or found the device at an empty
          \* prompt, how often its command ran

vars == <<baseVars, iface, call>>

-----------------------------------------------------------------------------
AnyPrompt == {"normal", "enable", "config", "subif"}   \* CLI_ANY_PROMPT
Paging    == "terminal length 0"
Cmd       == "show"                                    \* the user's command
Lines     == {"", Paging, Cmd, "enable", "disable", "end", "exit",
              "config terminal"} \cup Interfaces
Ops       == {"open", "wait", "send", "normal_from", "enable_from",
              "config_from", "no_interface", "unknown_mode", "password",
              "check", "cli_error"}
CallRecord == [op : {"none", "start", "exit", "enter_mode", "exec_command"},
               mode : Modes \cup {"none"}, iface : Interfaces \cup {"none"},
               ready : BOOLEAN, runs : Nat]

-----------------------------------------------------------------------------
(* The methods' bodies.                                                    *)
Probe == Send("", AnyPrompt)                           \* current_cli_mode

DisablePaging == Send(Paging, {"normal"})

Start == <<Open({"normal"}), DisablePaging>>

EnterModeNormal == <<Probe, Do("normal_from")>>
EnterModeEnable == <<Probe, Do("enable_from")>>
EnterModeConfig == <<Probe, Do("config_from")>>

BugEnterModeSubif(i) == EnterModeConfig \o <<Send(i, {"subif"})>>

(* The interface line is sent even to a device that is in the mode already. *)
EnterModeSubif(i) ==
  IF i = "none" THEN <<Do("no_interface")>>
                ELSE EnterModeConfig \o <<Send(i, {"subif"})>>

EnterMode(mode, i) ==
  CASE mode = "normal" -> EnterModeNormal
    [] mode = "enable" -> EnterModeEnable
    [] mode = "config" -> EnterModeConfig
    [] mode = "subif"  -> EnterModeSubif(i)
    [] OTHER           -> <<Do("unknown_mode")>>

Check(errorOk, output) == [Do("check") EXCEPT !.flag = errorOk, !.out = output]

BugExecWithoutMode(mode, i, errorOk, output) ==
  <<Send(Cmd, AnyPrompt), Check(errorOk, output)>>

BugExecTwice(mode, i, errorOk, output) ==
  (IF mode = "none" THEN <<>> ELSE EnterMode(mode, i))
    \o <<Send(Cmd, AnyPrompt), Send(Cmd, AnyPrompt), Check(errorOk, output)>>

ExecCommand(mode, i, errorOk, output) ==
  (IF mode = "none" THEN <<>> ELSE EnterMode(mode, i))
    \o <<Send(Cmd, AnyPrompt), Check(errorOk, output)>>

Enable == <<Send("enable", {"enable", "password"}), Do("password")>>

BugToNormal == [p \in Prompts |->
  CASE p \in {"enable", "config"} -> <<Send("disable", {"normal"})>>
    [] p = "subif"  -> <<Send("end", AnyPrompt)>>
    [] OTHER        -> <<>>]

ToNormal == [p \in Prompts |->
  CASE p = "enable" -> <<Send("disable", {"normal"})>>
    [] p \in {"config", "subif"} ->
         <<Send("end", {"enable"}), Send("disable", {"normal"})>>
    [] OTHER        -> <<>>]

ToEnable == [p \in Prompts |->
  CASE p = "normal" -> Enable
    [] p \in {"config", "subif"} -> <<Send("end", {"enable"})>>
    [] OTHER        -> <<>>]

ToConfig == [p \in Prompts |->
  CASE p = "normal" -> Enable \o <<Send("config terminal", {"config"})>>
    [] p = "enable" -> <<Send("config terminal", {"config"})>>
    [] p = "subif"  -> <<Send("exit", {"config"})>>
    [] OTHER        -> <<>>]

-----------------------------------------------------------------------------
(* Steps of the client thread between two exchanges.                       *)
Quiet == UNCHANGED <<wire, got>>

GoOn(op, to) == Running(op) /\ Become(to[got.prompt]) /\ Quiet /\ UNCHANGED exc

(* _enable: self._password is set nowhere.                                 *)
Password ==
  /\ Running("password")
  /\ \/ got.prompt = "password" /\ Raise("AttributeError")
     \/ got.prompt # "password" /\ Become(<<>>) /\ UNCHANGED exc
  /\ Quiet

NoInterface == Running("no_interface") /\ Raise("ValueError") /\ Quiet
UnknownMode == Running("unknown_mode") /\ Raise("UnknownCLIMode") /\ Quiet

(* exec_command on the output of the command.                              *)
CheckOutput ==
  /\ Running("check")
  /\ \/ got.out = "error" /\ frame.flag /\ Become(<<>>) /\ UNCHANGED exc
     \/ got.out = "error" /\ ~frame.flag
        /\ Become(<<Probe, Do("cli_error")>>) /\ UNCHANGED exc
     \/ got.out # "error" /\ frame.out \in {"any", got.out}
        /\ Become(<<>>) /\ UNCHANGED exc
     \/ got.out # "error" /\ frame.out \notin {"any", got.out}
        /\ Raise("UnexpectedOutput")
  /\ Quiet

RaiseCliError == Running("cli_error") /\ Raise("CLIError") /\ Quiet

Unwind == exc # "none" /\ todo # <<>> /\ todo' = Tail(todo) /\ Quiet /\ UNCHANGED exc

-----------------------------------------------------------------------------
(* The user.                                                               *)
NewCall(op, mode, i) == 
  [op |-> op, mode |-> mode, iface |-> i,
   ready |-> mode # "none" \/ AtEmptyPrompt, runs |-> 0]

Call(op, mode, i, program) ==
  /\ Idle /\ Backlog <= MaxBacklog
  /\ todo' = program /\ exc' = "none"
  /\ call' = NewCall(op, mode, i)
  /\ UNCHANGED <<wire, got, iface>>

CallStart == Call("start", "none", "none", Start)

CallEnterMode ==
  \E mode \in Modes, i \in Interfaces \cup {"none"} :
    /\ mode # "subif" => i = "none"
    /\ Call("enter_mode", mode, i, EnterMode(mode, i))

CallExecCommand ==
  \E mode \in (Modes \ {"shell"}) \cup {"none"}, i \in Interfaces \cup {"none"},
     errorOk \in BOOLEAN, output \in {"any", "none", "text"} :
    /\ mode # "subif" => i = "none"
    /\ Call("exec_command", mode, i, ExecCommand(mode, i, errorOk, output))

Exit == /\ Idle /\ link # "none"
        /\ CleanupHelper
        /\ exc' = "none" /\ iface' = "none"
        /\ call' = NewCall("exit", "none", "none")
        /\ UNCHANGED <<todo, got>>

-----------------------------------------------------------------------------
(* The device.                                                             *)
FromNormal(line) ==
  CASE line \in {"", Paging, "disable"} -> Stay("normal")
    [] line = "enable" -> Stay("enable") \cup Stay("password") \cup Refuse("normal")
    [] line = Cmd      -> Show("normal")
    [] OTHER           -> Refuse("normal")

FromEnable(line) ==
  CASE line \in {"", Paging, "enable"} -> Stay("enable")
    [] line = "disable"         -> Stay("normal")
    [] line = "config terminal" -> Stay("config") \cup Refuse("enable")
    [] line = Cmd               -> Show("enable")
    [] OTHER                    -> Refuse("enable")

(* Both configuration modes take an interface line.                        *)
FromConfig(mode, line) ==
  CASE line = ""          -> Stay(mode)
    [] line = "end"       -> Stay("enable")
    [] line = "exit"      -> Stay(IF mode = "subif" THEN "config" ELSE "enable")
    [] line \in Interfaces -> Stay("subif") \cup Refuse(mode)
    [] line = Cmd         -> Show(mode)
    [] OTHER              -> Refuse(mode)

Effects(mode, line) ==
  CASE mode = "normal"   -> FromNormal(line)
    [] mode = "enable"   -> FromEnable(line)
    [] mode = "password" -> Stay("password") \cup Refuse("normal")
    [] OTHER             -> FromConfig(mode, line)

(* The device runs the command the current call waits on: it is not taken  *)
(* for a password.                                                         *)
RunsCommand == AtEmptyPrompt /\ Head(inq) = [line |-> Cmd, due |-> TRUE]

Answer ==
  /\ link = "open" /\ inq # <<>>
  /\ DeviceAnswers(Effects(dev, Head(inq).line))
  /\ iface' = IF dev' # "subif" THEN "none"
              ELSE IF Head(inq).line \in Interfaces /\ rx'[Len(rx')].out # "error"
                   THEN Head(inq).line ELSE iface
  /\ call' = IF RunsCommand THEN [call EXCEPT !.runs = @ + 1] ELSE call

-----------------------------------------------------------------------------
Init == BaseInit /\ iface = "none" /\ call = NewCall("none", "none", "none")

User == CallStart \/ CallEnterMode \/ CallExecCommand \/ Exit

(* A privileged user may be logged in at the enable prompt, which start()  *)
(* does not expect.                                                        *)
Opening == /\ OpenFails \/ OpenSucceeds({"normal", "enable"})
           /\ iface' = "none"

Exchange == (SendFails \/ SendSucceeds \/ Expect) /\ UNCHANGED iface

Local == /\ \/ GoOn("normal_from", ToNormal)
            \/ GoOn("enable_from", ToEnable)
            \/ GoOn("config_from", ToConfig)
            \/ Password \/ NoInterface \/ UnknownMode \/ CheckOutput
            \/ RaiseCliError \/ Unwind
         /\ UNCHANGED iface

Client == (Opening \/ Exchange \/ Local) /\ UNCHANGED call

Next == User \/ Client \/ Answer \/ (Drop /\ UNCHANGED <<iface, call>>)

Spec == Init /\ [][Next]_vars

-----------------------------------------------------------------------------
TypeOK == /\ BaseTypeOK(Ops, Lines)
          /\ iface \in Interfaces \cup {"none"}
          /\ call \in CallRecord

(* enter_mode returns only in the mode asked for, on the interface asked   *)
(* for (enter_mode_normal, _enable, _config, _subif).                      *)
EnterModeLands ==
  Idle /\ exc = "none" /\ call.op = "enter_mode" /\ link = "open" /\ ~lost
    => dev = call.mode /\ iface = call.iface

(* The device runs the user's command in the mode and on the interface the *)
(* call asked for (exec_command's `mode' and `interface').                 *)
CommandInRequestedMode ==
  [][ call'.runs = call.runs + 1 /\ ~lost /\ call.mode # "none"
        => dev = call.mode /\ iface = call.iface ]_vars

(* The call as its user thinks of it: where it is to end or to run, and    *)
(* whether its command has run.                                            *)
Request == [kind    |-> CASE call.op = "enter_mode"   -> "enter"
                          [] call.op = "exec_command" -> "exec"
                          [] OTHER                    -> "other",
            goal    |-> IF call.mode = "none"
                        THEN Prompts \X (Interfaces \cup {"none"})
                        ELSE {<<call.mode, call.iface>>},
            ready   |-> call.ready,
            runs    |-> call.runs,
            retried |-> FALSE]

(* The promise of CLI.enter_mode and CLI.exec_command, kept by the class:  *)
(* between calls the device stays where it is, enter_mode ends where it    *)
(* says, a command runs once, where it was asked for, and a call that      *)
(* returns has had it run, if it names a mode or the device stood at an    *)
(* empty prompt (enter_mode, exec_command).                                *)
Service == INSTANCE CliService WITH
  Places   <- Prompts \X (Interfaces \cup {"none"}),
  MayRetry <- FALSE,
  phase    <- Phase,
  call     <- Request,
  at       <- <<dev, iface>>,
  clear    <- AtEmptyPrompt,
  trusted  <- link = "open" /\ ~lost

ImplementsService == Service!Spec
=============================================================================
