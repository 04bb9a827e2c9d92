------------------------------ MODULE ShellExec ------------------------------
(***************************************************************************)
(* Shell.exec_command: one command run "statelessly" over an SSHProcess,   *)
(* with connecting on demand, reconnecting and the wait for the command's  *)
(* output and exit status.                                                 *)
(*                                                                         *)
(* Three parties act: the client thread, one step per call into paramiko   *)
(* and per iteration of a loop; the host, which runs the command and sends *)
(* its output, the end of its output and its exit status; the network,     *)
(* which drops the connection at any moment.  Text is abstracted to        *)
(* whether the command printed any.  Time is abstracted to the choice of   *)
(* finding, wherever the code looks, that the timeout has passed.          *)
(*                                                                         *)
(* Definitions whose name begins with Bug are faults a change could bring  *)
(* in; nothing uses them but the check that the properties notice.         *)
(***************************************************************************)
EXTENDS Integers

CONSTANT MaxRetryCount   \* the largest retry_count a caller passes

ASSUME MaxRetryCountAssumption == MaxRetryCount \in Nat

VARIABLES
  pc,         \* where exec_command is; "idle" between calls
  opts,       \* the arguments of the call
  outcome,    \* how the last call ended: "ok" or what it raised
  transport,  \* sshprocess.transport: "none", or whether it is_active()
  authed,     \* whether the host has accepted the login on this transport, or
              \* a part of it and asks for more
  tries,      \* the calls of connect() that _reconnect may still make
  again,      \* _reconnect has been called
  cmd,        \* the command at the host, or how it ended
  runs,       \* how often the host has started it
  data,       \* output of it waits to be received
  eof,        \* recv() returns b'' once there is no data
  status      \* what recv_exit_status() returns, once it is ready

connection == <<transport, authed>>
channel    == <<data, eof, status>>
host       == <<cmd, runs>>
vars == <<pc, opts, outcome, connection, tries, again, host, channel>>

-----------------------------------------------------------------------------
(* retry_count may also be something _reconnect refuses (-1 here); timed:  *)
(* a timeout was given; wantsOutput: output_expected=True.                 *)
Options == [retries : -1..MaxRetryCount, timed : BOOLEAN,
            errorOk : BOOLEAN, wantsOutput : BOOLEAN]

Points   == {"idle", "connect", "auth", "open", "exec", "read", "poll"}
Outcomes == {"ok", "ConnectionError", "CmdlineTimeout", "ShellError",
             "UnexpectedOutput", "TypeError", "SSHException", "SocketError"}
Exits    == {"zero", "nonzero", "signal"}
Commands == {"none", "running"} \cup Exits
(* "minus1" is paramiko's -1: the channel closed without an exit status.   *)
Statuses == {"none", "zero", "nonzero", "minus1"}

is_connected == transport = "up"

End(result) == pc' = "idle" /\ outcome' = result

-----------------------------------------------------------------------------
exec_command ==
  /\ pc = "idle"
  /\ opts' \in Options
  /\ pc' = IF is_connected THEN "open" ELSE "connect"
  /\ again' = FALSE /\ tries' = 0
  /\ cmd' = "none" /\ runs' = 0
  /\ data' = FALSE /\ eof' = FALSE /\ status' = "none"
  /\ UNCHANGED <<outcome, connection>>

-----------------------------------------------------------------------------
(* A ConnectionError of connect() ends the call, unless it is one of the   *)
(* tries of _reconnect and not the last.                                   *)
ConnectRaises ==
  IF again /\ tries > 1 THEN pc' = "connect" /\ tries' = tries - 1 /\ UNCHANGED outcome
                        ELSE End("ConnectionError") /\ UNCHANGED tries

(* SSHProcess.connect up to the login.  The old transport is inactive.     *)
Connect ==
  /\ pc = "connect"
  /\ \/ transport' = "up" /\ authed' = "no"
        /\ pc' = "auth" /\ UNCHANGED <<tries, outcome>>
     \/ ConnectRaises /\ UNCHANGED connection
     \/ End("SocketError") /\ UNCHANGED <<tries, connection>>
  /\ UNCHANGED <<opts, again, host, channel>>

BugAuth ==
  /\ pc = "auth"
  /\ \/ is_connected /\ authed' \in {"partly", "fully"} /\ pc' = "open"
        /\ UNCHANGED <<transport, tries, outcome>>
     \/ ConnectRaises /\ UNCHANGED connection
     \/ ~is_connected /\ End("SocketError") /\ UNCHANGED <<tries, connection>>
  /\ UNCHANGED <<opts, again, host, channel>>

(* The login.  connect() drops what auth_password() returns: the steps the *)
(* host still asks for.  It turns an SSHException into a ConnectionError,   *)
(* after disconnect(); what else a dying transport raises passes through.  *)
Auth ==
  /\ pc = "auth"
  /\ \/ is_connected /\ authed' \in {"partly", "fully"} /\ pc' = "open"
        /\ UNCHANGED <<transport, tries, outcome>>
     \/ ConnectRaises /\ transport' = "down" /\ authed' = "no"
     \/ ~is_connected /\ End("SocketError") /\ UNCHANGED <<tries, connection>>
  /\ UNCHANGED <<opts, again, host, channel>>

-----------------------------------------------------------------------------
BugReconnect ==
  \/ /\ again \/ opts.retries <= 0
     /\ End(CASE again                       -> "SocketError"
              [] ~again /\ opts.retries = 0  -> "ConnectionError"
              [] ~again /\ opts.retries # 0  -> "TypeError")
     /\ UNCHANGED <<again, tries>>
  \/ /\ ~again /\ opts.retries > 0
     /\ pc' = "connect" /\ again' = TRUE /\ tries' = opts.retries + 1
     /\ UNCHANGED outcome

(* open_session() raised socket.error: _reconnect, the first time.         *)
Reconnect ==
  \/ /\ again \/ opts.retries <= 0
     /\ End(CASE again                       -> "SocketError"
              [] ~again /\ opts.retries = 0  -> "ConnectionError"
              [] ~again /\ opts.retries # 0  -> "TypeError")
     /\ UNCHANGED <<again, tries>>
  \/ /\ ~again /\ opts.retries > 0
     /\ pc' = "connect" /\ again' = TRUE /\ tries' = opts.retries
     /\ UNCHANGED outcome

OpenSession ==
  /\ pc = "open"
  /\ \/ is_connected /\ authed = "fully" /\ pc' = "exec" /\ UNCHANGED <<outcome, again, tries>>
     \/ ~is_connected /\ Reconnect
     \/ End("SSHException") /\ UNCHANGED <<again, tries>>
  /\ UNCHANGED <<opts, connection, host, channel>>

(* channel.exec_command(): the host starts the command and says so, ...    *)
ExecAccepted ==
  /\ is_connected
  /\ cmd' = "running" /\ runs' = runs + 1 /\ pc' = "read"
  /\ UNCHANGED <<outcome, again, tries, channel>>

BugExecLost ==
  /\ ~is_connected
  /\ \/ UNCHANGED host
     \/ cmd' = "running" /\ runs' = runs + 1
  /\ Reconnect
  /\ UNCHANGED channel

(* ... or the connection is lost before it says so, ...                    *)
ExecLost ==
  /\ ~is_connected
  /\ \/ UNCHANGED host
     \/ cmd' = "running" /\ runs' = runs + 1
  /\ \E e \in {"ConnectionError", "SocketError"} : End(e)
  /\ UNCHANGED <<again, tries, channel>>

(* ... or it refuses, which closes the channel, or an SSHException comes   *)
(* though it accepts: with the connection up, the exception is dropped.    *)
ExecIgnored ==
  /\ is_connected
  /\ pc' = "read"
  /\ \/ cmd' = "running" /\ runs' = runs + 1 /\ UNCHANGED channel
     \/ eof' = TRUE /\ status' = "minus1" /\ UNCHANGED <<data, host>>
  /\ UNCHANGED <<outcome, again, tries>>

Exec ==
  /\ pc = "exec"
  /\ ExecAccepted \/ ExecLost \/ ExecIgnored
  /\ UNCHANGED <<opts, connection>>

-----------------------------------------------------------------------------
BugTimeout ==
  /\ pc = "read" /\ opts.timed
  /\ End("CmdlineTimeout")
  /\ UNCHANGED <<opts, connection, tries, again, host, channel>>

(* Both loops look at the clock.                                           *)
Timeout ==
  /\ opts.timed
  /\ \/ pc = "read"
     \/ pc = "poll" /\ status = "none"
  /\ End("CmdlineTimeout")
  /\ UNCHANGED <<opts, connection, tries, again, host, channel>>

(* An iteration of the first loop that does not just go on.  output is a   *)
(* str and recv() returns bytes: adding them raises.  With nothing to read *)
(* within ten seconds, an exit status that is ready ends the loop.         *)
Read ==
  /\ pc = "read"
  /\ \/ data /\ End("TypeError")
     \/ ~data /\ (eof \/ status # "none") /\ pc' = "poll" /\ UNCHANGED outcome
  /\ UNCHANGED <<opts, connection, tries, again, host, channel>>

BugResult ==
  IF status = "nonzero" /\ ~opts.errorOk
    THEN "ShellError"
    ELSE IF opts.wantsOutput THEN "UnexpectedOutput" ELSE "ok"

(* What exec_command makes of the exit status and of an output that, when  *)
(* the loops are left, is always empty.                                    *)
Result ==
  IF status # "zero" /\ ~opts.errorOk
    THEN "ShellError"
    ELSE IF opts.wantsOutput THEN "UnexpectedOutput" ELSE "ok"

Return ==
  /\ pc = "poll" /\ status # "none"
  /\ End(Result)
  /\ UNCHANGED <<opts, connection, tries, again, host, channel>>

-----------------------------------------------------------------------------
(* The host: output and exit status travel separately.                     *)
Arrives == pc \in {"read", "poll"} /\ is_connected

PrintText ==
  /\ cmd = "running" /\ Arrives /\ ~eof
  /\ data' = TRUE
  /\ UNCHANGED <<pc, opts, outcome, connection, tries, again, host, eof, status>>

CloseOutput ==
  /\ cmd # "none" /\ Arrives /\ ~eof
  /\ eof' = TRUE
  /\ UNCHANGED <<pc, opts, outcome, connection, tries, again, host, data, status>>

Exit ==
  /\ cmd = "running"
  /\ cmd' \in Exits
  /\ UNCHANGED <<pc, opts, outcome, connection, tries, again, runs, channel>>

SendStatus ==
  /\ cmd \in Exits /\ Arrives /\ status = "none"
  /\ status' = IF cmd = "signal" THEN "minus1" ELSE cmd
  /\ UNCHANGED <<pc, opts, outcome, connection, tries, again, host, data, eof>>

(* The connection drops: the channel is closed, without an exit status if  *)
(* none has come.                                                          *)
Drop ==
  /\ is_connected
  /\ transport' = "down" /\ authed' = "no"
  /\ IF pc \in {"read", "poll"}
       THEN eof' = TRUE /\ status' = IF status = "none" THEN "minus1" ELSE status
       ELSE UNCHANGED <<eof, status>>
  /\ UNCHANGED <<pc, opts, outcome, tries, again, host, data>>

-----------------------------------------------------------------------------
Init ==
  /\ pc = "idle" /\ outcome = "ok" /\ transport = "none" /\ authed = "no"
  /\ opts = [retries |-> 0, timed |-> TRUE, errorOk |-> TRUE, wantsOutput |-> FALSE]
  /\ tries = 0 /\ again = FALSE
  /\ cmd = "none" /\ runs = 0 /\ data = FALSE /\ eof = FALSE /\ status = "none"

Client == Connect \/ Auth \/ OpenSession \/ Exec \/ Timeout \/ Read \/ Return
Host   == PrintText \/ CloseOutput \/ Exit \/ SendStatus

Next == exec_command \/ Client \/ Host \/ Drop

Spec == Init /\ [][Next]_vars

(* The client thread runs.  Nothing is assumed of the host, on a transport *)
(* that is up: logging in, opening a channel and asking for the command to *)
(* be run wait for its answers, and a command may run for ever.  On one    *)
(* that is down, paramiko's calls return or raise.                         *)
FairSpec == Spec /\ WF_vars(Timeout \/ Read \/ Return)
                 /\ WF_vars(~is_connected /\ Client)

-----------------------------------------------------------------------------
(* Every variable keeps its kind of value.                                 *)
TypeOK ==
  /\ pc \in Points /\ opts \in Options /\ outcome \in Outcomes
  /\ transport \in {"none", "up", "down"} /\ authed \in {"no", "partly", "fully"}
  /\ tries \in 0..MaxRetryCount /\ again \in BOOLEAN
  /\ cmd \in Commands /\ runs \in Nat
  /\ data \in BOOLEAN /\ eof \in BOOLEAN /\ status \in Statuses

(* exec_command may connect again and again, but whatever it lost and      *)
(* whenever, the host never starts the command a second time in one call.  *)
CommandAtMostOnce == runs <= 1

(* A login the host refused, or that was cut off, leaves nothing behind    *)
(* that is_connected() and the next call would take for a connection.      *)
RefusedLoginIsDropped == pc # "auth" /\ is_connected => authed # "no"

(* "exit_status != 0 and not error_expected": a call that returns and was  *)
(* not told to put up with errors has run its command once, to the end,    *)
(* and the command succeeded, whatever arrived first, last or never.       *)
SuccessIsReal ==
  pc = "idle" /\ outcome = "ok" /\ ~opts.errorOk => cmd = "zero" /\ runs = 1

(* A call with a timeout returns, though the host ends the command's       *)
(* output and never says how it exited, or the connection is lost again    *)
(* and again, unless it comes to wait for an answer of the host for ever.  *)
AwaitsHost == is_connected /\ pc \in {"auth", "open", "exec"}

CallsReturn ==
  \/ <>[]AwaitsHost
  \/ pc # "idle" /\ opts.timed ~> pc = "idle"
=============================================================================
