--------------------------- MODULE ShellExecProofs ---------------------------
(***************************************************************************)
(* The safety properties of ShellExec, for every retry_count.              *)
(*                                                                         *)
(* What makes them inductive is the order in which a call goes on: until   *)
(* the command is sent, the host has not started anything and the channel  *)
(* has nothing to say (Unsent), and the channel never says more of the     *)
(* command's end than what happened to it (StatusIsReal).                  *)
(***************************************************************************)
EXTENDS ShellExec, TLAPS

Unsent ==
  pc \in {"connect", "auth", "open", "exec"} => cmd = "none" /\ status = "none"

StartedOnce == IF cmd = "none" THEN runs = 0 ELSE runs = 1

StatusIsReal == status = "zero" => cmd = "zero"

Reached == /\ pc = "connect" => ~is_connected
           /\ RefusedLoginIsDropped

IInv == TypeOK /\ Unsent /\ StartedOnce /\ StatusIsReal /\ Reached /\ SuccessIsReal

-----------------------------------------------------------------------------
(* Before the first call nothing is connected and nothing has run.         *)
LEMMA InitIInv == Init => IInv
<1> SUFFICES ASSUME Init PROVE IInv
  OBVIOUS
<1>1. opts \in Options
  BY MaxRetryCountAssumption DEF Init, Options
<1>2. tries \in 0..MaxRetryCount /\ runs \in Nat
  BY MaxRetryCountAssumption DEF Init
<1>3. TypeOK
  BY <1>1, <1>2, Zenon DEF Init, TypeOK, Points, Outcomes, Commands, Statuses
<1>4. QED
  BY <1>3 DEF Init, IInv, Unsent, StartedOnce, StatusIsReal, Reached,
       RefusedLoginIsDropped, SuccessIsReal, is_connected

(* A failed connect() ends the call with a ConnectionError or leaves one   *)
(* try less.                                                               *)
LEMMA ConnectRaisesGives ==
  ASSUME TypeOK, ConnectRaises
  PROVE  /\ tries' \in 0..MaxRetryCount
         /\ \/ pc' = "connect" /\ outcome' = outcome
            \/ pc' = "idle" /\ outcome' = "ConnectionError"
BY MaxRetryCountAssumption DEF TypeOK, ConnectRaises, End

(* Reconnecting starts with retry_count tries, once, or the call fails.    *)
LEMMA ReconnectGives ==
  ASSUME TypeOK, Reconnect
  PROVE  /\ tries' \in 0..MaxRetryCount
         /\ again' = TRUE \/ again' = again
         /\ \/ pc' = "connect" /\ outcome' = outcome
            \/ pc' = "idle" /\ outcome' \in {"SocketError", "ConnectionError", "TypeError"}
<1>1. CASE again \/ ~(opts.retries > 0)
  <2>1. pc' = "idle" /\ again' = again /\ tries' = tries
    BY <1>1 DEF Reconnect, End
  <2>2. outcome' \in {"SocketError", "ConnectionError", "TypeError"}
    BY <1>1 DEF Reconnect, End
  <2>3. QED
    BY <2>1, <2>2 DEF TypeOK
<1>2. CASE ~again /\ opts.retries > 0
  <2>1. opts.retries \in -1..MaxRetryCount
    BY DEF TypeOK, Options
  <2>2. pc' = "connect" /\ again' = TRUE /\ tries' = opts.retries /\ outcome' = outcome
    BY <1>2, <2>1 DEF Reconnect
  <2>3. tries' \in 0..MaxRetryCount
    BY <1>2, <2>1, <2>2, MaxRetryCountAssumption
  <2>4. QED
    BY <2>2, <2>3
<1>3. QED
  BY <1>1, <1>2

(* Connecting, and opening a channel, start nothing at the host.           *)
LEMMA ConnectingStep ==
  ASSUME IInv, Connect \/ Auth \/ OpenSession
  PROVE  IInv'
<1>1. TypeOK
  BY DEF IInv
<1>2. UNCHANGED <<opts, cmd, runs, data, eof, status>>
  BY DEF Connect, Auth, OpenSession, host, channel
<1>3. tries' \in 0..MaxRetryCount
  BY <1>1, ConnectRaisesGives, ReconnectGives, MaxRetryCountAssumption
    DEF TypeOK, Connect, Auth, OpenSession
<1>4. again' \in BOOLEAN /\ authed' \in {"no", "partly", "fully"}
  BY <1>1, ReconnectGives, Zenon DEF TypeOK, Connect, Auth, OpenSession, connection
<1>5. transport' \in {"none", "up", "down"}
  BY <1>1 DEF TypeOK, Connect, Auth, OpenSession, connection
<1>6. pc' \in {"connect", "auth", "open", "exec", "idle"}
  BY <1>1, ConnectRaisesGives, ReconnectGives DEF Connect, Auth, OpenSession, End
<1>7. \/ outcome' = outcome /\ pc' # "idle"
      \/ outcome' \in {"SocketError", "ConnectionError", "TypeError", "SSHException"}
  BY <1>1, ConnectRaisesGives, ReconnectGives DEF Connect, Auth, OpenSession, End
<1>8. TypeOK'
  BY <1>1, <1>2, <1>3, <1>4, <1>5, <1>6, <1>7 DEF TypeOK, Points, Outcomes
<1>9. Unsent' /\ StartedOnce' /\ StatusIsReal'
  BY <1>2, Zenon DEF IInv, Unsent, StartedOnce, StatusIsReal, Connect, Auth, OpenSession
<1>10. Reached'
  <2>1. CASE Connect
    BY <1>1, <2>1, ConnectRaisesGives
      DEF Connect, IInv, Reached, RefusedLoginIsDropped, is_connected, connection, End
  <2>2. CASE Auth
    BY <1>1, <2>2, ConnectRaisesGives
      DEF Auth, IInv, Reached, RefusedLoginIsDropped, is_connected, connection, End
  <2>3. CASE OpenSession
    BY <1>1, <2>3, ReconnectGives
      DEF OpenSession, IInv, Reached, RefusedLoginIsDropped, is_connected, connection, End
  <2>4. QED
    BY <2>1, <2>2, <2>3
<1>11. SuccessIsReal'
  BY <1>7 DEF SuccessIsReal
<1>12. QED
  BY <1>8, <1>9, <1>10, <1>11 DEF IInv

(* The command is sent, at most once, from a point where it never ran.     *)
LEMMA ExecStep ==
  ASSUME IInv, Exec
  PROVE  IInv'
<1> USE DEF IInv, TypeOK, Points, Outcomes, Commands, Statuses, End,
      Unsent, StartedOnce, StatusIsReal, Reached, RefusedLoginIsDropped,
      SuccessIsReal, is_connected, host, channel, connection, Exec
<1>1. CASE ExecAccepted
  BY <1>1 DEF ExecAccepted
<1>2. CASE ExecLost
  BY <1>2 DEF ExecLost
<1>3. CASE ExecIgnored
  <2>1. CASE cmd' = "running" /\ runs' = runs + 1 /\ UNCHANGED channel
    BY <1>3, <2>1 DEF ExecIgnored
  <2>2. CASE eof' = TRUE /\ status' = "minus1" /\ UNCHANGED <<data, host>>
    <3>1. UNCHANGED <<again, authed, data>> /\ eof' = TRUE
      BY <1>3, <2>2 DEF ExecIgnored
    <3>2. again' \in BOOLEAN /\ authed' \in {"no", "partly", "fully"} /\ data' \in BOOLEAN /\ eof' \in BOOLEAN
      BY <3>1, Zenon
    <3>3. QED
      BY <1>3, <2>2, <3>2 DEF ExecIgnored
  <2>3. QED
    BY <1>3, <2>1, <2>2 DEF ExecIgnored
<1>4. QED
  BY <1>1, <1>2, <1>3

(* The wait for the command, and what the call makes of the exit status.   *)
LEMMA WaitingStep ==
  ASSUME IInv, Timeout \/ Read \/ Return
  PROVE  IInv'
<1> USE DEF IInv, TypeOK, Points, Outcomes, End, Unsent, StartedOnce,
      StatusIsReal, Reached, RefusedLoginIsDropped, SuccessIsReal, is_connected,
      host, channel, connection
<1>1. CASE Timeout
  BY <1>1 DEF Timeout
<1>2. CASE Read
  BY <1>2 DEF Read
<1>3. CASE Return
  <2>1. outcome' \in {"ok", "ShellError", "UnexpectedOutput"}
    BY <1>3 DEF Return, Result
  <2>2. outcome' = "ok" /\ ~opts.errorOk => status = "zero"
    BY <1>3 DEF Return, Result
  <2>3. QED
    BY <1>3, <2>1, <2>2 DEF Return
<1>4. QED
  BY <1>1, <1>2, <1>3

(* What the host and the network do to a call, or between two calls.       *)
LEMMA OutsideStep ==
  ASSUME IInv, Host \/ Drop
  PROVE  IInv'
<1> USE DEF IInv, TypeOK, Commands, Exits, Statuses, Unsent, StartedOnce,
      StatusIsReal, Reached, RefusedLoginIsDropped, SuccessIsReal, is_connected,
      host, channel, connection, Arrives
<1>1. CASE PrintText
  BY <1>1 DEF PrintText
<1>2. CASE CloseOutput
  BY <1>2 DEF CloseOutput
<1>3. CASE Exit
  BY <1>3 DEF Exit
<1>4. CASE SendStatus
  BY <1>4 DEF SendStatus
<1>5. CASE Drop
  BY <1>5 DEF Drop
<1>6. QED
  BY <1>1, <1>2, <1>3, <1>4, <1>5 DEF Host

(* A call starts with nothing sent.                                        *)
LEMMA CallStep ==
  ASSUME IInv, exec_command
  PROVE  IInv'
<1> USE DEF exec_command
<1>1. TypeOK'
  <2>1. tries' \in 0..MaxRetryCount /\ runs' \in Nat
    BY MaxRetryCountAssumption
  <2>2. pc' \in {"open", "connect"} /\ cmd' = "none" /\ status' = "none"
    OBVIOUS
  <2>3. QED
    BY <2>1, <2>2, Zenon
      DEF IInv, TypeOK, Points, Commands, Statuses, connection
<1>2. QED
  BY <1>1 DEF IInv, Unsent, StartedOnce, StatusIsReal, Reached,
       RefusedLoginIsDropped, SuccessIsReal, is_connected, connection

(* Every step keeps the invariant.                                         *)
LEMMA NextIInv == IInv /\ [Next]_vars => IInv'
<1> SUFFICES ASSUME IInv, [Next]_vars PROVE IInv'
  OBVIOUS
<1>1. CASE exec_command
  BY <1>1, CallStep
<1>2. CASE Client
  BY <1>2, ConnectingStep, ExecStep, WaitingStep DEF Client
<1>3. CASE Host \/ Drop
  BY <1>3, OutsideStep
<1>4. CASE UNCHANGED vars
  BY <1>4 DEF vars, connection, host, channel, IInv, TypeOK, Unsent, StartedOnce,
       StatusIsReal, Reached, RefusedLoginIsDropped, SuccessIsReal, is_connected
<1>5. QED
  BY <1>1, <1>2, <1>3, <1>4 DEF Next

(* The invariant holds in every reachable state.                           *)
THEOREM Invariance == Spec => []IInv
BY InitIInv, NextIInv, PTL DEF Spec

(* Every variable of an exec_command keeps its kind of value; in           *)
(* particular _reconnect never has more than retry_count tries left.       *)
THEOREM TypeCorrect == Spec => []TypeOK
<1>1. IInv => TypeOK
  BY DEF IInv
<1>2. QED
  BY Invariance, <1>1, PTL

(* However often it reconnects, exec_command never has its command started *)
(* twice.                                                                  *)
THEOREM AtMostOnce == Spec => []CommandAtMostOnce
<1>1. IInv => CommandAtMostOnce
  BY DEF IInv, StartedOnce, CommandAtMostOnce
<1>2. QED
  BY Invariance, <1>1, PTL

(* A transport that stayed up is one on which the host has accepted the    *)
(* login or a part of it: no refused or interrupted login is left behind   *)
(* for the next call to use.                                               *)
THEOREM RefusedLoginLeavesNothing == Spec => []RefusedLoginIsDropped
<1>1. IInv => RefusedLoginIsDropped
  BY DEF IInv, Reached
<1>2. QED
  BY Invariance, <1>1, PTL

(* A call that returns and was not told to put up with errors has run its  *)
(* command to a successful end.                                            *)
THEOREM SuccessProved == Spec => []SuccessIsReal
<1>1. IInv => SuccessIsReal
  BY DEF IInv
<1>2. QED
  BY Invariance, <1>1, PTL
=============================================================================
