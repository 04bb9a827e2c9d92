----------------------------- MODULE CliSession -----------------------------
(***************************************************************************)
(* One CLI object of steelscript.cmdline.cli talking to one appliance over *)
(* an SSHChannel: the part every vendor CLI shares.                        *)
(*                                                                         *)
(* Three parties act.  The client thread runs the methods of the CLI       *)
(* object.  The appliance reads the lines it was sent, in order, and       *)
(* answers each with some output and the prompt of the mode it is then in. *)
(* The environment drops the connection.  Text is abstracted to what the   *)
(* code tells apart: which prompt a reply ends with, and whether its       *)
(* output is empty, some text, or text that begins with '%' (an error).    *)
(*                                                                         *)
(* The Python call stack is `todo', the instructions the thread has yet to *)
(* execute: calling a method replaces the instruction by the method's      *)
(* body, a `try' leaves its handler behind as an instruction, and a raised *)
(* exception pops instructions until a handler takes it.                   *)
(*                                                                         *)
(* Definitions whose name begins with Bug are faults a change could bring  *)
(* in; nothing uses them but the check that the properties notice.         *)
(***************************************************************************)
EXTENDS Naturals, Sequences

CONSTANT MaxBacklog      \* a new call starts only with at most this many
                         \* lines and replies of earlier calls outstanding

ASSUME MaxBacklogAssumption == MaxBacklog \in Nat

VARIABLES
  link,     \* CLI.channel, and the SSH session below it
  dev,      \* the mode the appliance is in
  typed,    \* text without a line end sits in the appliance's line editor
  inq,      \* lines on their way to the appliance
  rx,       \* replies on their way to, or buffered by, the client
  todo,     \* what the client thread has yet to execute
  exc,      \* the exception being raised; once todo is empty, the outcome
  got,      \* the reply the last expect() matched
  lost      \* an expect() was given up on this session, or the appliance
            \* printed a prompt nobody asked for

wire    == <<link, dev, typed, inq, rx, lost>>
baseVars == <<wire, todo, exc, got>>

-----------------------------------------------------------------------------
(* CLIMode, and what is matched like a mode's prompt without being one: the *)
(* password prompt and Vyatta's "Cannot exit".                             *)
Prompts == {"shell", "normal", "enable", "config", "subif", "password", "cannot"}
Outs    == {"none", "text", "error"}
(* none: CLI.channel is None; fresh: constructed, never connected; half:   *)
(* transport up but no interactive channel; open; dead: the peer is gone.  *)
Links   == {"none", "fresh", "half", "open", "dead"}
Excs    == {"SocketError", "ConnectionError", "CLINotRunning", "SSHException",
            "CmdlineTimeout", "CLIError", "UnexpectedOutput", "AttributeError",
            "TypeError", "ValueError", "UnknownCLIMode"}
Modes   == {"shell", "normal", "enable", "config", "subif"}

(* `due' marks the line or reply that belongs to the wait in progress.     *)
Line(lines) == [line : lines, due : BOOLEAN]
Reply       == [prompt : Prompts, out : Outs, due : BOOLEAN]
Frame(ops, lines) == [op : ops, line : lines, pats : SUBSET Prompts,
                      mode : Modes \cup {"none", "undef"},
                      out : Outs \cup {"any"}, flag : BOOLEAN]

Do(op)           == [op |-> op, line |-> "", pats |-> {}, mode |-> "none",
                     out |-> "none", flag |-> FALSE]
Send(line, pats) == [Do("send") EXCEPT !.line = line, !.pats = pats]
Wait(pats)       == [Do("wait") EXCEPT !.pats = pats]
Open(pats)       == [Do("open") EXCEPT !.pats = pats]

Idle        == todo = <<>>
frame       == Head(todo)
Running(op) == todo # <<>> /\ exc = "none" /\ frame.op = op
Become(prog) == todo' = prog \o Tail(todo)
Raise(e)    == exc' = e /\ todo' = Tail(todo)

NotDue(q) == [i \in DOMAIN q |-> [q[i] EXCEPT !.due = FALSE]]
Backlog   == Len(inq) + Len(rx)

-----------------------------------------------------------------------------
(* The session as it is right after a CLI object was made.                 *)
NoSession == /\ dev = "shell" /\ typed = FALSE
             /\ inq = <<>> /\ rx = <<>> /\ lost = FALSE

BaseInit == /\ link = "none" /\ NoSession
            /\ todo = <<>> /\ exc = "none"
            /\ got = [prompt |-> "shell", out |-> "none", due |-> TRUE]

(* CLI._cleanup_helper: close the channel, forget it.                      *)
CleanupHelper == /\ link' = "none"
                 /\ dev' = "shell" /\ typed' = FALSE
                 /\ inq' = <<>> /\ rx' = <<>> /\ lost' = FALSE

(* CLI.start: build the channel, probe the TCP port, log in and open an    *)
(* interactive channel, then expect the first prompt.  A session may be up *)
(* already: a channel that is still alive when self.channel is overwritten *)
(* is never closed again.                                                  *)
TcpTestFails     == link' = "fresh" /\ Raise("SocketError")
ConnectFails     == link' = "fresh" /\ Raise("ConnectionError")
OpenSessionFails == link' = "half"  /\ Raise("SSHException")

OpenFails ==
  /\ Running("open")
  /\ TcpTestFails \/ ConnectFails \/ OpenSessionFails
  /\ dev' = "shell" /\ typed' = FALSE /\ inq' = <<>> /\ rx' = <<>>
  /\ lost' = FALSE
  /\ UNCHANGED got

OpenSucceeds(loginPrompts) ==
  /\ Running("open")
  /\ link' = "open" /\ typed' = FALSE /\ lost' = FALSE
  /\ dev' \in loginPrompts
  /\ inq' = <<>>
  /\ rx' = <<[prompt |-> dev', out |-> "none", due |-> TRUE]>>
  /\ Become(<<Wait(frame.pats)>>)
  /\ UNCHANGED <<exc, got>>

(* CLI._send_and_wait up to channel.send: reading conn_port of a channel   *)
(* that is None, the probe connection, SSHChannel._verify_connected.       *)
SendFails ==
  /\ Running("send")
  /\ \/ link = "none" /\ Raise("AttributeError")
     \/ link # "none" /\ Raise("SocketError")
     \/ link \in {"fresh", "half", "dead"} /\ Raise("ConnectionError")
  /\ UNCHANGED <<wire, got>>

BugSendTwice ==
  /\ Running("send")
  /\ link = "open"
  /\ inq' = inq \o <<[line |-> frame.line, due |-> TRUE], [line |-> "", due |-> TRUE]>>
  /\ Become(<<Wait(frame.pats)>>)
  /\ UNCHANGED <<link, dev, typed, rx, exc, got, lost>>

SendSucceeds ==
  /\ Running("send")
  /\ link = "open"
  /\ inq' = Append(inq, [line |-> frame.line, due |-> TRUE])
  /\ Become(<<Wait(frame.pats)>>)
  /\ UNCHANGED <<link, dev, typed, rx, exc, got, lost>>

(* SSHChannel.expect: replies are read in order.  One whose prompt is not  *)
(* among the patterns is kept as output of the one that is.  Whatever came *)
(* in the same chunk behind the match is thrown away; what came later      *)
(* stays for the next expect().                                            *)
ExpectMatch ==
  /\ Running("wait") /\ rx # <<>>
  /\ Head(rx).prompt \in frame.pats
  /\ got' = [Head(rx) EXCEPT !.out = IF frame.out = "none" THEN @ ELSE frame.out]
  /\ \E n \in 1 .. Len(rx) : rx' = NotDue(SubSeq(rx, n + 1, Len(rx)))
  /\ inq' = NotDue(inq)
  /\ Become(<<>>)
  /\ UNCHANGED <<link, dev, typed, exc, lost>>

ExpectMore ==
  /\ Running("wait") /\ rx # <<>>
  /\ Head(rx).prompt \notin frame.pats
  /\ LET more == IF Head(rx).out = "none" THEN "text" ELSE Head(rx).out
     IN  Become(<<[frame EXCEPT !.out = IF @ = "none" THEN more ELSE @]>>)
  /\ rx' = Tail(rx)
  /\ UNCHANGED <<link, dev, typed, inq, exc, got, lost>>

(* recv() returned no bytes; or expect() has only begun, and its           *)
(* _verify_connected finds the transport dead before it looks at what the  *)
(* buffer holds.                                                           *)
ExpectClosed ==
  /\ Running("wait") /\ link = "dead"
  /\ rx = <<>> \/ frame.out = "none"
  /\ Raise("ConnectionError")
  /\ UNCHANGED <<wire, got>>

BugTimeoutOnlyAfterData ==
  /\ Running("wait") /\ rx # <<>>
  /\ Raise("CmdlineTimeout")
  /\ lost' = TRUE /\ inq' = NotDue(inq) /\ rx' = NotDue(rx)
  /\ UNCHANGED <<link, dev, typed, got>>

(* The clock is looked at before the data, so a timeout can also beat an   *)
(* answer that has already arrived.                                        *)
ExpectTimeout ==
  /\ Running("wait")
  /\ Raise("CmdlineTimeout")
  /\ lost' = TRUE /\ inq' = NotDue(inq) /\ rx' = NotDue(rx)
  /\ UNCHANGED <<link, dev, typed, got>>

Expect == ExpectMatch \/ ExpectMore \/ ExpectClosed \/ ExpectTimeout

-----------------------------------------------------------------------------
(* The appliance answers its next line.  `effects' is what that line may   *)
(* do in the mode it is in: the mode it leads to and the output.  Text     *)
(* left in the line editor turns any line into an unknown command, which a *)
(* shell reports in words of its own and the CLI with a leading '%'.       *)
Unknown(mode) ==
  [prompt |-> mode, out |-> IF mode = "shell" THEN "text" ELSE "error"]

To(mode, out) == [prompt |-> mode, out |-> out]
Stay(mode)    == {To(mode, "none")}
Refuse(mode)  == {Unknown(mode)}
Show(mode)    == [prompt : {mode}, out : Outs]

DeviceAnswers(effects) ==
  /\ link = "open" /\ inq # <<>>
  /\ \E e \in IF typed THEN {Unknown(dev)} ELSE effects :
        /\ dev' = e.prompt
        /\ rx' = Append(rx, [prompt |-> e.prompt, out |-> e.out,
                             due |-> Head(inq).due])
  /\ typed' = FALSE
  /\ inq' = Tail(inq)
  /\ UNCHANGED <<link, todo, exc, got, lost>>

(* The connection goes away.  What the appliance was sent is gone, and so  *)
(* are its replies but those that have arrived already.                    *)
Drop == /\ link = "open"
        /\ link' = "dead"
        /\ dev' = "shell" /\ typed' = FALSE /\ inq' = <<>>
        /\ \E n \in 0 .. Len(rx) : rx' = SubSeq(rx, 1, n)
        /\ UNCHANGED <<todo, exc, got, lost>>

-----------------------------------------------------------------------------
BaseTypeOK(ops, lines) ==
  /\ link \in Links /\ dev \in Prompts /\ typed \in BOOLEAN
  /\ inq \in Seq(Line(lines)) /\ rx \in Seq(Reply)
  /\ todo \in Seq(Frame(ops, lines)) /\ exc \in Excs \cup {"none"} /\ got \in Reply
  /\ lost \in BOOLEAN

Waiting == Running("wait")

(* A line sent now is read as a line of its own, as a command.             *)
AtEmptyPrompt == ~typed /\ dev # "password"

(* What the user sees of the call in progress: that it runs, or how it     *)
(* ended.                                                                  *)
Phase == IF todo # <<>> THEN "busy" ELSE IF exc = "none" THEN "ok" ELSE "failed"

(* Conversation in step: on a session where no expect() was given up, the  *)
(* client waits for at most one answer, that answer is to the line it sent *)
(* last, and nothing is outstanding while it does not wait.  Without this  *)
(* every later reply would be taken for the answer to another line         *)
(* (_send_and_wait reads whatever the buffer holds).                       *)
ConversationInStep ==
  link = "open" /\ ~lost =>
    /\ Backlog <= IF Waiting THEN 1 ELSE 0
    /\ \A i \in DOMAIN inq : inq[i].due
    /\ \A i \in DOMAIN rx : rx[i].due
=============================================================================
