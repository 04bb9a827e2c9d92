----------------------------- MODULE ConsoleLogin -----------------------------
(***************************************************************************)
(* LibVirtChannel.start: logging in on the serial console of a virtual     *)
(* machine.  The console outlives the channel: it may stand at a login     *)
(* prompt, in the middle of somebody's login, in a shell, or in a program, *)
(* and the dialogue has to get from any of these to a shell.               *)
(*                                                                         *)
(* Output is abstracted to what the patterns tell apart.  expect() reads   *)
(* byte by byte, so nothing behind a match is consumed.  The timeout is an *)
(* alarm signal, whose handler raises in whatever Python code runs then.   *)
(*                                                                         *)
(* Definitions whose name begins with Bug are faults a change could bring  *)
(* in; nothing uses them but the check that the properties notice.         *)
(***************************************************************************)
EXTENDS Naturals, Sequences

CONSTANT MaxUnread   \* a console left to itself prints no further prompt
                     \* while this much is unread, and start() is not called
                     \* on more unread keys than this

ASSUME MaxUnreadAssumption == MaxUnread \in Nat

VARIABLES
  pc,         \* which expect() of start() runs; "idle" outside start()
  exc,        \* the exception start() ended with, or "none"
  res,        \* match_res: the prompts that say somebody is logged in
  loggedIn,   \* self._console_logged_in
  armed,      \* the alarm is set
  keys,       \* what was sent and the console has not read
  rx,         \* what the console printed and recv() has not returned
  eof,        \* the stream has ended
  mode,       \* what the console is in
  shell,      \* the prompt of the account's shell
  stale,      \* when start() began the console had not read all of what an
              \* earlier start() sent
  disturbed,  \* since start() began the console changed its mode by itself,
              \* or let somebody in on the empty line of _check_console_mode
  again       \* this is not the first start() of the channel

client  == <<pc, exc, res, loggedIn, armed, again>>
console == <<mode, shell, stale, disturbed>>
vars    == <<client, keys, rx, eof, console>>

-----------------------------------------------------------------------------
ROOT_PROMPT     == {"root"}
PASSWORD_PROMPT == {"password"}
(* The pattern allows one word before "login: ", so it also matches the    *)
(* "Last login: ..." a successful login prints.                            *)
LOGIN_PROMPT    == {"login", "lastlogin"}

Keys  == {"empty", "user", "pass", "eof"}   \* ^U and return, a line, ^D
Texts == {"login", "lastlogin", "password", "root", "cli", "text"}
Modes == {"login", "password", "shell", "program"}
Waits == {"check", "relogin", "retry", "username", "password"}
Excs  == {"none", "AttributeError", "ConnectionError", "libvirtError",
          "CmdlineTimeout"}

BugPatterns(wait) ==
  CASE wait = "check"                -> LOGIN_PROMPT \cup PASSWORD_PROMPT \cup res
    [] wait \in {"relogin", "retry"} -> LOGIN_PROMPT
    [] wait = "username"             -> PASSWORD_PROMPT \cup ROOT_PROMPT
    [] wait = "password"             -> LOGIN_PROMPT \cup res

(* What each expect() of the dialogue waits for.                           *)
Patterns(wait) ==
  CASE wait = "check"                -> LOGIN_PROMPT \cup PASSWORD_PROMPT \cup res
    [] wait \in {"relogin", "retry"} -> LOGIN_PROMPT
    [] wait = "username"             -> PASSWORD_PROMPT \cup ROOT_PROMPT
    [] wait = "password"             -> res

Waiting == pc # "idle"

-----------------------------------------------------------------------------
BugAskUnarmed(key, wait) ==
  \/ /\ ~eof /\ keys' = Append(keys, key)
     /\ pc' = wait /\ armed' = (wait # "retry") /\ UNCHANGED exc
  \/ /\ eof /\ pc' = "idle" /\ exc' = "libvirtError"
     /\ armed' = FALSE /\ UNCHANGED keys

(* send(), which fails once the stream has ended, and the next expect().   *)
Ask(key, wait) ==
  \/ /\ ~eof /\ keys' = Append(keys, key)
     /\ pc' = wait /\ armed' = TRUE /\ UNCHANGED exc
  \/ /\ eof /\ pc' = "idle" /\ exc' = "libvirtError"
     /\ armed' = FALSE /\ UNCHANGED keys

LoggedIn == pc' = "idle" /\ armed' = FALSE /\ UNCHANGED <<exc, keys>>

(* No pattern, no domain, a domain that is not running, no console.        *)
StartFails ==
  /\ pc = "idle"
  /\ exc' \in {"AttributeError", "ConnectionError", "libvirtError"}
  /\ UNCHANGED <<pc, res, loggedIn, armed, again, keys, rx, eof, console>>

(* A new stream shows what is printed from now on.  What was sent over the *)
(* last one is the console's to read.                                      *)
Start ==
  /\ pc = "idle" /\ Len(keys) <= MaxUnread
  /\ res' \in {{"root"}, {"cli"}}
  /\ exc' = "none" /\ eof' = FALSE
  /\ keys' = Append(keys, "empty") /\ rx' = <<>>
  /\ pc' = "check" /\ armed' = TRUE
  /\ again' \in {again, TRUE} /\ (loggedIn => again')
  /\ stale' = (keys # <<>>) /\ disturbed' = FALSE
  /\ UNCHANGED <<loggedIn, mode, shell>>

(* _handle_init_login on the prompt each expect() found.                   *)
AfterCheck(text) ==
  /\ pc = "check"
  /\ loggedIn' = (loggedIn \/ text \in res)
  /\ \/ loggedIn' /\ LoggedIn
     \/ ~loggedIn' /\ text \in LOGIN_PROMPT /\ Ask("user", "username")
     \/ ~loggedIn' /\ text \in PASSWORD_PROMPT /\ Ask("eof", "relogin")

AfterLoginPrompt ==
  /\ pc \in {"relogin", "retry"}
  /\ Ask("user", "username") /\ UNCHANGED loggedIn

BugAnyPromptIsPassword(text) ==
  /\ pc = "username"
  /\ Ask("pass", "password") /\ UNCHANGED loggedIn

AfterUsername(text) ==
  /\ pc = "username"
  /\ \/ text \in PASSWORD_PROMPT /\ Ask("pass", "password") /\ UNCHANGED loggedIn
     \/ text \in ROOT_PROMPT /\ LoggedIn /\ loggedIn' = TRUE

AfterPassword == pc = "password" /\ LoggedIn /\ loggedIn' = TRUE

ExpectMatch ==
  /\ Waiting /\ rx # <<>> /\ Head(rx) \in Patterns(pc)
  /\ \/ AfterCheck(Head(rx)) \/ AfterLoginPrompt
     \/ AfterUsername(Head(rx)) \/ AfterPassword
  /\ rx' = Tail(rx)
  /\ UNCHANGED <<res, eof, again, console>>

ExpectMore ==
  /\ Waiting /\ rx # <<>> /\ Head(rx) \notin Patterns(pc)
  /\ rx' = Tail(rx)
  /\ UNCHANGED <<client, keys, eof, console>>

(* The alarm.  What was read of a prompt by then is lost with it.  One     *)
(* more attempt is made if nobody has sent the user name yet.              *)
Timeout ==
  /\ Waiting /\ armed
  /\ \/ pc \in {"check", "relogin"} /\ Ask("eof", "retry")
     \/ pc \notin {"check", "relogin"} /\ pc' = "idle" /\ exc' = "CmdlineTimeout"
        /\ armed' = FALSE /\ UNCHANGED keys
  /\ \/ UNCHANGED rx
     \/ rx # <<>> /\ rx' = Tail(rx)
  /\ UNCHANGED <<res, loggedIn, again, eof, console>>

(* recv() raises: the alarm stays set ...                                  *)
RecvFails ==
  /\ Waiting
  /\ pc' = "idle" /\ exc' = "libvirtError"
  /\ UNCHANGED <<res, loggedIn, armed, again, keys, rx, eof, console>>

(* ... and goes off in the caller's code.                                  *)
StrayAlarm ==
  /\ ~Waiting /\ armed
  /\ armed' = FALSE /\ exc' = "CmdlineTimeout"
  /\ UNCHANGED <<pc, res, loggedIn, again, keys, rx, eof, console>>

-----------------------------------------------------------------------------
(* The console: what a key may do in a mode, as the mode it leads to and   *)
(* the texts printed.                                                      *)
To(m, texts) == [mode |-> m, texts |-> texts]

ShellStarts == {To("shell", <<shell>>), To("shell", <<"lastlogin", shell>>)}
LoginAgain  == {To("login", <<"login">>)}

AtLogin(key) ==
  CASE key \in {"empty", "eof"} -> LoginAgain
    [] key = "user"             -> {To("password", <<"password">>)} \cup ShellStarts
    [] key = "pass"             -> {To("password", <<"password">>)}

(* A wrong password leads back to the login, to the question or, if it was *)
(* a program's, to the shell the program was run from.                     *)
AtPassword(key) ==
  CASE key = "eof"  -> LoginAgain
    [] key = "pass" -> LoginAgain \cup ShellStarts
    [] OTHER        -> LoginAgain \cup ShellStarts \cup {To("password", <<"password">>)}

AtShell(key) == IF key = "eof" THEN LoginAgain ELSE {To("shell", <<shell>>)}

InProgram(key) ==
  {To("program", <<>>), To("program", <<"text">>)}
    \cup IF key = "eof" THEN LoginAgain \cup {To("shell", <<shell>>)} ELSE {}

Answers(key) ==
  CASE mode = "login"    -> AtLogin(key)
    [] mode = "password" -> AtPassword(key)
    [] mode = "shell"    -> AtShell(key)
    [] mode = "program"  -> InProgram(key)

(* ^U and return at a password prompt are an empty password.               *)
EmptyPassword(key, m) == key = "empty" /\ mode = "password" /\ m = "shell"

(* What is printed while no stream is open is not shown by the next one.   *)
Shown(texts) == IF Waiting /\ ~eof THEN rx \o texts ELSE rx

ReadKey ==
  /\ keys # <<>>
  /\ \E a \in Answers(Head(keys)) :
       /\ mode' = a.mode /\ rx' = Shown(a.texts)
       /\ disturbed' = (disturbed \/ EmptyPassword(Head(keys), a.mode))
  /\ keys' = Tail(keys)
  /\ UNCHANGED <<client, eof, shell, stale>>

(* A login times out, a machine reboots, a program asks or ends.           *)
ByItself ==
  /\ Len(rx) < MaxUnread
  /\ \E a \in LoginAgain \cup {To("shell", <<shell>>), To("password", <<"password">>),
                               To("program", <<"text">>)} :
       /\ mode' = a.mode /\ rx' = Shown(a.texts)
  /\ disturbed' = TRUE
  /\ UNCHANGED <<client, keys, eof, shell, stale>>

EndOfStream ==
  /\ Waiting /\ ~eof
  /\ eof' = TRUE
  /\ UNCHANGED <<client, keys, rx, console>>

-----------------------------------------------------------------------------
Init ==
  /\ pc = "idle" /\ exc = "none" /\ res = {"root"}
  /\ loggedIn = FALSE /\ armed = FALSE /\ again = FALSE
  /\ keys = <<>> /\ rx = <<>> /\ eof = FALSE
  /\ mode \in Modes /\ shell \in {"root", "cli"}
  /\ stale = FALSE /\ disturbed = FALSE

Expect  == ExpectMatch \/ ExpectMore \/ Timeout
Console == ReadKey \/ ByItself \/ EndOfStream

Next == StartFails \/ Start \/ Expect \/ RecvFails \/ StrayAlarm \/ Console

Spec == Init /\ [][Next]_vars

(* At the end of the stream recv() returns at once, so expect() spins and  *)
(* the alarm's handler gets to run.  Nothing is assumed otherwise: in a    *)
(* recv() that blocks it may never run.                                    *)
FairSpec == Spec /\ WF_vars(eof /\ Expect)

-----------------------------------------------------------------------------
(* Every variable keeps its kind of value, and no expect() waits without   *)
(* its alarm.                                                              *)
TypeOK ==
  /\ pc \in Waits \cup {"idle"} /\ exc \in Excs /\ res \in {{"root"}, {"cli"}}
  /\ loggedIn \in BOOLEAN /\ armed \in BOOLEAN /\ again \in BOOLEAN
  /\ keys \in Seq(Keys) /\ rx \in Seq(Texts) /\ eof \in BOOLEAN
  /\ mode \in Modes /\ shell \in {"root", "cli"}
  /\ stale \in BOOLEAN /\ disturbed \in BOOLEAN
  /\ Waiting => armed

Returns == Waiting /\ pc' = "idle" /\ exc' = "none"
ReadsPassword == keys # <<>> /\ keys' = Tail(keys) /\ Head(keys) = "pass"

(* From wherever the console was and whatever answers came late: when the  *)
(* first start() of a channel returns, the console is in a shell.  But on  *)
(* a console that still had keys of an earlier start() to read, or that    *)
(* was disturbed, the prompts are not the answers to what was sent since.  *)
LoggedInOnReturn ==
  [][ Returns /\ ~again /\ ~stale /\ ~disturbed => mode = "shell" ]_vars

(* The password is only ever read by what asks for one, however late the   *)
(* prompts were that the dialogue has skipped: it is never typed into a    *)
(* shell, a program or a login that echoes it.  The same exceptions.       *)
PasswordAnswersPrompt ==
  [][ ReadsPassword /\ ~stale /\ ~disturbed => mode = "password" ]_vars

(* A stream that ends ends the call, though recv() then returns nothing    *)
(* for ever: the alarm alone gets expect() out of its loop, and the second *)
(* attempt after the first alarm has to end as well.                       *)
EofEndsCall == eof ~> ~Waiting

-----------------------------------------------------------------------------
(* What the documentation says of the code and the code does not do.       *)

(* "Opens a console and logs in." (libvirtchannel.py:66), every time.      *)
(* _console_logged_in is never reset, so a later start() takes the first   *)
(* prompt it sees, a login or password prompt, for a shell.                *)
EveryStartLogsIn ==
  [][ Returns /\ ~stale /\ ~disturbed => mode = "shell" ]_vars
=============================================================================
