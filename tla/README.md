# Verification of steelscript.cmdline

TLA+ models of the `steelscript.cmdline` package: the classes that drive the
command line of a network appliance over SSH, telnet or a console, and the
parsers for what the appliance prints. The modules model the code in
`steelscript/cmdline/`; `PROJECT.json` maps every definition to the lines it
models.

## The system

| component | source | state | operations | what makes it correct |
|---|---|---|---|---|
| CLI session | `cli/__init__.py` | the channel, or none | `start`, `_send_and_wait`, `_cleanup_helper`, `with` | a reply belongs to the line sent last |
| RVBD_CLI | `cli/rvbd_cli.py` | default mode, default prompt | `enter_mode*`, `exec_command`, `get_sub_commands`, `default_mode` | a command runs in the mode asked for, once, or twice if the session was restarted; restarts end |
| IOS_CLI | `cli/ios_cli.py` | none of its own | the same, with interfaces | a command runs once, in the mode and on the interface asked for |
| VyattaCLI | `cli/vyatta_cli.py` | none of its own | the same, with `force` | uncommitted changes are discarded only on demand |
| SSHChannel | `sshchannel.py`, `channel.py` | the paramiko channel and its buffer | `start`, `close`, `send`, `expect` | the prompt is found when it arrives; the output is the text before it |
| SSHProcess | `sshprocess.py` | the transport | `connect`, `disconnect`, `open_interactive_channel` | a refused login leaves no connection |
| Shell | `shell.py` | an SSHProcess | `exec_command`, `_reconnect` | a command runs once at most; success is reported of a command that succeeded |
| TelnetChannel, LibVirtChannel | `telnetchannel.py`, `libvirtchannel.py` | connection; logged in or not | login, `send`, `expect` | logged in when `start` returns |
| CLICache | `cli/__init__.py` | one CLI per resource | `get_cli`, `drop_cli`, `drop_all` | one open session per resource |
| Parsers | `parsers.py` | none | `cli_parse_table`, `parse_saasinfo_data`, ... | what is printed is in the result, in its place |

A CLI object owns a channel and calls it: every operation of a CLI is a series
of exchanges, each of which sends a line and waits for one of a few prompts. One
thread runs it. What makes it hard is the other side: the appliance is a process
with a mode of its own, which the client only knows from the prompts it reads.
The appliance may refuse a line, ask for a password, crash back to a shell,
answer after the client has given up, or lose the connection between any two
steps; replies are cut into chunks anywhere. RVBD_CLI reacts to lost connections
by closing the session, opening another and trying again, and does so in two
methods that call each other. `Shell` reconnects too, by a rule of its own, and
has a third party to wait for: the command, whose output and exit status
travel separately. `LibVirtChannel` has no session at all: the console was there
before the channel and is in whatever state its last user left it.

## Modules

* `CliSession` - what the CLI classes share. The client thread is a stack of
  instructions (`todo`): a call pushes the body of the method, `try` leaves its
  handler behind as an instruction, a raised exception (`exc`) pops instructions
  until a handler takes it. `inq` and `rx` are the lines and the replies under
  way; `due` marks the one that belongs to the wait in progress, and `lost`
  remembers that some wait on this session was given up or that the appliance
  printed a prompt of its own. Both are ghosts: no action of the client reads
  them. A connection that drops takes the lines under way with it and any number
  of the last replies: the ones the client had received already it may still
  read. `typed` is text left in the appliance's line editor, and `AtEmptyPrompt`
  says that what is sent now will be read as a command: there is no such text
  and no question for a password is open. `Open*` is `CLI.start` down to
  paramiko, `Send*` is `_send_and_wait`, `Expect*` is `SSHChannel.expect` reply
  by reply, `CleanupHelper` is `close`.
* `RvbdCli`, `IosCli`, `VyattaCli` - one vendor class each, on `CliSession`,
  with the appliance it talks to. The operators under "the methods' bodies" are
  the methods, written as the instructions they push; the actions below them are
  the branches a method takes on a reply. `Call*` is the user, who calls one
  method at a time with any arguments, on a session that may be in any state;
  `start` also on one that is up, or half up after a `start` that failed. The
  appliance's `From<Mode>` operators say what a line may do in a mode, and are
  not code of this repository: they follow from which replies the code is
  written to handle, and allow refusals wherever the code checks for one.
* `SshReceive` - `SSHChannel.expect` as it reads text: `Receive` is one round of
  its loop, with `fixup_carriage_returns`, `_process_data` and `_match_lines`.
  `CliSession` has replies where this module has characters.
* `CliTable` - `cli_parse_table` on one line, field by field.
* `CliService` - the abstract specification of a CLI class: what its user is
  promised, without prompts, replies or buffers. A call may always fail. One
  that returns on a session that can be trusted has landed in the mode it names,
  or had its command run there, once, or twice across a replaced session. A call
  that names no mode sends its command to whatever the appliance asks: that it
  was run is promised only if the appliance stood at an empty prompt (`ready`).
* `ConsoleLogin` - `LibVirtChannel.start`. `pc` says which `expect` of
  `_handle_init_login` waits; `After*` are the branches taken on what it
  matched, `Timeout` the alarm and the `except` clause it leads to, `ReadKey`
  the console. What a `start` that timed out has sent and the console has not
  read stays queued, also when the next `start` opens a new stream. Two ghosts:
  `stale`, the console had not read all of that when this `start` began;
  `disturbed`, the console changed by itself since, or an account without a
  password was entered by the empty line of the check.
* `ShellExec` - `Shell.exec_command` over `SSHProcess`, one action per call into
  paramiko and per loop; the host and the network act in between. `authed` is
  how much of the login the host has accepted: nothing, a part (it asks for
  another factor, and paramiko returns without an exception), or all. `runs`, a
  ghost, counts how often the host has started the command.
* `SaasInfo` - `parse_saasinfo_data`: an appliance that prints sections in any
  order, and the parser that files each line as it is printed.
* `CliSessionProofs` - lemmas about `CliSession` for any set of instructions and
  lines: what each exchange with the appliance does to an invariant of the
  session, whoever the vendor is.
* `RvbdCliProofs`, `IosCliProofs`, `VyattaCliProofs`, `SshReceiveProofs`,
  `ShellExecProofs`, `ConsoleLoginProofs` - the theorems about the module of
  that name.
* `ParserProofs` - the theorems about both parsers, `CliTable` and `SaasInfo`
  (whose specification is therefore called `SaasSpec`, its type `SaasTypeOK`).

Operators whose name begins with `Bug` are the faulty versions of a definition
that the mutants in `PROJECT.json` put in its place to show that a property
notices them.

## What the runs check

* `rvbd_safety` (`MCRvbdCli.cfg`, 8.3 million states): every method of RVBD_CLI
  with every mode, including one it does not know. `ConversationInStep`: on a
  session where no wait was given up, nothing but the awaited answer is
  outstanding. `EnterModeLands` and `CommandInRequestedMode`: a call lands, and
  runs its command, in the mode it names. `RestartsBounded`: four restarts at
  most for one call, which is reached. `NoSilentRelogin`: a crashed CLI is never
  logged back into on the same session. `TimeoutEndsCall`: after a timeout
  nothing more is sent.
  `ImplementsService`: see the refinement below.
* `rvbd_liveness` (`MCRvbdCliLive.cfg`): `CallsReturn`, every call returns.
* `ios`: the same questions for IOS_CLI, and that a command never lands on
  another interface. It has no restarts, so it implements `CliService` without
  the right to repeat a command.
* `vyatta`: a refused exit leaves a prompt behind, so the session is *not* in
  step. `AtMostOneReplyBehind` bounds the damage, `EnterModeLands` and
  `CommandInRequestedMode` survive it, and `ChangesSurvive` says that it never
  makes the CLI discard changes unasked.
* `ssh_receive`: every text of up to seven characters, cut everywhere.
  `MatchesAsPromptArrives`, `NothingLost`, and `ChunksInvisible`: for an
  appliance that ends its lines with `\r\n` the output does not depend on the
  chunks, but for blank lines before the prompt.
* `cli_table`: every line of nine places under every two headers. `RowIsLine`,
  `FiledBelowHeader`, and `MostTidyLinesParse`: a line of fields that reach past
  the first character of their header, without one-letter words, is accepted.
* `console_login`: every state of a console when the channel is opened, and
  answers that come late. `LoggedInOnReturn`: the first `start` that returns
  left the console in a shell. `PasswordAnswersPrompt`: the password is typed at
  nothing but a question for it. Both of a `start` that begins on a console which
  has read all it was sent before (`~stale`), and is not disturbed: otherwise the
  prompts are not the answers to what it sends. `EofEndsCall`: a stream that ends
  does not leave `expect` spinning.
* `shell_exec`: a connection that may drop between any two steps.
  `CommandAtMostOnce`; `SuccessIsReal`: what is reported as a success was one;
  `RefusedLoginIsDropped`: a login that was refused or cut off leaves no transport
  that looks usable; `CallsReturn`: a call with a timeout returns, unless it comes
  to wait for ever for the host to answer a login, a new channel or the request
  to run the command (`AwaitsHost`), which paramiko does without a timeout.
* `saas_info`: `FiledAsPrinted`, and `RefusedForRegion`: the only listing that is
  refused is one with addresses of a region that had no mailbox before.

### The refinement

`RvbdCli` and `IosCli` implement `CliService` (`ImplementsService`) under the
mapping `Service`: the place is the appliance's mode (for IOS the mode and the
interface), and it is `clear` at an empty prompt; a call is what the user called,
whether the appliance was clear then or the call names a mode, and how often the
ghosts saw its command run; the session is trusted while it is connected, no wait
on it was given up and the appliance printed nothing of its own. A command counts
as run when the appliance reads it as a command (`RunsCommand`), not when a
question for a password or text in the line editor takes the line. A line the
appliance reads is a `Move` or a `Run`, a connection that drops is a `Lose`, with
or without the reply to a command that ran, and a handler of `exec_command` that
restarts is a `Retry`; everything the client does with replies is a stutter.

`VyattaCLI` does not implement it: after a refused exit it may return from
`exec_command` before the router has read the command (run `vyatta_output`).

### Where the code does not do what it says

Each of the first three is a run that ends in a counterexample; `findings` in
`PROJECT.json` quotes the sentence and the code.

* `resent_command_mode`: a command re-sent after a restart runs in normal mode.
* `vyatta_output`: after a refused exit, `exec_command` returns what is left of
  the refusal, before the router has run the command.
* `console_relogin`: `_console_logged_in` is never reset, so a second `start` on
  a `LibVirtChannel` returns at a login prompt.

Met while modelling, and without a run of their own. The models do all of the
first five, and the properties are stated so that they hold in spite of it:

* `start` on a CLI that is up, or half up after a failed `start`, overwrites its
  channel without closing it (`cli/__init__.py:155`), and the transport lives on.
  This is what using the result of `get_cli` in a `with` statement does.
* `_send_and_wait` says that it flushes the buffer (`cli/__init__.py:172`) and
  does not (184): after a timeout every reply is taken for the answer to the
  line after it. `lost` marks such sessions.
* `get_sub_commands` raises `TypeError` (bytes and `str` are added,
  `rvbd_cli.py:442`) and leaves its text in the appliance's line editor; `_enable`
  raises with a password prompt open (`rvbd_cli.py:268`, `ios_cli.py:171`). Either
  takes the next command, and with `error_expected` `exec_command` returns as if
  it had run. `ready` marks the calls that do not begin there.
* The line that clears the console's input (`libvirtchannel.py:142`) does not
  clear what an earlier `start`, which timed out, has sent: with a `^D` among it
  the next `start` returns the prompt of a shell that is about to end. `stale`
  marks such a `start`.
* When the host asks for a second factor `connect` returns, and `is_connected` says
  so, on a transport that nothing can be done with (`sshprocess.py:70-73`); and
  `channel.exec_command` (`shell.py:145`) waits without a timeout for the host to
  answer the request, before `Shell.exec_command` first looks at its clock.
* A table is refused when a field reaches only the first character of its
  header (`parsers.py:262`), for instance a one-digit column; also when a
  one-letter word stands between two others (`a b c`).
* `Shell.exec_command` raises `TypeError` for any command that prints, because it
  adds the bytes it received to a `str` (`shell.py:181`). A connection lost while
  the command runs is a `ShellError` with status -1, or with `error_expected`
  nothing at all, and not the `ConnectionError` of the docstring. A transport
  that dies during the login raises whatever paramiko raises, not only
  `SSHException`.
* The `timeout` of `LibVirtChannel.start` is ignored (`libvirtchannel.py:164`).
* `CLICache.get_cli` passes `host=` and `user=` to classes that read `hostname=`
  and `username=`; `drop_all` disconnects only what nobody else holds.
* `CLI.start` evaluates `self.channel.conn_port` even when a port was given;
  `TelnetChannel` and `LibVirtChannel` have no such attribute.

## Bounds

* `MaxBacklog` (1): how many lines and replies of *earlier* calls may still be
  outstanding when a call begins. One is enough for a reply to be taken for
  another; it restricts only sessions on which a wait was given up, because
  otherwise `ConversationInStep` (for Vyatta `AtMostOneReplyBehind`) shows that
  there is at most that much. In `rvbd_liveness` it is 0 and only configuration
  mode is asked for, the mode whose entry nests all handlers.
* `UserModes`: all modes in `rvbd_safety`. `Interfaces`: two, so that a command
  can hit the wrong one.
* One user command; its output is empty, text, or an error. The code does not
  tell more apart. Vyatta has three commands: one that reads, one that changes
  and one that commits.
* `MaxLength` (7) and `Width` (9): an echoed line and an output line with their
  line ends and a prompt; two headers and two fields of two words.
* `MaxUnread` (1 in `console_login`): a console left to itself does not print
  while this much is unread, and `start` is not called while more keys than this
  are. What a `start` itself sends, and what is printed in answer, is not bounded.
  One is enough for a key of an earlier `start`, or a text nobody asked for, to
  come first. `console_relogin` takes 2.
* `MaxRetryCount` (2): `_reconnect` tries again, and gives up. The code treats
  every try but the last alike. `-1` stands for all it refuses.
* `Regions`, `Mailboxes`, `Ips` (two each) and `MaxLines` (10): two regions with
  mailboxes and addresses, and a section that is printed twice.

Numbers of calls, restarts, drops and crashes are not bounded: the state spaces
are finite without.

## Fairness

`rvbd_liveness` assumes that the client thread keeps running
(`WF_vars(Client)`). For `expect` this is enough because a wait can always end: it
polls with `select` every ten seconds and looks at the clock before the data. A
timeout of 0, "wait forever", is outside the model. Opening a session is one
action (`Open*`), so the assumption is also that a host which takes the
connection answers the login, `get_pty` and `invoke_shell`, or hangs up:
paramiko waits for these without a timeout. Once a session is open nothing is
assumed of the appliance, the network or the user.

`shell_exec` does not assume that of the host. The client thread runs its loops
(`WF_vars(Timeout \/ Read \/ Return)`), which look at the clock, and on a
transport that is down paramiko's calls return or raise (`WF_vars(~is_connected
/\ Client)`). Logging in, opening a channel and asking for the command to be run
wait for the host as long as it likes; `CallsReturn` excepts a call that waits
there for ever. A command may run for ever as well, and then only a call with a
timeout is said to return.

`console_login` assumes less, `WF_vars(eof /\ Expect)`: at the end of a stream
`recv` returns at once, so the loop goes round and Python runs the handler of the
alarm. In a `recv` that blocks in libvirt the handler may never run, so nothing
is said of a console that is merely silent.

## What is proved

`RvbdCliProofs` proves for every `MaxBacklog` and every set of modes users ask
for, from `MaxBacklogAssumption` and `UserModesAssumption` alone:

* `TypeCorrect` - `TypeOK`;
* `InStep` - `ConversationInStep`;
* `TimeoutReachesUser` - `TimeoutEndsCall`.

None of these is inductive by itself. That a line is sent only while nothing is
outstanding depends on where in the stack a "wait" may stand, and that a session
comes with nothing outstanding on where an "open" may. `StackShape` says so:
both occur only at the head of the stack, and everything below it is of other
kinds. With the types of what `CliSession` keeps, and that lines are sent only
on an open session, this is `SessionInv` of `CliSessionProofs`, which every CLI
class shares and whose lemmas say once what each exchange does to it; `IInv`
adds the properties (`Invariance`). The proof goes by the groups of actions:
`Local` steps and unwinding replace the head of the stack by a program of inner
instructions (`EnterModeInner`, `ModeTables`), restarts put `Start` on the stack
(`StartShape`), exchanges move the one outstanding answer from `inq` to `rx` to
the client, and the environment adds a prompt only together with `lost`.
`TimeoutEndsCall` follows by inspection of the handlers: none takes
`CmdlineTimeout`.

The second part of `RvbdCliProofs` goes on, from the same two assumptions:

* `RestartsStayBounded` - `RestartsBounded`;
* `OnlyStartsLaunch` - `NoSilentRelogin`;
* `Lands` - `EnterModeLands`;
* `RunsWhereAsked` - `CommandInRequestedMode`;
* `Implements` - `ImplementsService`, the refinement of `CliService`.

What a call still does is decided by the whole stack, and a restart changes the
stack in the middle of a call. The invariants come in layers, each proved with
those before it:

* `NestInv`, how handlers nest. Every instruction gets a mark (`Rank`): the
  launch of the CLI, the handlers of `enter_mode` and `exec_command`, what will
  install one. Along the stack the marks grow strictly from the instruction being
  executed to the first one, so each handler occurs once, and a handler that
  restarts leaves only smaller marks in its place. `Load` weighs what is left:
  it and the restarts made never exceed four. That the nesting does not go
  further down depends on `default_mode`, which is `None` while a shell is being
  entered: the `exec_command` in there enters no mode of its own.
* `FreshInv`, what a call that never restarted can send: not the line that
  launches the CLI, unless the call is `start`.
* `ModeInv`, where the appliance is: assertions before and after each instruction,
  about the mode, the kind of the last output and whether there is text in the
  line editor, that fit along the stack as
  they do for `IosCli` below. Only two lines are sent from more than one mode,
  and those lead elsewhere or to an error (`Reached`); a handler lands where its
  method does, whichever way it gets there. A command that is re-sent is excepted
  (`SentFrom`), as in `CommandInRequestedMode`.
* `CountInv`, what became of the user's command: while something on the stack
  will still send it, it is not under way and has run at most once per earlier
  session; once nothing will, it is under way, has run, or the call is failing or
  untrusted, or began without a mode at a prompt that was not empty, and nothing
  is left on the stack that could replace the session. A line that only a mode
  change has led to finds an empty prompt, which `ModeInv` gives.

`Implements` maps a call to `Invoke`, `default_mode` and `exit` to `Manage`, a
session that opens to `Open`, or to `Move` where a trusted one is replaced by it, a
line read to `Run`, `Move` or `Lose`, help text that is read, and stays in the
line editor, to `Move` or `Lose`, the restart of `exec_command` to `Retry`, every
other loss of the session to `Lose`, the last instruction to `Return`, and
everything else to a stutter.

`IosCliProofs` proves for every set of interfaces and every `MaxBacklog`, from
`InterfacesAssumption` and `MaxBacklogAssumption` alone:

* `TypeCorrect` - `TypeOK`;
* `InStep` - `ConversationInStep`;
* `Lands` - `EnterModeLands`;
* `RunsWhereAsked` - `CommandInRequestedMode`;
* `Implements` - `ImplementsService`, the refinement of `CliService`.

Where a call lands is decided by the whole stack, not by the instruction under
way, so the invariant is an assertion before and after every instruction
(`Before`, `After`), as in a proof of a sequential program: `StackTyped` says
that along the stack what one instruction leaves is what the next one needs, up
to the last, which leaves the call at its goal; `HereTyped` that the first one's
assertion holds of the place where the switch is, and `ExchangeTyped` the same
for an exchange under way, whose line may not have been read yet or whose
answer may still be on its way. All three are claimed of sessions that can be
trusted only. `RunOnce` and `OneDue` count the user's command: what has run,
what is under way and what the stack has yet to send make one, at most, and
exactly one while the call has not failed, the session can be trusted and the
switch was at an empty prompt or led to one. `IInv` is their
conjunction with the session's invariant (`Invariance`), and its proof goes by
the groups of actions, each reduced to what it does to the head of the stack
(lemmas of `CliSessionProofs`) and to the table of the switch's effects.
`Implements` maps each step: a call to `Invoke`, `exit` to `Manage`, a session
that opens to `Open` or, in place of a trusted one, to `Move`, a line read to
`Run`, `Move` or `Lose`, the last instruction to `Return`, a wait given up or a
lost connection to `Lose`, and everything else to a stutter.

`VyattaCliProofs` proves for every `MaxBacklog`, from `MaxBacklogAssumption`
alone:

* `TypeCorrect` - `TypeOK`;
* `BehindByOne` - `AtMostOneReplyBehind`;
* `Lands` - `EnterModeLands`;
* `RunsWhereAsked` - `CommandInRequestedMode`;
* `ChangesKept` - `ChangesSurvive`.

Here the session is not in step, and the invariant says by how much. Between
exchanges (`Slack`) either nothing is outstanding, or one configuration prompt
that a refused exit left, or one line that changes no mode and nobody waits for,
and the latter two only in configuration mode. During an exchange (`Exchanged`)
the line under way may have that slack before it, its answer may have it before
or, after a refusal, behind it. The assertions along the stack (`Before`,
`After`) relate the mode to the prompt that was matched: a stale prompt is a
configuration prompt and the router is in configuration mode, so it misleads
nobody about the mode (`Seen`); `SentIn` says that `exit discard` goes out only
for a call that said force, from which `ChangesKept` follows.

`ShellExecProofs` proves for every `MaxRetryCount`, from
`MaxRetryCountAssumption` alone:

* `TypeCorrect` - `TypeOK`;
* `AtMostOnce` - `CommandAtMostOnce`;
* `RefusedLoginLeavesNothing` - `RefusedLoginIsDropped`;
* `SuccessProved` - `SuccessIsReal`.

That a command is started at most once needs `Unsent`: while the client is
connecting, logging in, opening a channel or about to send the request, nothing
has been started and nothing has arrived; every way back to connecting is taken
from such a point, none from the loops. That success is real needs
`StatusIsReal`, a status of 0 that has arrived is the one the command exited
with, and `StartedOnce`, whatever became of a command, it was started once.
`Reached` adds to `RefusedLoginIsDropped` that a connection is only made where
none is alive. `Invariance` is their conjunction; its proof goes by the groups
of actions.

`ParserProofs` proves of `SaasInfo`, for every set of regions, mailboxes and
addresses and every length of output, from `RegionsAssumption` (a region is not
an address, which is how the parser tells them apart):

* `SaasTypeCorrect` - `SaasTypeOK`;
* `Files` - `FiledAsPrinted`;
* `Refuses` - `RefusedForRegion`.

The parser has one variable for the region of the last mailbox line and for the
region whose addresses follow. `InRegion` says that what a mailbox line left in
it is never used for an address, and `Mailed` that a region which had a mailbox
stays known.

`ConsoleLoginProofs` proves for every `MaxUnread` (no bound is needed for it):

* `TypeCorrect` - `TypeOK`;
* `LogsIn` - `LoggedInOnReturn`;
* `PasswordIsAskedFor` - `PasswordAnswersPrompt`.

The dialogue skips prompts, so several keys and several prompts can be unread.
`Dialogue` says what can be unread at each `expect`, for a `start` that began on
a console which had read all it was sent, and that nothing disturbed since. Of
any other nothing is claimed, for the reasons above. At the first, one key or
the one prompt it brought up; on the way back to a login prompt, keys that keep
a console at a login there; the user name is the last key and finds a login
prompt, with nothing but login prompts printed before it; the question for the
password is the last text, so that the password is the only key. A text that is
matched then says where the console still is.

`ParserProofs` proves of `CliTable`, for lines of every width, from
`WidthAssumption` alone:

* `TypeCorrect` - `TypeOK`;
* `NothingMoved` - `RowIsLine`;
* `RightHeader` - `FiledBelowHeader`;
* `TidyLinesParse` - `MostTidyLinesParse`.

Where a match or a word ends, which words a field has and what filing them one by
one does are recursive functions and a fold. What they compute is shown once, by
induction over sets of numbers (`NatSetInduction`, from well-foundedness: the
library's own induction theorems take an operator, which the provers cannot
instantiate): `MatchEnds` and `WordEnds` for a function that follows a chain of
places to its end, `WordsOfField` for the words of a field, `FoldSteps` for the
rows between two words filed. The invariant (`IInv`) is `Aligned`, each field in
the row has exactly one header by the code's own search and is filed under it,
and they stand one behind the other, and `Complete`, what was scanned is in the
row. `FileKeeps` and `WordsKeep` show that filing keeps that order: the first and
the last header of a field are found by its two ends alone (`Sides`), so what
stands further right never has a header further left. `TidyInv`
adds, for lines that should be accepted, that the scan stands behind two blanks,
so that the next match is a whole field, whose header is then still free.

`SshReceiveProofs` proves for texts of every length, cut into any chunks, from
`MaxLengthAssumption` alone:

* `TypeCorrect` - `TypeOK`;
* `PromptIsFound` - `MatchesAsPromptArrives`;
* `AllIsShown` - `NothingLost`;
* `LinesAreReturned` - `ChunksInvisible`.

A substitution is described by the places it keeps, and what a text with only
some of its places is, how such texts compose, and that lines joined again show
the text that was split, is shown by the same induction over sets of numbers.
The invariant (`Inv`) says why it is enough to search the part behind
`next_line_start`. `AtLineStart`: that index is the start of a line, so no prompt
lies across it. `KeptAgrees`: until the prompt arrives there is none in what
arrived, and what is kept has the same visible characters, has no prompt either,
and ends in the first character of one if what arrived does, so that the next
chunk completes a prompt in both or in neither. The clean-up only drops carriage
returns that stand beside another line end, so it puts no prompt together.
`OutputShows` carries this to what is returned. None of these alone is
inductive: the next round reads on from what the last one kept.

That chunks are invisible needs to know the kept text exactly, for an appliance
that ends its lines with `\r\n`. `WholeLines`: there is an `m` such that the first
`m` characters that arrived are whole lines, kept without their carriage returns,
and the rest is an unfinished line, kept as it came. `ReceiveWhole` shows that a
round keeps this, with a chunk cut between `\r` and `\n` as the case that matters,
and `MatchWhole` that a match then returns the lines that were sent.

Only model-checked:

* Liveness (`CallsReturn` of `RvbdCli` and `ShellExec`, `EofEndsCall`), which
  needs `ENABLED`.
* The three runs that end in a counterexample.

## What is not modelled

* What becomes of a transport that `start` has forgotten: the models follow the
  one that took its place.
* Hosts that accept a connection and answer nothing, in the CLI modules: see
  Fairness. `ShellExec` has them.
* Two threads that share one CLI object; nothing in the package makes that safe.
* Timeouts of 0; `prompt` arguments of `exec_command` other than the default
  (the code's own uses are modelled); prompts that occur inside a command's
  output, which `expect` would match.
* The wording of messages, logging, and the classes in `exceptions.py` beyond
  their names; `transport.py`, which is abstract.
* The text a shell command prints: reading any raises, so what is modelled is
  whether there was some.
* `expect` of `LibVirtChannel` called with a timeout of 0, and the two
  `receive_all`, which nothing calls.
* `TelnetChannel`: its patterns are `str` and `telnetlib` searches bytes, so the
  first `expect` of its login raises at once on Python 3. A model of the dialogue
  would describe no execution.
* `CLICache`: a dictionary with four operations of a line or two, used by one
  thread. What can go wrong is in how it is used (above), and a model of the
  dictionary would restate it.
* `cli_parse_basic` and the small parsers: each line, or the whole text, is one
  regular expression or `split`, without state from line to line.

## Plan

In this order; all but the last step are done.

1. `CliSession` and `RvbdCli`: the package's hardest behaviour. Done.
2. `RvbdCliProofs`: types, conversation, timeouts. Done.
3. `IosCli`. Done.
4. `VyattaCli`. Done.
5. `SshReceive`. Done.
6. `CliTable`. Done.
7. `CliService`, and that `IosCli` and `RvbdCli` implement it. Done.
8. `ConsoleLogin`, the login of `LibVirtChannel`. Done. (`TelnetChannel` and
   `CLICache` were planned and left out, for the reasons above.)
9. `ShellExec` and `SaasInfo`, with their proofs. Done.
10. Proofs about the three CLI classes: where calls land and commands run, for
    `RvbdCli` how often a session is restarted, for `VyattaCli` how far it falls
    behind, and the refinement of step 7; and about `CliTable`. Done.
11. Proofs about `SshReceive`, with the same induction: that filters and joins
    keep the visible characters, the prompt, and that chunks are invisible. Done.
12. The life cycle of one `SSHChannel` over a transport that comes and goes, if
    the package ever starts one twice.
