----------------------------- MODULE SshReceive -----------------------------
(***************************************************************************)
(* SSHChannel.expect as it reads: text arrives in chunks of any size, each *)
(* chunk is joined to the line it continues, the carriage returns of that  *)
(* part are cleaned up, and its lines are searched for the prompt.         *)
(*                                                                         *)
(* A text is a sequence of characters of four kinds: "h" and "#", which    *)
(* together are the prompt and apart are output, and the two line ends.    *)
(* Definitions whose name begins with Bug are faults a change could bring  *)
(* in; nothing uses them but the check that the properties notice.         *)
(***************************************************************************)
EXTENDS Integers, Sequences, FiniteSetsExt

CONSTANT MaxLength     \* of a text

ASSUME MaxLengthAssumption == MaxLength \in Nat

VARIABLES
  text,      \* everything the appliance will have sent
  arrived,   \* how many characters of it recv() has returned
  received,  \* expect's received_data
  lineStart, \* the characters of received before next_line_start
  result,    \* "reading", or how expect ended
  output     \* what it returned

vars == <<text, arrived, received, lineStart, result, output>>

CR    == "\r"
LF    == "\n"
Chars == {"h", "#", CR, LF}
Texts == UNION {[1 .. n -> Chars] : n \in 0 .. MaxLength}

-----------------------------------------------------------------------------
(* The places in K, from left to right.                                   *)
InOrder(K, n) ==
  LET upTo[i \in 0 .. n] == IF i = 0 THEN <<>>
                            ELSE IF i \in K THEN Append(upTo[i - 1], i)
                            ELSE upTo[i - 1]
  IN  upTo[n]

(* The characters of s at the places in K.                                 *)
Filter(s, K) ==
  LET places == InOrder(K, Len(s)) IN [k \in DOMAIN places |-> s[places[k]]]

Least(K)    == IF K = {} THEN 0 ELSE Min(K)
Greatest(K) == IF K = {} THEN 0 ELSE Max(K)

At(s, i, chars) == i \in DOMAIN s /\ s[i] \in chars

(* Channel.fixup_carriage_returns: its three substitutions, in order, each *)
(* of which drops carriage returns.  A lone one stays what it is.          *)
Repeated(s, i) == s[i] = CR /\ At(s, i - 1, {CR})
BeforeLF(s, i) == s[i] = CR /\ At(s, i + 1, {LF})
AfterLF(s, i)  == s[i] = CR /\ At(s, i - 1, {LF}) /\ At(s, i + 1, Chars \ {CR, LF})

EatRepeated(s) == Filter(s, {i \in DOMAIN s : ~Repeated(s, i)})
EatBeforeLF(s) == Filter(s, {i \in DOMAIN s : ~BeforeLF(s, i)})
EatAfterLF(s)  == Filter(s, {i \in DOMAIN s : ~AfterLF(s, i)})

BugFixup(s) ==
  LET eaten == EatBeforeLF(EatRepeated(s))
  IN  [i \in DOMAIN eaten |-> IF eaten[i] = CR THEN LF ELSE eaten[i]]

FixupCarriageReturns(s) == EatAfterLF(EatBeforeLF(EatRepeated(s)))

(* str.splitlines: "\r", "\n" and "\r\n" each end a line; what is behind   *)
(* the last of them is a line unless it is empty.                          *)
EndsLine(s, i) == s[i] = LF \/ (s[i] = CR /\ ~At(s, i + 1, {LF}))
Starts(s)      == {i \in DOMAIN s : i = 1 \/ EndsLine(s, i - 1)}

(* The place of the line end, or of the text's, that the line at i is      *)
(* followed by.                                                            *)
LineEnd(s, i) == Min({j \in i .. Len(s) + 1 : j \in DOMAIN s => s[j] \in {CR, LF}})
LineAt(s, i)  == SubSeq(s, i, LineEnd(s, i) - 1)

SplitLines(s) ==
  LET starts == InOrder(Starts(s), Len(s))
  IN  [k \in DOMAIN starts |-> LineAt(s, starts[k])]

(* '\n'.join                                                               *)
Join(lines) ==
  LET upTo[k \in 0 .. Len(lines)] == IF k = 0 THEN <<>>
                                     ELSE IF k = 1 THEN lines[1]
                                     ELSE upTo[k - 1] \o <<LF>> \o lines[k]
  IN  upTo[Len(lines)]

(* Where the prompt starts in s, 0 if it is not there (re.search).         *)
PromptAt(s) == Least({i \in DOMAIN s : s[i] = "h" /\ At(s, i + 1, {"#"})})

LastLF(s) == Greatest({i \in DOMAIN s : s[i] = LF})

-----------------------------------------------------------------------------
BugLineStart(data) == Len(data)

BugLineStartTooFar(data) == LastLF(data) + 1

(* The index behind the last "\n", where the next round starts.            *)
NextLineStart(data) == LastLF(data)

BugOutput(data, start, lines, n) ==
  Join(SubSeq(lines, 1, n - 1)) \o SubSeq(lines[n], 1, PromptAt(lines[n]) - 1)

(* What expect returns for a match in the n-th of the new lines: the last  *)
(* two parts are put together without a line end between them.             *)
Output(data, start, lines, n) ==
  SubSeq(data, 1, start) \o Join(SubSeq(lines, 1, n - 1))
    \o SubSeq(lines[n], 1, PromptAt(lines[n]) - 1)

(* One round of expect: recv, _process_data, _match_lines.                 *)
Receive(n) ==
  LET raw   == received \o SubSeq(text, arrived + 1, arrived + n)
      data  == SubSeq(raw, 1, lineStart)
                 \o FixupCarriageReturns(SubSeq(raw, lineStart + 1, Len(raw)))
      lines == SplitLines(SubSeq(data, lineStart + 1, Len(data)))
      hit   == Least({k \in DOMAIN lines : PromptAt(lines[k]) # 0})
  IN  /\ result = "reading"
      /\ arrived + n <= Len(text)
      /\ arrived' = arrived + n
      /\ received' = data
      /\ IF hit # 0
         THEN /\ result' = "matched"
              /\ output' = Output(data, lineStart, lines, hit)
              /\ UNCHANGED lineStart
         ELSE /\ lineStart' = NextLineStart(data)
              /\ UNCHANGED <<result, output>>
      /\ UNCHANGED text

(* The appliance falls silent, or closes the channel, without a prompt.    *)
GiveUp ==
  /\ result = "reading" /\ arrived = Len(text)
  /\ result' \in {"CmdlineTimeout", "ConnectionError"}
  /\ UNCHANGED <<text, arrived, received, lineStart, output>>

Init == /\ text \in Texts
        /\ arrived = 0 /\ received = <<>> /\ lineStart = 0
        /\ result = "reading" /\ output = <<>>

Next == (\E n \in 1 .. MaxLength : Receive(n)) \/ GiveUp

Spec == Init /\ [][Next]_vars

-----------------------------------------------------------------------------
Consumed   == SubSeq(text, 1, arrived)
Visible(s) == Filter(s, {i \in DOMAIN s : s[i] \notin {CR, LF}})
Before     == SubSeq(text, 1, PromptAt(text) - 1)

TypeOK == /\ text \in Texts /\ arrived \in 0 .. Len(text)
          /\ received \in Texts /\ lineStart \in 0 .. Len(received)
          /\ result \in {"reading", "matched", "CmdlineTimeout", "ConnectionError"}
          /\ output \in Texts

(* expect() returns with the chunk that completes the prompt, wherever the *)
(* chunks were cut, and never without a prompt.                            *)
MatchesAsPromptArrives == (result = "matched") <=> (PromptAt(Consumed) # 0)

(* Every character before the prompt that ends no line is in the output,   *)
(* once and in order.                                                      *)
NothingLost == result = "matched" => Visible(output) = Visible(Before)

(* What an appliance that ends its lines with "\r\n" printed before a      *)
(* prompt at the start of a line is returned line by line as it was sent,  *)
(* wherever the chunks were cut, but for blank lines before the prompt.    *)
WellFormed ==
  /\ \A i \in DOMAIN Before : /\ Before[i] = CR => At(Before, i + 1, {LF})
                              /\ Before[i] = LF => At(Before, i - 1, {CR})
  /\ Before = <<>> \/ Before[Len(Before)] = LF

Trimmed(lines) == SubSeq(lines, 1, Greatest({k \in DOMAIN lines : lines[k] # <<>>}))

ChunksInvisible ==
  result = "matched" /\ WellFormed
    => Trimmed(SplitLines(output)) = Trimmed(SplitLines(Before))
=============================================================================
