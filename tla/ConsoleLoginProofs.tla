-------------------------- MODULE ConsoleLoginProofs --------------------------
(***************************************************************************)
(* The safety properties of ConsoleLogin, for every MaxUnread.             *)
(*                                                                         *)
(* The dialogue skips what it does not look for, so prompts come late and  *)
(* several keys may be unread.  What makes the properties inductive is     *)
(* what can be unread at each expect(), on a console that had read all of  *)
(* what earlier calls of start() sent when this one began, and that nobody *)
(* and nothing disturbed since: `Dialogue'.                                *)
(***************************************************************************)
EXTENDS ConsoleLogin, SequenceTheorems, TLAPS

(* A user name is the last key sent and finds a login prompt; a password   *)
(* is the only one and finds the question for it.                          *)
KeysFit ==
  \A i \in DOMAIN keys :
    /\ keys[i] = "user" => i = Len(keys) /\ mode = "login"
    /\ keys[i] = "pass" => Len(keys) = 1 /\ mode = "password"

(* _check_console_mode: one key, and the one prompt it brings up.          *)
Shows(text) == /\ text # "lastlogin"
               /\ text = "login" => mode = "login"
               /\ text \in {"root", "cli"} => mode = "shell"

CheckFits ==
  pc = "check" => \/ keys = <<"empty">> /\ rx = <<>>
                  \/ keys = <<>> /\ Len(rx) <= 1 /\ \A i \in DOMAIN rx : Shows(rx[i])

(* Getting back to a login prompt: once there, the console stays there.    *)
ReloginFits ==
  pc \in {"relogin", "retry"} =>
    /\ \A i \in DOMAIN keys : keys[i] \in {"empty", "eof"}
    /\ \A i \in DOMAIN rx : rx[i] # "lastlogin"
    /\ \A i \in DOMAIN rx : rx[i] = "login" =>
         mode = "login" /\ \A j \in i .. Len(rx) : rx[j] = "login"

(* Until the user name is read there is nothing but login prompts, and the *)
(* question for the password is the last thing printed.                    *)
UsernameFits ==
  pc = "username" =>
    /\ keys # <<>> => /\ keys[Len(keys)] = "user"
                      /\ \A i \in DOMAIN rx : rx[i] = "login"
    /\ keys = <<>> => \A i \in DOMAIN rx :
         /\ rx[i] = "password" => i = Len(rx) /\ mode = "password"
         /\ rx[i] = "root" => mode = "shell"

(* Nothing is unread when the password is sent.                            *)
PasswordFits ==
  pc = "password" =>
    /\ keys # <<>> => keys = <<"pass">> /\ rx = <<>>
    /\ keys = <<>> => \A i \in DOMAIN rx : rx[i] \in {"root", "cli"} => mode = "shell"

Dialogue ==
  ~stale /\ ~disturbed =>
    KeysFit /\ CheckFits /\ ReloginFits /\ UsernameFits /\ PasswordFits

(* The first start() does not take the console for logged in.              *)
FirstStart == Waiting /\ ~again => ~loggedIn

IInv == TypeOK /\ Dialogue /\ FirstStart

-----------------------------------------------------------------------------
(* Sequences.                                                              *)

(* What was read is gone, the rest moves up.                               *)
LEMMA TailFacts ==
  ASSUME NEW S, NEW q \in Seq(S), q # <<>>
  PROVE  /\ Head(q) \in S /\ Head(q) = q[1] /\ 1 \in DOMAIN q
         /\ Len(q) \in Nat /\ Len(q) >= 1
         /\ Tail(q) \in Seq(S) /\ Len(Tail(q)) = Len(q) - 1
         /\ \A i \in DOMAIN Tail(q) : i + 1 \in DOMAIN q /\ Tail(q)[i] = q[i + 1]
  OBVIOUS

(* What is sent comes last.                                                *)
LEMMA AppendFacts ==
  ASSUME NEW S, NEW q \in Seq(S), NEW x \in S
  PROVE  /\ Append(q, x) \in Seq(S) /\ Len(Append(q, x)) = Len(q) + 1
         /\ Append(q, x) # <<>> /\ Append(q, x)[Len(q) + 1] = x
         /\ \A i \in DOMAIN Append(q, x) :
              \/ i = Len(q) + 1
              \/ i \in DOMAIN q /\ Append(q, x)[i] = q[i]
<1>1. /\ Append(q, x) \in Seq(S) /\ Len(Append(q, x)) = Len(q) + 1
      /\ Append(q, x) # <<>> /\ Append(q, x)[Len(q) + 1] = x
      /\ \A i \in 1 .. Len(q) : Append(q, x)[i] = q[i]
  BY AppendProperties
<1>2. Len(q) \in Nat /\ DOMAIN q = 1 .. Len(q)
  BY LenProperties
<1>3. DOMAIN Append(q, x) = 1 .. Len(q) + 1
  BY <1>1, LenProperties
<1>4. QED
  BY <1>1, <1>2, <1>3

(* What is printed comes behind what was.                                  *)
LEMMA ConcatFacts ==
  ASSUME NEW S, NEW q \in Seq(S), NEW r \in Seq(S)
  PROVE  /\ q \o r \in Seq(S) /\ Len(q \o r) = Len(q) + Len(r)
         /\ \A i \in DOMAIN (q \o r) :
              \/ i \in DOMAIN q /\ (q \o r)[i] = q[i]
              \/ /\ i > Len(q) /\ i - Len(q) \in DOMAIN r
                 /\ (q \o r)[i] = r[i - Len(q)]
  OBVIOUS

-----------------------------------------------------------------------------
(* The console.                                                            *)

(* What a line or a ^D brings up, but for an empty password that is taken: *)
(* at most one text, which says where the console now is.                  *)
LEMMA ProbeAnswers ==
  ASSUME TypeOK, NEW key \in {"empty", "eof"}, NEW a \in Answers(key),
         ~EmptyPassword(key, a.mode)
  PROVE  /\ a.mode \in Modes
         /\ mode = "login" => a.mode = "login" /\ a.texts = <<"login">>
         /\ \/ a.texts = <<>>
            \/ \E t \in Texts \ {"lastlogin"} :
                 /\ a.texts = <<t>>
                 /\ t = "login" => a.mode = "login"
                 /\ t \in {"root", "cli"} => a.mode = "shell"
<1> USE DEF To, LoginAgain, ShellStarts
<1>1. CASE mode = "login"
  BY <1>1, SMT DEF Answers, AtLogin, Modes, Texts
<1>2. CASE mode = "password"
  BY <1>2, SMT DEF Answers, AtPassword, EmptyPassword, Modes, Texts
<1>3. CASE mode = "shell"
  BY <1>3, SMT DEF Answers, AtShell, Modes, Texts, TypeOK
<1>4. CASE mode = "program"
  BY <1>4, SMT DEF Answers, InProgram, Modes, Texts, TypeOK
<1>5. QED
  BY <1>1, <1>2, <1>3, <1>4 DEF TypeOK, Modes

(* A user name at a login prompt is asked for the password, or let in.     *)
LEMMA UserAnswers ==
  ASSUME TypeOK, mode = "login", NEW a \in Answers("user")
  PROVE  \/ a.mode = "password" /\ a.texts = <<"password">>
         \/ a.mode = "shell" /\ a.texts \in {<<shell>>, <<"lastlogin", shell>>}
BY SMT DEF Answers, AtLogin, To, ShellStarts

(* A password is right or wrong.                                           *)
LEMMA PassAnswers ==
  ASSUME TypeOK, mode = "password", NEW a \in Answers("pass")
  PROVE  \/ a.mode = "login" /\ a.texts = <<"login">>
         \/ a.mode = "shell" /\ a.texts \in {<<shell>>, <<"lastlogin", shell>>}
BY SMT DEF Answers, AtPassword, To, ShellStarts, LoginAgain

(* Whatever is read, the console ends in a mode, and prints texts.         *)
LEMMA AnswersTyped ==
  ASSUME TypeOK, NEW key \in Keys, NEW a \in Answers(key)
  PROVE  a.mode \in Modes /\ a.texts \in Seq(Texts)
<1> DEFINE T == {<<>>, <<"text">>, <<"login">>, <<"password">>, <<shell>>,
                 <<"lastlogin", shell>>}
<1>1. T \subseteq Seq(Texts)
  BY DEF TypeOK, Texts
<1>2. a.mode \in Modes /\ a.texts \in T
  <2> USE DEF To, LoginAgain, ShellStarts
  <2>1. CASE mode = "login"
    BY <2>1, SMT DEF Answers, AtLogin, Modes, Keys
  <2>2. CASE mode = "password"
    BY <2>2, SMT DEF Answers, AtPassword, Modes, Keys
  <2>3. CASE mode = "shell"
    BY <2>3, SMT DEF Answers, AtShell, Modes, Keys
  <2>4. CASE mode = "program"
    BY <2>4, SMT DEF Answers, InProgram, Modes, Keys
  <2>5. QED
    BY <2>1, <2>2, <2>3, <2>4 DEF TypeOK, Modes
<1>3. QED
  BY <1>1, <1>2

-----------------------------------------------------------------------------
(* Types.                                                                  *)

(* What send() and the next expect() do.                                   *)
LEMMA AskGives ==
  ASSUME TypeOK, NEW key \in Keys, NEW wait \in Waits, Ask(key, wait)
  PROVE  /\ keys' \in Seq(Keys) /\ armed' \in BOOLEAN /\ (pc' # "idle" => armed')
         /\ pc' \in Waits \cup {"idle"} /\ exc' \in Excs
         /\ \/ pc' = wait /\ keys' = Append(keys, key)
            \/ pc' = "idle" /\ keys' = keys /\ exc' # "none"
<1>1. Append(keys, key) \in Seq(Keys)
  BY AppendFacts DEF TypeOK
<1>2. QED
  BY <1>1 DEF Ask, TypeOK, Waits, Excs

(* Every key, prompt and exception is of its kind, and expect() sets the   *)
(* alarm.                                                                  *)
LEMMA TypeStep == TypeOK /\ [Next]_vars => TypeOK'
<1> SUFFICES ASSUME TypeOK, [Next]_vars PROVE TypeOK'
  OBVIOUS
<1>1. CASE StartFails
  BY <1>1 DEF StartFails, TypeOK, Excs, console, Waiting
<1>2. CASE Start
  <2>1. Append(keys, "empty") \in Seq(Keys) /\ <<>> \in Seq(Texts)
    BY AppendFacts DEF Keys, TypeOK
  <2>2. QED
    BY <1>2, <2>1 DEF Start, TypeOK, Waits, Excs, Waiting
<1>3. CASE ExpectMatch
  <2>1. Tail(rx) \in Seq(Texts)
    BY <1>3, TailFacts DEF ExpectMatch, TypeOK
  <2>2. /\ pc' \in Waits \cup {"idle"} /\ exc' \in Excs /\ keys' \in Seq(Keys)
        /\ armed' \in BOOLEAN /\ loggedIn' \in BOOLEAN /\ (pc' # "idle" => armed')
    <3>1. "user" \in Keys /\ "pass" \in Keys /\ "eof" \in Keys
          /\ {"username", "relogin", "password"} \subseteq Waits
      BY DEF Keys, Waits
    <3>2. CASE LoggedIn
      <4>1. loggedIn' \in BOOLEAN
        BY <1>3 DEF ExpectMatch, AfterCheck, AfterLoginPrompt, AfterUsername,
             AfterPassword, TypeOK
      <4>2. QED
        BY <3>2, <4>1 DEF LoggedIn, TypeOK
    <3>3. CASE Ask("user", "username") \/ Ask("eof", "relogin") \/ Ask("pass", "password")
      <4>1. loggedIn' \in BOOLEAN
        BY <1>3 DEF ExpectMatch, AfterCheck, AfterLoginPrompt, AfterUsername,
             AfterPassword, TypeOK
      <4>2. QED
        BY <3>1, <3>3, <4>1, AskGives
    <3>4. QED
      BY <1>3, <3>2, <3>3 DEF ExpectMatch, AfterCheck, AfterLoginPrompt,
        AfterUsername, AfterPassword
  <2>3. QED
    BY <1>3, <2>1, <2>2 DEF ExpectMatch, TypeOK, console, Waiting
<1>4. CASE ExpectMore
  BY <1>4, TailFacts DEF ExpectMore, TypeOK, client, console, Waiting
<1>5. CASE Timeout
  <2>1. rx' \in Seq(Texts)
    BY <1>5, TailFacts DEF Timeout, TypeOK
  <2>2. /\ pc' \in Waits \cup {"idle"} /\ exc' \in Excs /\ keys' \in Seq(Keys)
        /\ armed' \in BOOLEAN /\ (pc' # "idle" => armed')
    <3>1. CASE Ask("eof", "retry")
      BY <3>1, AskGives DEF Keys, Waits
    <3>2. QED
      BY <1>5, <3>1 DEF Timeout, TypeOK, Excs
  <2>3. QED
    BY <1>5, <2>1, <2>2 DEF Timeout, TypeOK, console, Waiting
<1>6. CASE RecvFails
  BY <1>6 DEF RecvFails, TypeOK, Excs, console, Waiting
<1>7. CASE StrayAlarm
  BY <1>7 DEF StrayAlarm, TypeOK, Excs, console, Waiting
<1>8. CASE ReadKey
  <2>1. Tail(keys) \in Seq(Keys) /\ Head(keys) \in Keys
    BY <1>8, TailFacts DEF ReadKey, TypeOK
  <2>2. PICK a \in Answers(Head(keys)) :
          /\ mode' = a.mode /\ rx' = Shown(a.texts)
          /\ disturbed' = (disturbed \/ EmptyPassword(Head(keys), a.mode))
    BY <1>8 DEF ReadKey
  <2>3. mode' \in Modes /\ a.texts \in Seq(Texts)
    BY <2>1, <2>2, AnswersTyped
  <2>4. rx' \in Seq(Texts)
    BY <2>2, <2>3 DEF TypeOK, Shown
  <2>5. disturbed' \in BOOLEAN
    BY <2>2 DEF TypeOK, EmptyPassword
  <2>6. QED
    BY <1>8, <2>1, <2>3, <2>4, <2>5 DEF ReadKey, TypeOK, client, Waiting
<1>9. CASE ByItself
  <2>1. PICK a \in LoginAgain \cup {To("shell", <<shell>>), To("password", <<"password">>),
                                    To("program", <<"text">>)} :
          mode' = a.mode /\ rx' = Shown(a.texts)
    BY <1>9 DEF ByItself
  <2>2. a.mode \in Modes
    BY <2>1 DEF To, LoginAgain, Modes
  <2>3. a.texts \in {<<"login">>, <<shell>>, <<"password">>, <<"text">>}
    BY <2>1 DEF To, LoginAgain
  <2>4. a.texts \in Seq(Texts)
    <3>1. {"login", "password", "text", shell} \subseteq Texts
      BY DEF Texts, TypeOK
    <3>2. <<"login">> \in Seq(Texts) /\ <<shell>> \in Seq(Texts)
          /\ <<"password">> \in Seq(Texts) /\ <<"text">> \in Seq(Texts)
      BY <3>1
    <3>3. QED
      BY <2>3, <3>2
  <2>5. rx' \in Seq(Texts)
    BY <2>1, <2>4 DEF TypeOK, Shown
  <2>6. QED
    BY <1>9, <2>1, <2>2, <2>5 DEF ByItself, TypeOK, client, Waiting
<1>10. CASE EndOfStream
  BY <1>10 DEF EndOfStream, TypeOK, client, console, Waiting
<1>11. CASE UNCHANGED vars
  BY <1>11 DEF vars, client, console, TypeOK, Waiting
<1>12. QED
  BY <1>1, <1>2, <1>3, <1>4, <1>5, <1>6, <1>7, <1>8, <1>9, <1>10, <1>11
     DEF Next, Expect, Console

-----------------------------------------------------------------------------
(* The dialogue.                                                           *)

(* A call that is over leaves no expect() to speak of.                     *)
LEMMA OverKeeps ==
  ASSUME Dialogue, pc' = "idle", keys' = keys, UNCHANGED console
  PROVE  Dialogue'
<1>1. KeysFit => KeysFit'
  BY DEF KeysFit, console
<1>2. QED
  BY <1>1 DEF Dialogue, CheckFits, ReloginFits, UsernameFits, PasswordFits, console

(* A prompt that was found: what is sent on it finds the console where the *)
(* prompt says, because no key is unread that could have moved it since.   *)
LEMMA MatchKeeps ==
  ASSUME TypeOK, Dialogue, ExpectMatch
  PROVE  Dialogue'
<1>1. /\ Waiting /\ rx # <<>> /\ Head(rx) = rx[1] /\ 1 \in DOMAIN rx /\ Head(rx) \in Patterns(pc)
      /\ rx' = Tail(rx) /\ Len(rx') = Len(rx) - 1 /\ Len(rx) \in Nat /\ Len(rx) >= 1
      /\ \A i \in DOMAIN rx' : i + 1 \in DOMAIN rx /\ rx'[i] = rx[i + 1]
      /\ UNCHANGED console
  BY TailFacts DEF ExpectMatch, TypeOK
<1>2. CASE pc' = "idle"
  <2>1. keys' = keys
    BY <1>1, <1>2 DEF ExpectMatch, AfterCheck, AfterLoginPrompt, AfterUsername,
      AfterPassword, LoggedIn, Ask, Waiting
  <2>2. QED
    BY <1>1, <1>2, <2>1, OverKeeps
<1> SUFFICES ASSUME pc' # "idle", ~stale, ~disturbed PROVE Dialogue'
  BY <1>1, <1>2 DEF Dialogue, console
<1>3. KeysFit /\ CheckFits /\ ReloginFits /\ UsernameFits /\ PasswordFits
  BY DEF Dialogue
<1>4. CASE pc = "check" /\ rx[1] \in LOGIN_PROMPT
  <2>1. keys = <<>> /\ rx[1] = "login" /\ mode = "login" /\ Len(rx) = 1
    BY <1>1, <1>3, <1>4 DEF CheckFits, Shows, LOGIN_PROMPT
  <2>2. keys' = <<"user">> /\ pc' = "username"
    BY <1>1, <1>4, <2>1 DEF ExpectMatch, AfterCheck, AfterLoginPrompt, AfterUsername,
      AfterPassword, LoggedIn, Ask, LOGIN_PROMPT, PASSWORD_PROMPT
  <2>3. DOMAIN rx' = {}
    BY <1>1, <2>1
  <2>4. KeysFit' /\ UsernameFits'
    BY <1>1, <2>1, <2>2, <2>3 DEF KeysFit, UsernameFits, console
  <2>5. QED
    BY <2>2, <2>4 DEF Dialogue, CheckFits, ReloginFits, PasswordFits
<1>5. CASE pc = "check" /\ rx[1] \notin LOGIN_PROMPT
  <2>1. keys = <<>> /\ Len(rx) = 1
    BY <1>1, <1>3, <1>5 DEF CheckFits
  <2>2. keys' = <<"eof">> /\ pc' = "relogin"
    BY <1>1, <1>5, <2>1 DEF ExpectMatch, AfterCheck, AfterLoginPrompt, AfterUsername,
      AfterPassword, LoggedIn, Ask
  <2>3. DOMAIN rx' = {}
    BY <1>1, <2>1
  <2>4. KeysFit' /\ ReloginFits'
    BY <2>2, <2>3 DEF KeysFit, ReloginFits
  <2>5. QED
    BY <2>2, <2>4 DEF Dialogue, CheckFits, UsernameFits, PasswordFits
<1>6. CASE pc \in {"relogin", "retry"}
  <2>1. /\ rx[1] = "login" /\ mode = "login"
        /\ \A j \in 1 .. Len(rx) : rx[j] = "login"
        /\ \A i \in DOMAIN keys : keys[i] \in {"empty", "eof"}
    BY <1>1, <1>3, <1>6 DEF ReloginFits, Patterns, LOGIN_PROMPT
  <2>2. keys' = Append(keys, "user") /\ pc' = "username"
    BY <1>1, <1>6 DEF ExpectMatch, AfterCheck, AfterLoginPrompt, AfterUsername,
      AfterPassword, Ask
  <2>3. /\ keys' # <<>> /\ Len(keys') = Len(keys) + 1 /\ keys'[Len(keys')] = "user"
        /\ \A i \in DOMAIN keys' : i = Len(keys') \/ keys'[i] \in {"empty", "eof"}
    BY <2>1, <2>2, AppendFacts DEF TypeOK, Keys
  <2>4. \A i \in DOMAIN rx' : rx'[i] = "login"
    BY <1>1, <2>1
  <2>5. KeysFit' /\ UsernameFits'
    BY <1>1, <2>1, <2>3, <2>4 DEF KeysFit, UsernameFits, console
  <2>6. QED
    BY <2>2, <2>5 DEF Dialogue, CheckFits, ReloginFits, PasswordFits
<1>7. CASE pc = "username"
  <2>1. rx[1] = "password" /\ pc' = "password" /\ keys' = Append(keys, "pass")
    BY <1>1, <1>7 DEF ExpectMatch, AfterCheck, AfterLoginPrompt, AfterUsername,
      AfterPassword, LoggedIn, Ask, PASSWORD_PROMPT
  <2>2. keys = <<>> /\ Len(rx) = 1 /\ mode = "password"
    BY <1>1, <1>3, <1>7, <2>1 DEF UsernameFits
  <2>3. keys' = <<"pass">> /\ rx' = <<>>
    BY <1>1, <2>1, <2>2, EmptySeq DEF TypeOK
  <2>4. KeysFit' /\ PasswordFits'
    BY <1>1, <2>2, <2>3 DEF KeysFit, PasswordFits, console
  <2>5. QED
    BY <2>1, <2>4 DEF Dialogue, CheckFits, ReloginFits, UsernameFits
<1>8. CASE pc = "password"
  BY <1>1, <1>8 DEF ExpectMatch, AfterCheck, AfterLoginPrompt, AfterUsername,
    AfterPassword, LoggedIn
<1>9. QED
  BY <1>1, <1>4, <1>5, <1>6, <1>7, <1>8 DEF TypeOK, Waiting, Waits

(* Leaving out what was printed first changes nothing of what is said of   *)
(* the rest.                                                               *)
LEMMA DropFirstKeeps ==
  ASSUME TypeOK, Dialogue, rx # <<>>, rx' = Tail(rx), UNCHANGED <<pc, keys, console>>
  PROVE  Dialogue'
<1>1. /\ Len(rx') = Len(rx) - 1 /\ Len(rx) \in Nat /\ Len(rx) >= 1
      /\ DOMAIN rx' = 1 .. Len(rx) - 1 /\ DOMAIN rx = 1 .. Len(rx)
      /\ \A i \in DOMAIN rx' : i + 1 \in DOMAIN rx /\ rx'[i] = rx[i + 1]
  BY TailFacts DEF TypeOK
<1> SUFFICES ASSUME ~stale, ~disturbed PROVE Dialogue'
  BY DEF Dialogue, console
<1>2. KeysFit /\ CheckFits /\ ReloginFits /\ UsernameFits /\ PasswordFits
  BY DEF Dialogue
<1>3. KeysFit'
  BY <1>2 DEF KeysFit, console
<1>4. CheckFits'
  BY <1>1, <1>2 DEF CheckFits, Shows, console
<1>5. ReloginFits'
  <2> SUFFICES ASSUME pc \in {"relogin", "retry"} PROVE ReloginFits'
    BY DEF ReloginFits
  <2>1. \A i \in DOMAIN rx' : rx'[i] # "lastlogin"
    BY <1>1, <1>2 DEF ReloginFits
  <2>2. ASSUME NEW i \in DOMAIN rx', rx'[i] = "login"
        PROVE  mode' = "login" /\ \A j \in i .. Len(rx') : rx'[j] = "login"
    <3>1. i + 1 \in DOMAIN rx /\ rx[i + 1] = "login"
      BY <1>1, <2>2
    <3>2. mode = "login" /\ \A j \in i + 1 .. Len(rx) : rx[j] = "login"
      BY <1>2, <3>1 DEF ReloginFits
    <3>3. QED
      BY <1>1, <3>1, <3>2 DEF console
  <2>3. \A i \in DOMAIN keys' : keys'[i] \in {"empty", "eof"}
    BY <1>2 DEF ReloginFits
  <2>4. QED
    BY <2>1, <2>2, <2>3 DEF ReloginFits
<1>6. UsernameFits'
  BY <1>1, <1>2 DEF UsernameFits, console
<1>7. PasswordFits'
  BY <1>1, <1>2 DEF PasswordFits, console
<1>8. QED
  BY <1>3, <1>4, <1>5, <1>6, <1>7 DEF Dialogue

(* The one more attempt after the alarm: a ^D is sent and a login prompt   *)
(* awaited, whatever was read before it.                                   *)
LEMMA RetryKeeps ==
  ASSUME TypeOK, Dialogue, pc \in {"check", "relogin"}, pc' = "retry",
         keys' = Append(keys, "eof"), UNCHANGED console,
         \/ rx' = rx
         \/ rx # <<>> /\ rx' = Tail(rx)
  PROVE  Dialogue'
<1> SUFFICES ASSUME ~stale, ~disturbed PROVE Dialogue'
  BY DEF Dialogue, console
<1>1. KeysFit /\ CheckFits /\ ReloginFits
  BY DEF Dialogue
<1>2. \A i \in DOMAIN keys : keys[i] \in {"empty", "eof"}
  BY <1>1 DEF CheckFits, ReloginFits
<1>3. \A i \in DOMAIN keys' : keys'[i] \in {"empty", "eof"}
  BY <1>2, AppendFacts DEF TypeOK, Keys
<1>4. KeysFit'
  BY <1>3 DEF KeysFit
<1> DEFINE Back(q, n) ==
      /\ \A i \in 1 .. n : q[i] # "lastlogin"
      /\ \A i \in 1 .. n : q[i] = "login" =>
           mode = "login" /\ \A j \in i .. n : q[j] = "login"
<1>5. Back(rx, Len(rx)) /\ Len(rx) \in Nat
  <2>0. Len(rx) \in Nat /\ DOMAIN rx = 1 .. Len(rx)
    BY DEF TypeOK
  <2>1. CASE pc = "relogin"
    BY <1>1, <2>0, <2>1 DEF ReloginFits
  <2>2. CASE pc = "check"
    <3>1. Len(rx) <= 1
      BY <1>1, <2>2 DEF CheckFits
    <3>2. \A i \in DOMAIN rx : Shows(rx[i])
      BY <1>1, <2>2 DEF CheckFits
    <3>3. \A i \in 1 .. Len(rx) : rx[i] # "lastlogin" /\ (rx[i] = "login" => mode = "login")
      BY <2>0, <3>2 DEF Shows
    <3>4. \A i, j \in 1 .. Len(rx) : i = j
      BY <2>0, <3>1
    <3>5. QED
      BY <2>0, <3>3, <3>4
  <2>3. QED
    BY <2>1, <2>2
<1>6. ReloginFits'
  <2>1. Back(rx', Len(rx'))
    <3>1. CASE rx' = rx
      BY <1>5, <3>1
    <3>2. CASE rx # <<>> /\ rx' = Tail(rx)
      <4>1. /\ Len(rx') = Len(rx) - 1
            /\ \A i \in 1 .. Len(rx) - 1 : rx'[i] = rx[i + 1]
        BY <3>2, TailFacts DEF TypeOK
      <4>2. ASSUME NEW i \in 1 .. Len(rx'), rx'[i] = "login"
            PROVE  mode = "login" /\ \A j \in i .. Len(rx') : rx'[j] = "login"
        <5>1. i + 1 \in 1 .. Len(rx) /\ rx[i + 1] = "login"
          BY <1>5, <4>1, <4>2
        <5>2. mode = "login" /\ \A j \in i + 1 .. Len(rx) : rx[j] = "login"
          BY <1>5, <5>1
        <5>3. QED
          BY <1>5, <4>1, <5>1, <5>2
      <4>3. \A i \in 1 .. Len(rx') : rx'[i] # "lastlogin"
        BY <1>5, <4>1
      <4>4. QED
        BY <4>2, <4>3
    <3>3. QED
      BY <3>1, <3>2
  <2>2. rx' \in Seq(Texts)
    <3>1. rx \in Seq(Texts)
      BY DEF TypeOK
    <3>2. rx # <<>> => Tail(rx) \in Seq(Texts)
      BY <3>1
    <3>3. QED
      BY <3>1, <3>2
  <2>3. DOMAIN rx' = 1 .. Len(rx')
    BY <2>2
  <2>4. QED
    BY <1>3, <2>1, <2>3 DEF ReloginFits, console
<1>7. QED
  BY <1>4, <1>6 DEF Dialogue, CheckFits, UsernameFits, PasswordFits

(* What a key does to an undisturbed console.                              *)
LEMMA ReadKeyGives ==
  ASSUME TypeOK, Dialogue, ReadKey, ~stale', ~disturbed'
  PROVE  /\ ~stale /\ ~disturbed
         /\ KeysFit /\ CheckFits /\ ReloginFits /\ UsernameFits /\ PasswordFits
         /\ keys # <<>> /\ Head(keys) = keys[1] /\ Head(keys) \in Keys /\ 1 \in DOMAIN keys
         /\ keys' = Tail(keys) /\ Len(keys') = Len(keys) - 1
         /\ Len(keys) \in Nat /\ Len(keys) >= 1
         /\ DOMAIN keys = 1 .. Len(keys) /\ DOMAIN keys' = 1 .. Len(keys) - 1
         /\ \A i \in DOMAIN keys' : i + 1 \in DOMAIN keys /\ keys'[i] = keys[i + 1]
         /\ pc' = pc /\ shell' = shell
         /\ \E a \in Answers(Head(keys)) :
              /\ mode' = a.mode /\ rx' = Shown(a.texts)
              /\ ~EmptyPassword(Head(keys), a.mode)
<1>1. PICK a \in Answers(Head(keys)) :
        /\ mode' = a.mode /\ rx' = Shown(a.texts)
        /\ disturbed' = (disturbed \/ EmptyPassword(Head(keys), a.mode))
  BY DEF ReadKey
<1>2. ~stale /\ ~disturbed /\ ~EmptyPassword(Head(keys), a.mode)
  BY <1>1 DEF ReadKey
<1>3. KeysFit /\ CheckFits /\ ReloginFits /\ UsernameFits /\ PasswordFits
  BY <1>2 DEF Dialogue
<1>4. /\ keys # <<>> /\ Head(keys) = keys[1] /\ Head(keys) \in Keys /\ 1 \in DOMAIN keys
      /\ keys' = Tail(keys) /\ Len(keys') = Len(keys) - 1
      /\ Len(keys) \in Nat /\ Len(keys) >= 1
      /\ DOMAIN keys = 1 .. Len(keys) /\ DOMAIN keys' = 1 .. Len(keys) - 1
      /\ \A i \in DOMAIN keys' : i + 1 \in DOMAIN keys /\ keys'[i] = keys[i + 1]
      /\ pc' = pc /\ shell' = shell
  BY TailFacts DEF ReadKey, TypeOK, client
<1>5. QED
  BY <1>1, <1>2, <1>3, <1>4

(* A key that is read after the stream has ended, or after the call.       *)
LEMMA UnseenKeyKeeps ==
  ASSUME TypeOK, Dialogue, ReadKey, ~Waiting \/ eof
  PROVE  Dialogue'
<1> SUFFICES ASSUME ~stale', ~disturbed' PROVE Dialogue'
  BY DEF Dialogue
<1> DEFINE key == Head(keys)
<1>1. PICK a \in Answers(key) :
        mode' = a.mode /\ rx' = rx /\ ~EmptyPassword(key, a.mode)
  BY ReadKeyGives DEF Shown
<1>2. KeysFit /\ CheckFits /\ ReloginFits /\ UsernameFits /\ PasswordFits
  BY ReadKeyGives
<1>3. /\ keys # <<>> /\ key = keys[1] /\ key \in Keys /\ 1 \in DOMAIN keys
      /\ Len(keys') = Len(keys) - 1 /\ Len(keys) \in Nat /\ Len(keys) >= 1
      /\ keys' = Tail(keys)
      /\ DOMAIN keys = 1 .. Len(keys) /\ DOMAIN keys' = 1 .. Len(keys) - 1
      /\ \A i \in DOMAIN keys' : i + 1 \in DOMAIN keys /\ keys'[i] = keys[i + 1]
      /\ pc' = pc
  BY ReadKeyGives
<1>4. CASE key \in {"empty", "eof"}
  <2>1. mode = "login" => mode' = "login"
    BY <1>1, <1>4, ProbeAnswers
  <2>2. KeysFit'
    BY <1>2, <1>3, <1>4, <2>1 DEF KeysFit
  <2>3. CheckFits'
    BY <1>1, <1>2, <1>3 DEF CheckFits
  <2>4. ReloginFits'
    BY <1>1, <1>2, <1>3, <2>1 DEF ReloginFits
  <2>5. UsernameFits'
    BY <1>1, <1>2, <1>3, <1>4 DEF UsernameFits
  <2>6. PasswordFits'
    BY <1>2, <1>3, <1>4 DEF PasswordFits
  <2>7. QED
    BY <2>2, <2>3, <2>4, <2>5, <2>6 DEF Dialogue
<1>5. CASE key \in {"user", "pass"}
  <2>1. Len(keys) = 1
    BY <1>2, <1>3, <1>5 DEF KeysFit
  <2>2. keys' = <<>> /\ KeysFit'
    BY <1>3, <2>1 DEF KeysFit
  <2>3. pc \notin {"check", "relogin", "retry"}
    BY <1>2, <1>3, <1>5 DEF CheckFits, ReloginFits
  <2>4. pc = "username" => \A i \in DOMAIN rx : rx[i] = "login"
    BY <1>2, <1>3 DEF UsernameFits
  <2>5. pc = "password" => rx = <<>>
    BY <1>2, <1>3 DEF PasswordFits
  <2>6. UsernameFits' /\ PasswordFits'
    BY <1>1, <1>3, <2>2, <2>4, <2>5 DEF UsernameFits, PasswordFits
  <2>7. QED
    BY <1>3, <2>2, <2>3, <2>6 DEF Dialogue, CheckFits, ReloginFits
<1>6. QED
  BY <1>3, <1>4, <1>5 DEF Keys

(* A key that is read: what it brings up comes behind everything printed   *)
(* before, and moves the console only where nothing unread is in the way.  *)
LEMMA ReadKeyKeeps ==
  ASSUME TypeOK, Dialogue, ReadKey, Waiting, ~eof
  PROVE  Dialogue'
<1> SUFFICES ASSUME ~stale', ~disturbed' PROVE Dialogue'
  BY DEF Dialogue
<1> DEFINE key == Head(keys)
<1>1. PICK a \in Answers(key) :
        mode' = a.mode /\ rx' = rx \o a.texts /\ ~EmptyPassword(key, a.mode)
  BY ReadKeyGives DEF Shown
<1>2. ~EmptyPassword(key, a.mode)
  BY <1>1
<1>3. KeysFit /\ CheckFits /\ ReloginFits /\ UsernameFits /\ PasswordFits
  BY ReadKeyGives
<1>4. /\ keys # <<>> /\ key = keys[1] /\ key \in Keys /\ 1 \in DOMAIN keys
      /\ keys' = Tail(keys) /\ Len(keys') = Len(keys) - 1
      /\ Len(keys) \in Nat /\ Len(keys) >= 1
      /\ DOMAIN keys = 1 .. Len(keys) /\ DOMAIN keys' = 1 .. Len(keys) - 1
      /\ \A i \in DOMAIN keys' : i + 1 \in DOMAIN keys /\ keys'[i] = keys[i + 1]
      /\ pc' = pc /\ shell' = shell
  BY ReadKeyGives
<1>5. a.texts \in Seq(Texts)
  BY <1>4, AnswersTyped
<1>6. /\ Len(rx') = Len(rx) + Len(a.texts) /\ Len(rx) \in Nat /\ Len(a.texts) \in Nat
      /\ DOMAIN rx = 1 .. Len(rx) /\ DOMAIN rx' = 1 .. Len(rx')
      /\ \A i \in DOMAIN rx' :
           \/ i \in DOMAIN rx /\ rx'[i] = rx[i]
           \/ /\ i > Len(rx) /\ i - Len(rx) \in DOMAIN a.texts
              /\ rx'[i] = a.texts[i - Len(rx)]
  <2>1. rx \in Seq(Texts) /\ rx' \in Seq(Texts)
    BY <1>1, <1>5, ConcatFacts DEF TypeOK
  <2>2. \A i \in DOMAIN rx' :
          \/ i \in DOMAIN rx /\ rx'[i] = rx[i]
          \/ /\ i > Len(rx) /\ i - Len(rx) \in DOMAIN a.texts
             /\ rx'[i] = a.texts[i - Len(rx)]
    BY <1>1, <1>5, <2>1, ConcatFacts
  <2>3. Len(rx') = Len(rx) + Len(a.texts)
    BY <1>1, <1>5, <2>1, ConcatFacts
  <2>4. QED
    BY <1>5, <2>1, <2>2, <2>3
<1>7. CASE key \in {"empty", "eof"}
  <2>1. /\ mode = "login" => mode' = "login" /\ a.texts = <<"login">>
        /\ \/ a.texts = <<>>
           \/ \E t \in Texts \ {"lastlogin"} :
                /\ a.texts = <<t>>
                /\ t = "login" => mode' = "login"
                /\ t \in {"root", "cli"} => mode' = "shell"
    BY <1>1, <1>2, <1>7, ProbeAnswers
  <2>2. KeysFit'
    BY <1>3, <1>4, <1>7, <2>1 DEF KeysFit
  <2>3. CheckFits'
    <3> SUFFICES ASSUME pc = "check" PROVE CheckFits'
      BY <1>4 DEF CheckFits
    <3>1. keys = <<"empty">> /\ rx = <<>>
      BY <1>3, <1>4 DEF CheckFits
    <3>2. keys' = <<>> /\ rx' = a.texts
      BY <1>1, <1>4, <1>5, <3>1
    <3>3. CASE a.texts = <<>>
      BY <3>2, <3>3 DEF CheckFits
    <3>4. CASE a.texts # <<>>
      <4>1. PICK t \in Texts \ {"lastlogin"} :
              /\ a.texts = <<t>>
              /\ t = "login" => mode' = "login"
              /\ t \in {"root", "cli"} => mode' = "shell"
        BY <2>1, <3>4
      <4>2. Len(rx') = 1 /\ \A i \in DOMAIN rx' : rx'[i] = t
        BY <3>2, <4>1
      <4>3. QED
        BY <3>2, <4>1, <4>2 DEF CheckFits, Shows
    <3>5. QED
      BY <3>3, <3>4
  <2>4. ReloginFits'
    <3> SUFFICES ASSUME pc \in {"relogin", "retry"} PROVE ReloginFits'
      BY <1>4 DEF ReloginFits
    <3>1. \A i \in DOMAIN keys' : keys'[i] \in {"empty", "eof"}
      BY <1>3, <1>4 DEF ReloginFits
    <3>2. /\ \A i \in DOMAIN a.texts : a.texts[i] # "lastlogin" /\ i = 1
          /\ \A i \in DOMAIN a.texts : a.texts[i] = "login" => mode' = "login"
      BY <2>1
    <3>3. \A i \in DOMAIN rx' : rx'[i] # "lastlogin"
      BY <1>3, <1>6, <3>2 DEF ReloginFits
    <3>4. ASSUME NEW i \in DOMAIN rx', rx'[i] = "login"
          PROVE  mode' = "login" /\ \A j \in i .. Len(rx') : rx'[j] = "login"
      <4>1. CASE i \in DOMAIN rx
        <5>1. mode = "login" /\ \A j \in i .. Len(rx) : rx[j] = "login"
          BY <1>3, <1>6, <3>4, <4>1 DEF ReloginFits
        <5>2. mode' = "login" /\ Len(a.texts) = 1 /\ a.texts[1] = "login"
          <6>1. mode' = "login" /\ a.texts = <<"login">>
            BY <2>1, <5>1
          <6>2. QED
            BY ONLY <6>1
        <5>3. QED
          BY <1>6, <4>1, <5>1, <5>2
      <4>2. CASE i \notin DOMAIN rx
        <5>1. i > Len(rx) /\ i - Len(rx) \in DOMAIN a.texts /\ a.texts[i - Len(rx)] = "login"
          BY <1>6, <3>4, <4>2
        <5>2. mode' = "login" /\ i - Len(rx) = 1
          BY <3>2, <5>1
        <5>3. Len(a.texts) <= 1
          <6>1. CASE a.texts = <<>>
            BY <6>1
          <6>2. CASE \E t \in Texts : a.texts = <<t>>
            BY <6>2
          <6>3. QED
            BY <2>1, <6>1, <6>2
        <5>4. \A j \in i .. Len(rx') : j = i
          BY <1>6, <5>2, <5>3
        <5>5. QED
          BY <3>4, <5>2, <5>4
      <4>3. QED
        BY <4>1, <4>2
    <3>5. QED
      BY <3>1, <3>3, <3>4 DEF ReloginFits
  <2>5. UsernameFits'
    <3> SUFFICES ASSUME pc = "username" PROVE UsernameFits'
      BY <1>4 DEF UsernameFits
    <3>1. keys[Len(keys)] = "user" /\ Len(keys) > 1 /\ \A i \in DOMAIN rx : rx[i] = "login"
      BY <1>3, <1>4, <1>7 DEF UsernameFits
    <3>2. mode = "login"
      BY <1>3, <1>4, <3>1 DEF KeysFit
    <3>3. \A i \in DOMAIN rx' : rx'[i] = "login"
      BY <1>6, <2>1, <3>1, <3>2
    <3>4. keys' # <<>> /\ keys'[Len(keys')] = "user"
      BY <1>4, <3>1
    <3>5. QED
      BY <3>3, <3>4 DEF UsernameFits
  <2>6. PasswordFits'
    BY <1>3, <1>4, <1>7 DEF PasswordFits
  <2>7. QED
    BY <2>2, <2>3, <2>4, <2>5, <2>6 DEF Dialogue
<1>8. CASE key = "user"
  <2>1. Len(keys) = 1 /\ mode = "login"
    BY <1>3, <1>4, <1>8 DEF KeysFit
  <2>2. keys' = <<>> /\ KeysFit'
    BY <1>4, <2>1 DEF KeysFit
  <2>3. pc \notin {"check", "relogin", "retry", "password"}
    BY <1>3, <1>4, <1>8 DEF CheckFits, ReloginFits, PasswordFits
  <2>4. \/ mode' = "password" /\ a.texts = <<"password">>
        \/ mode' = "shell" /\ a.texts \in {<<shell>>, <<"lastlogin", shell>>}
    BY <1>1, <1>8, <2>1, UserAnswers
  <2>5. UsernameFits'
    <3> SUFFICES ASSUME pc = "username" PROVE UsernameFits'
      BY <1>4 DEF UsernameFits
    <3>1. \A i \in DOMAIN rx : rx[i] = "login"
      BY <1>3, <1>4 DEF UsernameFits
    <3>2. /\ \A i \in DOMAIN a.texts :
               a.texts[i] = "password" => mode' = "password" /\ i = Len(a.texts)
          /\ \A i \in DOMAIN a.texts : a.texts[i] = "root" => mode' = "shell"
      <4>1. CASE mode' = "password" /\ a.texts = <<"password">>
        BY <4>1
      <4>2. CASE mode' = "shell" /\ a.texts = <<shell>>
        BY <4>2 DEF TypeOK
      <4>3. CASE mode' = "shell" /\ a.texts = <<"lastlogin", shell>>
        <5>1. shell # "password"
          BY DEF TypeOK
        <5>2. a.texts[1] = "lastlogin" /\ a.texts[2] = shell /\ DOMAIN a.texts = 1 .. 2
          BY <4>3
        <5>3. QED
          BY <4>3, <5>1, <5>2
      <4>4. QED
        BY <2>4, <4>1, <4>2, <4>3
    <3>3. QED
      BY <1>6, <2>2, <3>1, <3>2 DEF UsernameFits
  <2>6. QED
    BY <1>4, <2>2, <2>3, <2>5 DEF Dialogue, CheckFits, ReloginFits, PasswordFits
<1>9. CASE key = "pass"
  <2>1. Len(keys) = 1 /\ mode = "password"
    BY <1>3, <1>4, <1>9 DEF KeysFit
  <2>2. keys' = <<>> /\ KeysFit'
    BY <1>4, <2>1 DEF KeysFit
  <2>3. pc \notin {"check", "relogin", "retry", "username"}
    BY <1>3, <1>4, <1>9, <2>1 DEF CheckFits, ReloginFits, UsernameFits
  <2>4. \/ mode' = "login" /\ a.texts = <<"login">>
        \/ mode' = "shell" /\ a.texts \in {<<shell>>, <<"lastlogin", shell>>}
    BY <1>1, <1>9, <2>1, PassAnswers
  <2>5. PasswordFits'
    <3> SUFFICES ASSUME pc = "password" PROVE PasswordFits'
      BY <1>4 DEF PasswordFits
    <3>1. rx = <<>>
      BY <1>3, <1>4 DEF PasswordFits
    <3>2. \A i \in DOMAIN a.texts : a.texts[i] \in {"root", "cli"} => mode' = "shell"
      BY <2>4 DEF TypeOK
    <3>3. QED
      BY <1>6, <2>2, <3>1, <3>2 DEF PasswordFits
  <2>6. QED
    BY <1>4, <2>2, <2>3, <2>5 DEF Dialogue, CheckFits, ReloginFits, UsernameFits
<1>10. QED
  BY <1>4, <1>7, <1>8, <1>9 DEF Keys

(* Every step keeps the dialogue.                                          *)
LEMMA DialogueStep == TypeOK /\ Dialogue /\ [Next]_vars => Dialogue'
<1> SUFFICES ASSUME TypeOK, Dialogue, [Next]_vars PROVE Dialogue'
  OBVIOUS
<1>1. CASE StartFails \/ StrayAlarm \/ RecvFails
  <2>1. UNCHANGED <<keys, rx, console>> /\ pc' \in {pc, "idle"}
    BY <1>1 DEF StartFails, StrayAlarm, RecvFails
  <2>2. CASE pc' = "idle"
    BY <2>1, <2>2, OverKeeps
  <2>3. CASE pc' = pc
    BY <2>1, <2>3 DEF Dialogue, KeysFit, CheckFits, Shows, ReloginFits, UsernameFits,
      PasswordFits, console
  <2>4. QED
    BY <2>1, <2>2, <2>3
<1>2. CASE Start
  <2> SUFFICES ASSUME ~stale' PROVE Dialogue'
    BY DEF Dialogue
  <2>1. keys' = <<"empty">> /\ rx' = <<>> /\ pc' = "check"
    <3>1. keys = <<>>
      BY <1>2 DEF Start
    <3>2. QED
      BY <1>2, <3>1 DEF Start
  <2>2. KeysFit' /\ CheckFits'
    BY <2>1 DEF KeysFit, CheckFits
  <2>3. QED
    BY <2>1, <2>2 DEF Dialogue, ReloginFits, UsernameFits, PasswordFits
<1>3. CASE ExpectMatch
  BY <1>3, MatchKeeps
<1>4. CASE ExpectMore
  BY <1>4, DropFirstKeeps DEF ExpectMore, client
<1>5. CASE Timeout
  <2>1. UNCHANGED console /\ (rx' = rx \/ (rx # <<>> /\ rx' = Tail(rx)))
    BY <1>5 DEF Timeout
  <2>2. CASE pc' = "idle"
    <3>1. keys' = keys
      BY <1>5, <2>2 DEF Timeout, Ask
    <3>2. QED
      BY <2>1, <2>2, <3>1, OverKeeps
  <2>3. CASE pc' # "idle"
    <3>1. pc \in {"check", "relogin"} /\ pc' = "retry" /\ keys' = Append(keys, "eof")
      BY <1>5, <2>3 DEF Timeout, Ask
    <3>2. QED
      BY <2>1, <3>1, RetryKeeps
  <2>4. QED
    BY <2>2, <2>3
<1>6. CASE ReadKey
  BY <1>6, ReadKeyKeeps, UnseenKeyKeeps
<1>7. CASE ByItself
  BY <1>7 DEF ByItself, Dialogue
<1>8. CASE EndOfStream
  BY <1>8 DEF EndOfStream, client, console, Dialogue, KeysFit, CheckFits, Shows,
    ReloginFits, UsernameFits, PasswordFits
<1>9. CASE UNCHANGED vars
  BY <1>9 DEF vars, client, console, Dialogue, KeysFit, CheckFits, Shows, ReloginFits,
    UsernameFits, PasswordFits
<1>10. QED
  BY <1>1, <1>2, <1>3, <1>4, <1>5, <1>6, <1>7, <1>8, <1>9 DEF Next, Expect, Console

-----------------------------------------------------------------------------
(* The first start().                                                      *)

(* _console_logged_in is set when start() returns, and the start() after   *)
(* that is not the first.                                                  *)
LEMMA FirstStartStep == TypeOK /\ FirstStart /\ [Next]_vars => FirstStart'
<1> SUFFICES ASSUME TypeOK, FirstStart, [Next]_vars, Waiting', ~again' PROVE ~loggedIn'
  BY DEF FirstStart
<1>1. CASE StartFails \/ RecvFails \/ StrayAlarm
  BY <1>1 DEF StartFails, RecvFails, StrayAlarm, FirstStart, Waiting
<1>2. CASE Start
  BY <1>2 DEF Start, TypeOK
<1>3. CASE ExpectMatch
  <2>1. Waiting /\ ~again
    BY <1>3 DEF ExpectMatch
  <2>2. QED
    BY <1>3, <2>1 DEF ExpectMatch, FirstStart, AfterCheck, AfterLoginPrompt,
      AfterUsername, AfterPassword, LoggedIn, Waiting
<1>4. CASE Timeout
  BY <1>4 DEF Timeout, FirstStart
<1>5. CASE ExpectMore \/ ReadKey \/ ByItself \/ EndOfStream \/ UNCHANGED vars
  BY <1>5 DEF ExpectMore, ReadKey, ByItself, EndOfStream, vars, client, FirstStart, Waiting
<1>6. QED
  BY <1>1, <1>2, <1>3, <1>4, <1>5 DEF Next, Expect, Console

-----------------------------------------------------------------------------
(* The theorems.                                                           *)

(* LibVirtChannel.start, from any console that has read what earlier calls *)
(* sent: at every expect() what is unread is what the dialogue and the     *)
(* console can have left there, until the console is disturbed.            *)
THEOREM Invariance == Spec => []IInv
<1>1. Init => IInv
  <2> SUFFICES ASSUME Init PROVE IInv
    OBVIOUS
  <2>1. TypeOK
    <3>1. <<>> \in Seq(Keys) /\ <<>> \in Seq(Texts)
      OBVIOUS
    <3>2. QED
      BY <3>1 DEF Init, TypeOK, Excs, Waiting
  <2>2. QED
    BY <2>1 DEF Init, IInv, FirstStart, Waiting, Dialogue, KeysFit, CheckFits,
      ReloginFits, UsernameFits, PasswordFits
<1>2. IInv /\ [Next]_vars => IInv'
  BY TypeStep, DialogueStep, FirstStartStep DEF IInv
<1>3. QED
  BY <1>1, <1>2, PTL DEF Spec

(* Every variable keeps its kind of value, and no expect() of the dialogue *)
(* waits without its alarm.                                                *)
THEOREM TypeCorrect == Spec => []TypeOK
<1>1. IInv => TypeOK
  BY DEF IInv
<1>2. QED
  BY <1>1, Invariance, PTL

(* What start() takes for a shell prompt was printed by a shell that is    *)
(* still there.                                                            *)
LEMMA ReturnsInShell ==
  IInv /\ [Next]_vars => (Returns /\ ~again /\ ~stale /\ ~disturbed => mode = "shell")
<1> SUFFICES ASSUME IInv, [Next]_vars, Returns, ~again, ~stale, ~disturbed PROVE mode = "shell"
  OBVIOUS
<1>1. Waiting /\ pc' = "idle" /\ exc' = "none" /\ ~loggedIn /\ TypeOK
  BY DEF IInv, FirstStart, Returns
<1>2. CheckFits /\ UsernameFits /\ PasswordFits /\ KeysFit
  BY DEF IInv, Dialogue
<1>3. ExpectMatch
  BY <1>1 DEF Next, Expect, Console, vars, client, StartFails, Start, ExpectMore, Timeout,
    Ask, RecvFails, StrayAlarm, ReadKey, ByItself, EndOfStream, Waiting
<1>4. /\ Head(rx) = rx[1] /\ 1 \in DOMAIN rx /\ rx # <<>> /\ Head(rx) \in Patterns(pc)
      /\ res \in {{"root"}, {"cli"}}
  BY <1>1, <1>3, TailFacts DEF ExpectMatch, TypeOK
<1>5. CASE pc = "check"
  <2>1. rx[1] \in {"root", "cli"}
    BY <1>1, <1>3, <1>4, <1>5 DEF ExpectMatch, AfterCheck, AfterLoginPrompt,
      AfterUsername, AfterPassword, Ask
  <2>2. QED
    BY <1>2, <1>4, <1>5, <2>1 DEF CheckFits, Shows
<1>6. CASE pc \in {"relogin", "retry"}
  BY <1>1, <1>3, <1>6 DEF ExpectMatch, AfterCheck, AfterLoginPrompt, AfterUsername,
    AfterPassword, Ask
<1>7. CASE pc = "username"
  <2>1. rx[1] = "root"
    BY <1>1, <1>3, <1>4, <1>7 DEF ExpectMatch, AfterCheck, AfterLoginPrompt,
      AfterUsername, AfterPassword, Ask, ROOT_PROMPT
  <2>2. QED
    BY <1>2, <1>4, <1>7, <2>1 DEF UsernameFits
<1>8. CASE pc = "password"
  <2>1. rx[1] \in {"root", "cli"}
    BY <1>4, <1>8 DEF Patterns
  <2>2. QED
    BY <1>2, <1>4, <1>8, <2>1 DEF PasswordFits
<1>9. QED
  BY <1>1, <1>5, <1>6, <1>7, <1>8 DEF TypeOK, Waiting, Waits

(* From wherever the console was, the first start() of a channel that      *)
(* returns has left it in a shell, unless the console still had keys of an *)
(* earlier start() to read when it began, or was disturbed meanwhile.      *)
THEOREM LogsIn == Spec => LoggedInOnReturn
<1>1. IInv /\ [Next]_vars => [Returns /\ ~again /\ ~stale /\ ~disturbed => mode = "shell"]_vars
  BY ReturnsInShell
<1>2. QED
  BY <1>1, Invariance, PTL DEF Spec, LoggedInOnReturn

(* However many prompts the dialogue skipped and however late they came,   *)
(* the password is read by nothing but what asks for it, in every start()  *)
(* that began when the console had read what earlier ones sent.            *)
THEOREM PasswordIsAskedFor == Spec => PasswordAnswersPrompt
<1> DEFINE Read == ReadsPassword /\ ~stale /\ ~disturbed
<1>1. IInv => (Read => mode = "password")
  <2> SUFFICES ASSUME IInv, Read PROVE mode = "password"
    OBVIOUS
  <2>1. keys[1] = "pass" /\ 1 \in DOMAIN keys
    BY TailFacts DEF IInv, TypeOK, ReadsPassword
  <2>2. QED
    BY <2>1 DEF IInv, Dialogue, KeysFit
<1>2. IInv /\ [Next]_vars => [Read => mode = "password"]_vars
  BY <1>1
<1>3. QED
  BY <1>2, Invariance, PTL DEF Spec, PasswordAnswersPrompt
=============================================================================
