-------------------------- MODULE CliSessionProofs --------------------------
(***************************************************************************)
(* What the proofs about the CLI classes share: how the exchanges of a     *)
(* CliSession, the appliance's answers and the steps in between keep a     *)
(* session well-formed and in step, whatever the class's instructions      *)
(* (`ops') and lines (`lines') are.                                        *)
(***************************************************************************)
EXTENDS CliSession, SequenceTheorems, TLAPS

(* Instructions that may stand anywhere in the stack.                      *)
Inner(ops, lines) ==
  {x \in Frame(ops, lines) : x.op \notin {"open", "wait"}}

(* An instruction that opens a session or waits for a reply is always the  *)
(* one being executed.                                                     *)
StackShape(ops, lines) ==
  todo # <<>> => /\ Tail(todo) \in Seq(Inner(ops, lines))
                 /\ frame.op = "wait" => frame.out \in Outs

(* Lines are on their way only over an open connection.                    *)
SentWhileOpen == link # "open" => inq = <<>>

SessionInv(ops, lines) ==
  BaseTypeOK(ops, lines) /\ StackShape(ops, lines) /\ SentWhileOpen

(* What every class's instructions and lines include.                      *)
Vocabulary(ops, lines) == "" \in lines /\ {"open", "wait", "send"} \subseteq ops

(* An answer an appliance can give.                                        *)
Effect == [prompt : Prompts, out : Outs]

(* Programs annotated with assertions: N[x] is what holds before the       *)
(* instruction x, L[x] what holds after it, B what holds at the end.  What *)
(* an instruction leaves is what the next one needs.                       *)
Flow(N, L, prog, B) ==
  \A j \in DOMAIN prog :
    L[prog[j]] \subseteq IF j = Len(prog) THEN B ELSE N[prog[j + 1]]

(* What holds before a program.                                            *)
Entry(N, prog, B) == IF prog = <<>> THEN B ELSE N[prog[1]]

-----------------------------------------------------------------------------
(* Instructions and programs.                                              *)

(* Inner instructions are instructions, one by one and in sequence.        *)
LEMMA InnerIsFrame ==
  ASSUME NEW ops, NEW lines
  PROVE  /\ Inner(ops, lines) \subseteq Frame(ops, lines)
         /\ Seq(Inner(ops, lines)) \subseteq Seq(Frame(ops, lines))
<1>1. Inner(ops, lines) \subseteq Frame(ops, lines)
  BY DEF Inner
<1> QED BY <1>1, SeqMonotonic

(* An instruction without operands, if it neither opens nor waits.         *)
LEMMA DoInner ==
  ASSUME NEW ops, NEW lines, Vocabulary(ops, lines),
         NEW op \in ops, op \notin {"open", "wait"}
  PROVE  Do(op) \in Inner(ops, lines)
  BY DEF Vocabulary, Do, Inner, Frame, Prompts, Outs

(* Sending a line is an inner instruction.                                 *)
LEMMA SendInner ==
  ASSUME NEW ops, NEW lines, Vocabulary(ops, lines),
         NEW line \in lines, NEW pats \in SUBSET Prompts
  PROVE  Send(line, pats) \in Inner(ops, lines)
  BY DEF Vocabulary, Send, Do, Inner, Frame, Prompts, Outs

(* Waiting and opening are instructions, though not inner ones.            *)
LEMMA WaitOpenFrame ==
  ASSUME NEW ops, NEW lines, Vocabulary(ops, lines),
         NEW pats \in SUBSET Prompts
  PROVE  Wait(pats) \in Frame(ops, lines) /\ Open(pats) \in Frame(ops, lines)
  BY DEF Vocabulary, Wait, Open, Do, Frame, Prompts, Outs

(* Short programs are sequences of what they are made of.                  *)
LEMMA One ==
  ASSUME NEW S, NEW a \in S
  PROVE  <<a>> \in Seq(S)
  OBVIOUS

(* As One, for two instructions.                                           *)
LEMMA Two ==
  ASSUME NEW S, NEW a \in S, NEW b \in S
  PROVE  <<a, b>> \in Seq(S)
  OBVIOUS

(* What is known of the head of the stack and of what is below it.         *)
LEMMA HeadTyped ==
  ASSUME NEW ops, NEW lines, SessionInv(ops, lines), todo # <<>>
  PROVE  /\ frame \in Frame(ops, lines)
         /\ frame.pats \in SUBSET Prompts /\ frame.line \in lines
         /\ Tail(todo) \in Seq(Inner(ops, lines))
         /\ Tail(todo) \in Seq(Frame(ops, lines))
<1>1. frame \in Frame(ops, lines) /\ Tail(todo) \in Seq(Inner(ops, lines))
  BY HeadTailProperties DEF SessionInv, BaseTypeOK, StackShape, frame
<1>2. frame.pats \in SUBSET Prompts /\ frame.line \in lines
  BY <1>1 DEF Frame
<1> QED BY <1>1, <1>2, InnerIsFrame

(* A stack of inner instructions has the right shape, and neither waits nor *)
(* opens.                                                                  *)
LEMMA InnerShape ==
  ASSUME NEW ops, NEW lines, todo' \in Seq(Inner(ops, lines))
  PROVE  /\ todo' \in Seq(Frame(ops, lines)) /\ StackShape(ops, lines)' /\ ~Waiting'
         /\ todo' # <<>> => frame'.op # "open"
<1>1. todo' \in Seq(Frame(ops, lines))
  BY InnerIsFrame
<1>2. ASSUME todo' # <<>>
      PROVE  Head(todo') \in Inner(ops, lines) /\ Tail(todo') \in Seq(Inner(ops, lines))
  BY <1>2, HeadTailProperties
<1> QED BY <1>1, <1>2 DEF StackShape, Waiting, Running, Inner, frame

(* Calling a method: its program takes the place of the instruction.       *)
LEMMA BecomeInner ==
  ASSUME NEW ops, NEW lines, SessionInv(ops, lines), todo # <<>>,
         NEW prog \in Seq(Inner(ops, lines)), Become(prog)
  PROVE  todo' \in Seq(Inner(ops, lines))
  BY HeadTyped, ConcatProperties DEF Become

(* Raising an exception and unwinding take the instruction away.           *)
LEMMA RaiseInner ==
  ASSUME NEW ops, NEW lines, SessionInv(ops, lines), todo # <<>>,
         todo' = Tail(todo)
  PROVE  todo' \in Seq(Inner(ops, lines))
  BY HeadTyped

(* A send or an open turns into a wait, a wait into a wait with more output. *)
LEMMA BecomeWait ==
  ASSUME NEW ops, NEW lines, SessionInv(ops, lines), todo # <<>>,
         NEW w \in Frame(ops, lines), w.op = "wait", w.out \in Outs,
         Become(<<w>>)
  PROVE  /\ todo' \in Seq(Frame(ops, lines)) /\ StackShape(ops, lines)'
         /\ todo' # <<>> /\ frame' = w /\ Tail(todo') = Tail(todo)
         /\ exc' = "none" => Waiting'
<1>1. /\ todo' \in Seq(Frame(ops, lines)) /\ todo' # <<>>
      /\ Head(todo') = w /\ Tail(todo') = Tail(todo)
  BY HeadTyped DEF Become
<1> QED BY <1>1, HeadTyped DEF StackShape, frame, Waiting, Running

(* Marking replies as not due changes neither their number nor their type. *)
LEMMA NotDueProperties ==
  ASSUME NEW lines, NEW q
  PROVE  /\ q \in Seq(Reply) => /\ NotDue(q) \in Seq(Reply)
                                /\ Len(NotDue(q)) = Len(q)
         /\ q \in Seq(Line(lines)) => /\ NotDue(q) \in Seq(Line(lines))
                                      /\ Len(NotDue(q)) = Len(q)
                                      /\ \A i \in DOMAIN NotDue(q) : ~NotDue(q)[i].due
<1>1. ASSUME q \in Seq(Reply)
      PROVE  NotDue(q) \in Seq(Reply) /\ Len(NotDue(q)) = Len(q)
  <2>1. DOMAIN q = 1 .. Len(q) /\ Len(q) \in Nat
    BY <1>1
  <2>2. ASSUME NEW i \in 1 .. Len(q)
        PROVE  [q[i] EXCEPT !.due = FALSE] \in Reply
    <3>1. q[i] \in Reply
      BY <1>1, ElementOfSeq
    <3> QED BY <3>1 DEF Reply
  <2>3. NotDue(q) \in [1 .. Len(q) -> Reply]
    BY <2>1, <2>2 DEF NotDue
  <2> QED BY <2>1, <2>3, SeqDef
<1>2. ASSUME q \in Seq(Line(lines))
      PROVE  /\ NotDue(q) \in Seq(Line(lines)) /\ Len(NotDue(q)) = Len(q)
             /\ \A i \in DOMAIN NotDue(q) : ~NotDue(q)[i].due
  <2>1. DOMAIN q = 1 .. Len(q) /\ Len(q) \in Nat
    BY <1>2
  <2>2. ASSUME NEW i \in 1 .. Len(q)
        PROVE  /\ [q[i] EXCEPT !.due = FALSE] \in Line(lines)
               /\ [q[i] EXCEPT !.due = FALSE].due = FALSE
    <3>1. q[i] \in Line(lines)
      BY <1>2, ElementOfSeq
    <3> QED BY <3>1 DEF Line
  <2>3. NotDue(q) \in [1 .. Len(q) -> Line(lines)]
    BY <2>1, <2>2 DEF NotDue
  <2>4. \A i \in DOMAIN NotDue(q) : ~NotDue(q)[i].due
    BY <2>1, <2>2 DEF NotDue
  <2> QED BY <2>1, <2>3, <2>4, SeqDef
<1> QED BY <1>1, <1>2

(* The user's view of a call, with one more run of its command.            *)
LEMMA RunCounted ==
  ASSUME NEW k, NEW g, NEW n, NEW m, NEW r, NEW d, NEW request, NEW next,
         n \in Nat, m = n + 1,
         request = [kind |-> k, goal |-> g, runs |-> n, retried |-> r, ready |-> d],
         next = [kind |-> k, goal |-> g, runs |-> m, retried |-> r, ready |-> d]
  PROVE  next = [request EXCEPT !.runs = request.runs + 1]
<1>1. request \in [kind : {k}, goal : {g}, runs : Nat, retried : {r}, ready : {d}]
  OBVIOUS
<1>2. [request EXCEPT !.runs = request.runs + 1]
        = [kind |-> k, goal |-> g, runs |-> m, retried |-> r, ready |-> d]
  BY <1>1
<1> QED BY <1>2

-----------------------------------------------------------------------------
(* Steps that keep the session well-formed.                                *)

(* A step of the thread that leaves the session alone.                     *)
LEMMA LocalKeepsSession ==
  ASSUME NEW ops, NEW lines, SessionInv(ops, lines), UNCHANGED wire,
         todo' \in Seq(Inner(ops, lines)),
         exc' \in Excs \cup {"none"}, got' \in Reply
  PROVE  SessionInv(ops, lines)' /\ ~Waiting'
<1>1. /\ todo' \in Seq(Frame(ops, lines)) /\ StackShape(ops, lines)' /\ ~Waiting'
  BY InnerShape
<1>2. BaseTypeOK(ops, lines)'
  BY <1>1 DEF SessionInv, BaseTypeOK, wire
<1> QED BY <1>1, <1>2 DEF SessionInv, SentWhileOpen, wire

(* Closing the session.                                                    *)
LEMMA CleanupKeepsSession ==
  ASSUME NEW ops, NEW lines, SessionInv(ops, lines), CleanupHelper,
         todo' \in Seq(Frame(ops, lines)), StackShape(ops, lines)',
         exc' \in Excs \cup {"none"}, got' \in Reply
  PROVE  SessionInv(ops, lines)'
<1>1. /\ link' \in Links /\ dev' \in Prompts /\ typed' \in BOOLEAN
      /\ lost' \in BOOLEAN
      /\ inq' = <<>> /\ rx' = <<>>
  BY DEF SessionInv, BaseTypeOK, CleanupHelper, Links, Prompts
<1>2. BaseTypeOK(ops, lines)'
  BY <1>1 DEF BaseTypeOK
<1> QED BY <1>1, <1>2 DEF SessionInv, SentWhileOpen

(* A start() that fails.                                                   *)
LEMMA OpenFailsKeeps ==
  ASSUME NEW ops, NEW lines, SessionInv(ops, lines), OpenFails
  PROVE  /\ SessionInv(ops, lines)' /\ ~Waiting' /\ exc' # "none"
         /\ link' \in {"fresh", "half"} /\ exc = "none" /\ frame.op = "open"
         /\ todo # <<>> /\ todo' = Tail(todo)
<1>1. /\ todo # <<>> /\ BaseTypeOK(ops, lines)
      /\ exc = "none" /\ frame.op = "open"
  BY DEF OpenFails, Running, SessionInv, StackShape
<1>2. PICK e \in Excs : Raise(e)
  BY DEF OpenFails, TcpTestFails, ConnectFails, OpenSessionFails, Excs
<1>3. /\ todo' \in Seq(Frame(ops, lines)) /\ StackShape(ops, lines)' /\ ~Waiting'
  BY <1>1, <1>2, RaiseInner, InnerShape DEF Raise
<1>4. /\ link' \in {"fresh", "half"} /\ dev' = "shell" /\ typed' = FALSE
      /\ inq' = <<>> /\ rx' = <<>> /\ lost' = FALSE /\ got' = got
  BY <1>1 DEF OpenFails, TcpTestFails, ConnectFails, OpenSessionFails, BaseTypeOK
<1>5. inq' \in Seq(Line(lines)) /\ rx' \in Seq(Reply)
  BY <1>4
<1>6. /\ link' \in Links /\ dev' \in Prompts /\ lost' \in BOOLEAN
      /\ typed' \in BOOLEAN /\ got' \in Reply
  BY <1>1, <1>4 DEF Links, Prompts, BaseTypeOK
<1>7. exc' \in Excs /\ exc' # "none" /\ todo' = Tail(todo)
  BY <1>2 DEF Raise, Excs
<1>8. BaseTypeOK(ops, lines)'
  BY <1>3, <1>5, <1>6, <1>7 DEF BaseTypeOK
<1> QED BY <1>1, <1>3, <1>4, <1>7, <1>8 DEF SessionInv, SentWhileOpen

(* A start() that gets as far as waiting for the first prompt.             *)
LEMMA OpenSucceedsKeeps ==
  ASSUME NEW ops, NEW lines, Vocabulary(ops, lines),
         NEW prompts \in SUBSET Prompts,
         SessionInv(ops, lines), OpenSucceeds(prompts)
  PROVE  /\ SessionInv(ops, lines)' /\ ConversationInStep' /\ Waiting'
         /\ link' = "open" /\ dev' \in prompts /\ typed' = FALSE
         /\ exc = "none" /\ exc' = "none"
         /\ inq' = <<>> /\ rx' # <<>> /\ rx'[1].prompt = dev'
         /\ todo # <<>> /\ todo' # <<>> /\ Tail(todo') = Tail(todo)
         /\ frame.op = "open" /\ frame' = Wait(frame.pats)
<1>1. /\ todo # <<>> /\ BaseTypeOK(ops, lines)
      /\ exc = "none" /\ frame.op = "open"
  BY DEF OpenSucceeds, Running, SessionInv, StackShape
<1>2. /\ Wait(frame.pats) \in Frame(ops, lines) /\ Wait(frame.pats).op = "wait"
      /\ Wait(frame.pats).out \in Outs
  BY <1>1, HeadTyped, WaitOpenFrame DEF Wait, Do, Outs
<1>3. /\ exc' = "none"
      /\ link' = "open" /\ dev' \in prompts /\ typed' = FALSE
      /\ inq' = <<>> /\ lost' = FALSE /\ got' = got
      /\ rx' = <<[prompt |-> dev', out |-> "none", due |-> TRUE]>>
      /\ Become(<<Wait(frame.pats)>>)
  BY <1>1 DEF OpenSucceeds, BaseTypeOK
<1>4. /\ todo' \in Seq(Frame(ops, lines)) /\ StackShape(ops, lines)'
      /\ todo' # <<>> /\ frame' = Wait(frame.pats) /\ Tail(todo') = Tail(todo)
      /\ Waiting'
  BY <1>1, <1>2, <1>3, BecomeWait
<1>5. [prompt |-> dev', out |-> "none", due |-> TRUE] \in Reply
  BY <1>3 DEF Reply, Outs
<1>6. /\ inq' \in Seq(Line(lines)) /\ rx' \in Seq(Reply)
      /\ Len(inq') = 0 /\ Len(rx') = 1 /\ rx' # <<>> /\ rx'[1].prompt = dev'
      /\ DOMAIN inq' = {} /\ \A i \in DOMAIN rx' : rx'[i].due
  <2>1. /\ inq' = <<>>
        /\ rx' = <<[prompt |-> dev', out |-> "none", due |-> TRUE]>>
    BY <1>3
  <2> QED BY <2>1, <1>5
<1>7. BaseTypeOK(ops, lines)'
  BY <1>1, <1>3, <1>4, <1>6 DEF BaseTypeOK, Links
<1>8. ConversationInStep'
  BY <1>4, <1>6 DEF ConversationInStep, Backlog
<1> QED BY <1>1, <1>3, <1>4, <1>6, <1>7, <1>8 DEF SessionInv, SentWhileOpen

(* A send that finds no connection.                                        *)
LEMMA SendFailsKeeps ==
  ASSUME NEW ops, NEW lines, SessionInv(ops, lines), SendFails
  PROVE  /\ SessionInv(ops, lines)' /\ ~Waiting /\ ~Waiting' /\ exc' # "none"
         /\ UNCHANGED <<wire, got>>
         /\ todo # <<>> /\ todo' = Tail(todo)
<1>1. todo # <<>> /\ frame.op = "send" /\ UNCHANGED <<wire, got>>
  BY DEF SendFails, Running
<1>2. PICK e \in Excs : Raise(e)
  BY DEF SendFails, Excs
<1>3. /\ exc' \in Excs /\ exc' # "none" /\ todo' = Tail(todo) /\ got' \in Reply
  BY <1>1, <1>2 DEF Raise, Excs, SessionInv, BaseTypeOK
<1> QED BY <1>1, <1>3, RaiseInner, LocalKeepsSession DEF Waiting, Running

(* A send that is on its way.                                              *)
LEMMA SendSucceedsKeeps ==
  ASSUME NEW ops, NEW lines, Vocabulary(ops, lines),
         SessionInv(ops, lines), SendSucceeds
  PROVE  /\ SessionInv(ops, lines)' /\ ~Waiting /\ Waiting'
         /\ ConversationInStep => ConversationInStep'
         /\ inq' = Append(inq, [line |-> frame.line, due |-> TRUE])
         /\ UNCHANGED <<link, dev, typed, rx, exc, got, lost>>
         /\ link = "open" /\ exc = "none"
         /\ todo # <<>> /\ todo' # <<>> /\ Tail(todo') = Tail(todo)
         /\ frame.op = "send" /\ frame' = Wait(frame.pats)
<1> DEFINE sent == [line |-> frame.line, due |-> TRUE]
<1>1. /\ todo # <<>> /\ exc = "none" /\ frame.op = "send" /\ link = "open"
      /\ inq' = Append(inq, sent) /\ Become(<<Wait(frame.pats)>>)
      /\ UNCHANGED <<link, dev, typed, rx, exc, got, lost>>
      /\ BaseTypeOK(ops, lines)
  BY DEF SendSucceeds, Running, SessionInv
<1>2. /\ Wait(frame.pats) \in Frame(ops, lines) /\ Wait(frame.pats).op = "wait"
      /\ Wait(frame.pats).out \in Outs
  BY <1>1, HeadTyped, WaitOpenFrame DEF Wait, Do, Outs
<1>3. /\ todo' \in Seq(Frame(ops, lines)) /\ StackShape(ops, lines)'
      /\ todo' # <<>> /\ frame' = Wait(frame.pats) /\ Tail(todo') = Tail(todo)
      /\ ~Waiting /\ Waiting'
  BY <1>1, <1>2, BecomeWait DEF Waiting, Running
<1>4. sent \in Line(lines) /\ sent.due
  BY <1>1, HeadTyped DEF Line
<1>5. inq \in Seq(Line(lines)) /\ rx \in Seq(Reply)
  BY <1>1 DEF BaseTypeOK
<1> HIDE DEF sent
<1>6. /\ inq' \in Seq(Line(lines)) /\ Len(inq') = Len(inq) + 1
      /\ Len(inq) \in Nat /\ Len(rx) \in Nat
      /\ \A i \in DOMAIN inq' : inq'[i] = sent \/ (i \in DOMAIN inq /\ inq'[i] = inq[i])
  <2>1. inq' = Append(inq, sent)
    BY <1>1
  <2> QED BY <2>1, <1>4, <1>5
<1>7. BaseTypeOK(ops, lines)'
  BY <1>1, <1>3, <1>6 DEF BaseTypeOK
<1>8. ConversationInStep => ConversationInStep'
  <2>1. link = "open" /\ UNCHANGED <<link, lost, rx>> /\ ~Waiting /\ Waiting'
    BY <1>1, <1>3
  <2> QED BY <2>1, <1>4, <1>6 DEF ConversationInStep, Backlog
<1> QED BY <1>1, <1>3, <1>7, <1>8 DEF SessionInv, SentWhileOpen, sent

(* A reply matched: on a session in step there was no other.               *)
LEMMA ExpectMatchKeeps ==
  ASSUME NEW ops, NEW lines, SessionInv(ops, lines), ExpectMatch
  PROVE  /\ SessionInv(ops, lines)' /\ Waiting /\ ~Waiting'
         /\ ConversationInStep => ConversationInStep'
         /\ ConversationInStep /\ link = "open" /\ ~lost =>
              inq = <<>> /\ inq' = <<>> /\ rx' = <<>>
         /\ \A i \in DOMAIN inq' : ~inq'[i].due
         /\ UNCHANGED <<link, dev, typed, exc, lost>>
         /\ rx # <<>> /\ got'.prompt = rx[1].prompt /\ rx[1].prompt \in frame.pats
         /\ exc = "none" /\ todo # <<>> /\ todo' = Tail(todo)
<1>1. /\ todo # <<>> /\ exc = "none" /\ frame.op = "wait" /\ Waiting
      /\ rx # <<>> /\ Head(rx).prompt \in frame.pats /\ Become(<<>>)
      /\ inq' = NotDue(inq)
      /\ UNCHANGED <<link, dev, typed, exc, lost>>
      /\ BaseTypeOK(ops, lines) /\ frame.out \in Outs
  BY DEF ExpectMatch, Running, Waiting, SessionInv, StackShape
<1>2. PICK n \in 1 .. Len(rx) : rx' = NotDue(SubSeq(rx, n + 1, Len(rx)))
  BY DEF ExpectMatch
<1>3. /\ inq \in Seq(Line(lines)) /\ rx \in Seq(Reply)
      /\ Len(inq) \in Nat /\ Len(rx) \in Nat /\ Head(rx) = rx[1] /\ Head(rx) \in Reply
  BY <1>1 DEF BaseTypeOK
<1>4. /\ SubSeq(rx, n + 1, Len(rx)) \in Seq(Reply)
      /\ Len(SubSeq(rx, n + 1, Len(rx))) = Len(rx) - n
  BY <1>3
<1>5. /\ rx' \in Seq(Reply) /\ Len(rx') = Len(rx) - n
      /\ inq' \in Seq(Line(lines)) /\ Len(inq') = Len(inq)
      /\ \A i \in DOMAIN inq' : ~inq'[i].due
  BY <1>1, <1>2, <1>3, <1>4, NotDueProperties
<1>6. todo' = Tail(todo)
  BY <1>1, HeadTyped, ConcatEmptySeq DEF Become
<1>7. /\ todo' \in Seq(Frame(ops, lines)) /\ StackShape(ops, lines)' /\ ~Waiting'
  BY <1>1, <1>6, RaiseInner, InnerShape
<1>8. got' \in Reply /\ got'.prompt = rx[1].prompt
  <2>1. got' = [Head(rx) EXCEPT !.out = IF frame.out = "none" THEN Head(rx).out
                                        ELSE frame.out]
    BY DEF ExpectMatch
  <2> QED BY <1>1, <1>3, <2>1 DEF Reply
<1>9. BaseTypeOK(ops, lines)'
  BY <1>1, <1>5, <1>7, <1>8 DEF BaseTypeOK
<1>10. ASSUME ConversationInStep, link = "open", ~lost
       PROVE  inq = <<>> /\ inq' = <<>> /\ rx' = <<>>
  <2>1. Len(inq) = 0 /\ Len(inq') = 0 /\ Len(rx') = 0
    BY <1>1, <1>3, <1>5, <1>10 DEF ConversationInStep, Backlog
  <2> QED BY <2>1, <1>3, <1>5, EmptySeq
<1>11. ConversationInStep => ConversationInStep'
  BY <1>1, <1>10 DEF ConversationInStep, Backlog
<1>12. SentWhileOpen'
  <2>1. inq = <<>> => inq' = <<>>
    BY <1>3, <1>5, EmptySeq
  <2> QED BY <1>1, <2>1 DEF SessionInv, SentWhileOpen
<1> QED BY <1>1, <1>3, <1>5, <1>6, <1>7, <1>8, <1>9, <1>10, <1>11, <1>12
        DEF SessionInv

(* A reply passed over: its prompt is not one of those waited for.         *)
LEMMA ExpectMoreKeeps ==
  ASSUME NEW ops, NEW lines, SessionInv(ops, lines), ExpectMore
  PROVE  /\ SessionInv(ops, lines)' /\ Waiting /\ Waiting'
         /\ ConversationInStep => ConversationInStep'
         /\ ConversationInStep /\ link = "open" /\ ~lost => inq' = <<>> /\ rx' = <<>>
         /\ UNCHANGED <<link, dev, typed, inq, exc, got, lost>>
         /\ exc = "none" /\ todo # <<>> /\ todo' # <<>> /\ Tail(todo') = Tail(todo)
         /\ rx # <<>> /\ rx[1].prompt \notin frame.pats /\ rx' = Tail(rx)
         /\ frame' = [frame EXCEPT !.out = frame'.out]
<1> DEFINE more == IF Head(rx).out = "none" THEN "text" ELSE Head(rx).out
           w    == [frame EXCEPT !.out = IF frame.out = "none" THEN more
                                         ELSE frame.out]
<1>1. /\ todo # <<>> /\ exc = "none" /\ frame.op = "wait" /\ Waiting
      /\ rx # <<>> /\ Head(rx).prompt \notin frame.pats /\ Become(<<w>>)
      /\ rx' = Tail(rx)
      /\ UNCHANGED <<link, dev, typed, inq, exc, got, lost>>
      /\ BaseTypeOK(ops, lines) /\ frame.out \in Outs
  BY DEF ExpectMore, Running, Waiting, SessionInv, StackShape
<1>2. /\ inq \in Seq(Line(lines)) /\ rx \in Seq(Reply)
      /\ Len(inq) \in Nat /\ Len(rx) \in Nat /\ Head(rx) = rx[1] /\ Head(rx) \in Reply
  BY <1>1 DEF BaseTypeOK
<1>3. more \in Outs
  BY <1>2 DEF Reply, Outs
<1>4. w \in Frame(ops, lines) /\ w.op = "wait" /\ w.out \in Outs
      /\ w = [frame EXCEPT !.out = w.out]
  BY <1>1, <1>3, HeadTyped DEF Frame
<1> HIDE DEF w
<1>5. /\ todo' \in Seq(Frame(ops, lines)) /\ StackShape(ops, lines)'
      /\ todo' # <<>> /\ frame' = w /\ Tail(todo') = Tail(todo) /\ Waiting'
  BY <1>1, <1>4, BecomeWait
<1>6. /\ rx' \in Seq(Reply) /\ Len(rx') = Len(rx) - 1
      /\ \A i \in DOMAIN rx' : i + 1 \in DOMAIN rx /\ rx'[i] = rx[i + 1]
  <2>1. rx' = Tail(rx) /\ rx # <<>>
    BY <1>1
  <2> QED BY <2>1, <1>2
<1>7. BaseTypeOK(ops, lines)'
  BY <1>1, <1>5, <1>6 DEF BaseTypeOK
<1>8. ASSUME ConversationInStep, link = "open", ~lost
      PROVE  inq' = <<>> /\ rx' = <<>>
  <2>1. Waiting /\ inq' = inq
    BY <1>1
  <2>2. Len(inq) = 0 /\ Len(rx') = 0
    <3>1. Len(rx) >= 1
      BY <1>2, <1>1, EmptySeq
    <3> QED BY <2>1, <3>1, <1>2, <1>6, <1>8 DEF ConversationInStep, Backlog
  <2> QED BY <2>1, <2>2, <1>2, <1>6, EmptySeq
<1>9. ConversationInStep => ConversationInStep'
  BY <1>1, <1>5, <1>8 DEF ConversationInStep, Backlog
<1>10. SentWhileOpen'
  BY <1>1 DEF SessionInv, SentWhileOpen
<1> QED BY <1>1, <1>2, <1>4, <1>5, <1>7, <1>8, <1>9, <1>10 DEF SessionInv

(* The connection was closed by the peer.                                  *)
LEMMA ExpectClosedKeeps ==
  ASSUME NEW ops, NEW lines, SessionInv(ops, lines), ExpectClosed
  PROVE  /\ SessionInv(ops, lines)' /\ Waiting /\ ~Waiting' /\ exc' # "none"
         /\ UNCHANGED <<wire, got>> /\ link = "dead" /\ inq = <<>>
         /\ exc = "none" /\ todo # <<>> /\ todo' = Tail(todo)
<1>1. /\ todo # <<>> /\ exc = "none" /\ Waiting /\ UNCHANGED <<wire, got>>
      /\ link = "dead" /\ todo' = Tail(todo) /\ exc' = "ConnectionError"
  BY DEF ExpectClosed, Running, Waiting, Raise
<1>2. got' \in Reply /\ exc' \in Excs
  BY <1>1 DEF Excs, SessionInv, BaseTypeOK
<1> QED BY <1>1, <1>2, RaiseInner, LocalKeepsSession DEF SessionInv, SentWhileOpen

(* A wait given up: from then on the session is not in step.               *)
LEMMA ExpectTimeoutKeeps ==
  ASSUME NEW ops, NEW lines, SessionInv(ops, lines), ExpectTimeout
  PROVE  /\ SessionInv(ops, lines)' /\ ConversationInStep'
         /\ Waiting /\ ~Waiting' /\ exc' # "none" /\ lost'
         /\ UNCHANGED <<link, dev, typed, got>>
         /\ \A i \in DOMAIN inq' : ~inq'[i].due
         /\ exc = "none" /\ todo # <<>> /\ todo' = Tail(todo)
<1>1. /\ todo # <<>> /\ exc = "none" /\ Waiting /\ lost' = TRUE
      /\ inq' = NotDue(inq) /\ rx' = NotDue(rx)
      /\ UNCHANGED <<link, dev, typed, got>>
      /\ todo' = Tail(todo) /\ exc' = "CmdlineTimeout"
      /\ BaseTypeOK(ops, lines)
  BY DEF ExpectTimeout, Running, Waiting, Raise, SessionInv
<1>2. inq \in Seq(Line(lines)) /\ rx \in Seq(Reply)
  BY <1>1 DEF BaseTypeOK
<1>3. /\ inq' \in Seq(Line(lines)) /\ rx' \in Seq(Reply) /\ Len(inq') = Len(inq)
      /\ \A i \in DOMAIN inq' : ~inq'[i].due
  BY <1>1, <1>2, NotDueProperties
<1>4. todo' \in Seq(Frame(ops, lines)) /\ StackShape(ops, lines)' /\ ~Waiting'
  BY <1>1, RaiseInner, InnerShape
<1>5. BaseTypeOK(ops, lines)'
  BY <1>1, <1>3, <1>4 DEF BaseTypeOK, Excs
<1>6. SentWhileOpen'
  <2>1. inq = <<>> => inq' = <<>>
    BY <1>2, <1>3, EmptySeq
  <2> QED BY <1>1, <2>1 DEF SessionInv, SentWhileOpen
<1>7. ConversationInStep'
  BY <1>1 DEF ConversationInStep
<1> QED BY <1>1, <1>3, <1>4, <1>5, <1>6, <1>7 DEF SessionInv

-----------------------------------------------------------------------------
(* The appliance and the network.                                          *)

(* What a line may do, from the parts the appliances are described with.   *)
LEMMA EffectParts ==
  ASSUME NEW mode \in Prompts
  PROVE  /\ Stay(mode) \subseteq Effect /\ Refuse(mode) \subseteq Effect
         /\ Show(mode) \subseteq Effect /\ Unknown(mode) \in Effect
<1>1. \A o \in Outs : To(mode, o) \in Effect
  BY DEF To, Effect
<1>2. Unknown(mode) \in Effect
  BY DEF Unknown, Outs, Effect
<1> QED BY <1>1, <1>2 DEF Stay, Refuse, Show, Outs, Effect

(* An answer: one line leaves the queue, one reply with the same mark joins. *)
LEMMA AnswerKeeps ==
  ASSUME NEW ops, NEW lines, SessionInv(ops, lines),
         NEW effects \in SUBSET Effect, DeviceAnswers(effects)
  PROVE  /\ SessionInv(ops, lines)' /\ (Waiting' <=> Waiting)
         /\ ConversationInStep => ConversationInStep'
         /\ ConversationInStep /\ ~lost =>
              Waiting /\ inq[1].due /\ inq' = <<>> /\ rx = <<>>
                /\ rx'[1].prompt = dev' /\ Len(rx') = 1
         /\ UNCHANGED <<link, todo, exc, got, lost>>
         /\ link = "open" /\ inq # <<>> /\ inq' = Tail(inq) /\ Head(inq) = inq[1]
         /\ inq[1] \in Line(lines)
<1> DEFINE eff == IF typed THEN {Unknown(dev)} ELSE effects
<1>1. /\ link = "open" /\ inq # <<>> /\ inq' = Tail(inq) /\ typed' = FALSE
      /\ UNCHANGED <<link, todo, exc, got, lost>>
      /\ BaseTypeOK(ops, lines) /\ ConversationInStep \in BOOLEAN
      /\ StackShape(ops, lines)
  BY DEF DeviceAnswers, SessionInv, ConversationInStep
<1>2. eff \subseteq Effect
  BY <1>1, EffectParts DEF BaseTypeOK
<1>3. PICK e \in eff :
        /\ dev' = e.prompt
        /\ rx' = Append(rx, [prompt |-> e.prompt, out |-> e.out,
                             due |-> Head(inq).due])
  BY DEF DeviceAnswers
<1>4. e.prompt \in Prompts /\ e.out \in Outs
  BY <1>2 DEF Effect
<1> DEFINE r == [prompt |-> e.prompt, out |-> e.out, due |-> Head(inq).due]
<1>5. /\ inq \in Seq(Line(lines)) /\ rx \in Seq(Reply)
      /\ Len(inq) \in Nat /\ Len(rx) \in Nat
  BY <1>1 DEF BaseTypeOK
<1>6. Head(inq) \in Line(lines) /\ Head(inq) = inq[1] /\ 1 \in DOMAIN inq
  BY <1>1, <1>5
<1>7. r \in Reply /\ r.due = inq[1].due /\ r.prompt = dev'
  BY <1>3, <1>4, <1>6 DEF Line, Reply
<1>8. rx' = Append(rx, r) /\ inq' = Tail(inq) /\ inq # <<>>
  BY <1>1, <1>3
<1> HIDE DEF r
<1>9. /\ inq' \in Seq(Line(lines)) /\ Len(inq') = Len(inq) - 1
      /\ \A i \in DOMAIN inq' : i + 1 \in DOMAIN inq /\ inq'[i] = inq[i + 1]
  BY <1>8, <1>5
<1>10. /\ rx' \in Seq(Reply) /\ Len(rx') = Len(rx) + 1
       /\ rx'[Len(rx) + 1] = r
       /\ \A i \in DOMAIN rx' : rx'[i] = r \/ (i \in DOMAIN rx /\ rx'[i] = rx[i])
  BY <1>7, <1>8, <1>5
<1>11. Waiting' <=> Waiting
  BY <1>1 DEF Waiting, Running, frame
<1>12. BaseTypeOK(ops, lines)'
  BY <1>1, <1>3, <1>4, <1>9, <1>10 DEF BaseTypeOK
<1>13. StackShape(ops, lines)'
  BY <1>1 DEF StackShape, frame
<1>14. SentWhileOpen'
  BY <1>1 DEF SentWhileOpen
<1>15. ConversationInStep => ConversationInStep'
  <2>1. UNCHANGED <<link, lost>>
    BY <1>1
  <2> QED BY <2>1, <1>5, <1>6, <1>7, <1>9, <1>10, <1>11
          DEF ConversationInStep, Backlog
<1>16. ASSUME ConversationInStep, ~lost
       PROVE  /\ Waiting /\ inq[1].due /\ inq' = <<>> /\ rx = <<>>
              /\ rx'[1].prompt = dev' /\ Len(rx') = 1
  <2>1. link = "open"
    BY <1>1
  <2>2. Waiting /\ inq[1].due /\ Len(inq') = 0 /\ Len(rx) = 0
    <3>1. Len(inq) >= 1
      BY <1>5, <1>8, EmptySeq
    <3> QED BY <2>1, <3>1, <1>5, <1>6, <1>9, <1>16 DEF ConversationInStep, Backlog
  <2>3. rx' [1] = r
    BY <2>2, <1>10
  <2> QED BY <2>2, <2>3, <1>5, <1>7, <1>9, <1>10, EmptySeq
<1> QED BY <1>1, <1>6, <1>11, <1>12, <1>13, <1>14, <1>15, <1>16 DEF SessionInv

(* The connection goes away.                                               *)
LEMMA DropKeeps ==
  ASSUME NEW ops, NEW lines, SessionInv(ops, lines), Drop
  PROVE  /\ SessionInv(ops, lines)' /\ ConversationInStep'
         /\ (Waiting' <=> Waiting)
         /\ link' = "dead" /\ inq' = <<>> /\ UNCHANGED <<todo, exc, got>>
<1>1. /\ link = "open" /\ link' = "dead" /\ dev' = "shell" /\ typed' = FALSE
      /\ inq' = <<>> /\ UNCHANGED <<todo, exc, got, lost>>
      /\ BaseTypeOK(ops, lines) /\ StackShape(ops, lines)
  BY DEF Drop, SessionInv
<1>2. /\ inq' \in Seq(Line(lines)) /\ rx' \in Seq(Reply)
      /\ dev' \in Prompts /\ link' \in Links
  <2>1. PICK n \in 0 .. Len(rx) : rx' = SubSeq(rx, 1, n)
    BY DEF Drop
  <2>2. rx' \in Seq(Reply)
    BY <1>1, <2>1, SubSeqProperties DEF BaseTypeOK
  <2> QED BY <1>1, <2>2 DEF Prompts, Links
<1>3. BaseTypeOK(ops, lines)'
  BY <1>1, <1>2 DEF BaseTypeOK
<1>4. StackShape(ops, lines)'
  BY <1>1 DEF StackShape, frame
<1> QED BY <1>1, <1>3, <1>4
        DEF SessionInv, SentWhileOpen, ConversationInStep, Waiting, Running, frame

-----------------------------------------------------------------------------
(* Annotated programs: what is proved of the parts holds of the whole.     *)

(* One program after another.                                              *)
LEMMA FlowConcat ==
  ASSUME NEW S, NEW N, NEW L, NEW B, NEW p \in Seq(S), NEW q \in Seq(S),
         Flow(N, L, p, Entry(N, q, B)), Flow(N, L, q, B)
  PROVE  /\ Flow(N, L, p \o q, B)
         /\ Entry(N, p \o q, B) = Entry(N, p, Entry(N, q, B))
<1> DEFINE r == p \o q
<1>1. /\ Len(p) \in Nat /\ Len(q) \in Nat /\ Len(r) = Len(p) + Len(q)
      /\ DOMAIN p = 1 .. Len(p) /\ DOMAIN q = 1 .. Len(q) /\ DOMAIN r = 1 .. Len(r)
      /\ \A j \in 1 .. Len(p) : r[j] = p[j]
      /\ \A j \in 1 .. Len(q) : r[Len(p) + j] = q[j]
      /\ p = <<>> <=> Len(p) = 0
      /\ q = <<>> <=> Len(q) = 0
      /\ r = <<>> <=> Len(r) = 0
  BY ConcatProperties, EmptySeq
<1> HIDE DEF r
<1>2. Entry(N, r, B) = Entry(N, p, Entry(N, q, B))
  <2>1. CASE Len(p) = 0
    <3>1. CASE Len(q) = 0
      BY <1>1, <2>1, <3>1 DEF Entry
    <3>2. CASE Len(q) # 0
      <4>1. r[1] = q[1] /\ r # <<>>
        BY <1>1, <2>1, <3>2
      <4> QED BY <1>1, <2>1, <3>2, <4>1 DEF Entry
    <3> QED BY <3>1, <3>2
  <2>2. CASE Len(p) # 0
    <3>1. r[1] = p[1] /\ r # <<>>
      BY <1>1, <2>2
    <3> QED BY <1>1, <2>2, <3>1 DEF Entry
  <2> QED BY <2>1, <2>2
<1>3. ASSUME NEW j \in DOMAIN r
      PROVE  L[r[j]] \subseteq IF j = Len(r) THEN B ELSE N[r[j + 1]]
  <2>0. /\ Len(p) \in Nat /\ Len(q) \in Nat /\ Len(r) = Len(p) + Len(q)
        /\ j \in Nat /\ 1 <= j /\ j <= Len(r)
    BY <1>1, <1>3
  <2>1. CASE j < Len(p)
    <3>1. /\ j \in DOMAIN p /\ j # Len(p) /\ r[j] = p[j] /\ r[j + 1] = p[j + 1]
          /\ j # Len(r)
      BY <1>1, <1>3, <2>1
    <3>2. L[p[j]] \subseteq N[p[j + 1]]
      BY <3>1 DEF Flow
    <3> QED BY <3>1, <3>2
  <2>2. CASE j = Len(p) /\ Len(q) = 0
    <3>1. j \in DOMAIN p /\ r[j] = p[j] /\ j = Len(r) /\ q = <<>>
      BY <1>1, <1>3, <2>2
    <3>2. L[p[j]] \subseteq B
      BY <3>1, <2>2 DEF Flow, Entry
    <3> QED BY <3>1, <3>2
  <2>3. CASE j = Len(p) /\ Len(q) # 0
    <3>1. /\ j \in DOMAIN p /\ r[j] = p[j] /\ j # Len(r) /\ q # <<>>
          /\ r[j + 1] = q[1]
      <4>1. 1 \in 1 .. Len(q) /\ r[Len(p) + 1] = q[1] /\ q # <<>>
        BY <1>1, <2>3
      <4>2. j \in 1 .. Len(p) /\ j # Len(r)
        BY <2>0, <2>3
      <4>3. r[j + 1] = r[Len(p) + 1]
        BY <2>3
      <4> QED BY <1>1, <4>1, <4>2, <4>3
    <3>2. L[p[j]] \subseteq N[q[1]]
      BY <3>1, <2>3 DEF Flow, Entry
    <3> QED BY <3>1, <3>2
  <2>4. CASE j > Len(p)
    <3> DEFINE i == j - Len(p)
    <3>1. i \in DOMAIN q /\ j = Len(p) + i /\ i \in Nat
      <4>1. /\ Len(p) \in Nat /\ Len(q) \in Nat /\ j \in 1 .. Len(p) + Len(q)
            /\ DOMAIN q = 1 .. Len(q)
        BY <1>1, <1>3
      <4> QED BY <4>1, <2>4
    <3> HIDE DEF i
    <3>2. r[j] = q[i] /\ (j = Len(r) <=> i = Len(q))
      BY <3>1, <1>1
    <3>3. ASSUME i # Len(q)
          PROVE  r[j + 1] = q[i + 1]
      <4>1. i + 1 \in 1 .. Len(q) /\ j + 1 = Len(p) + (i + 1)
        BY <3>1, <3>3, <1>1
      <4> QED BY <4>1, <1>1
    <3>4. L[q[i]] \subseteq IF i = Len(q) THEN B ELSE N[q[i + 1]]
      BY <3>1 DEF Flow
    <3> QED BY <3>2, <3>3, <3>4
  <2> QED BY <1>1, <1>3, <2>1, <2>2, <2>3, <2>4
<1> QED BY <1>2, <1>3 DEF Flow, r

(* What is left of a program once its first instruction is done.           *)
LEMMA FlowTail ==
  ASSUME NEW S, NEW N, NEW L, NEW B, NEW p \in Seq(S), p # <<>>,
         Flow(N, L, p, B), NEW x, NEW t, x = Head(p), t = Tail(p)
  PROVE  /\ Flow(N, L, t, B) /\ L[x] \subseteq Entry(N, t, B)
         /\ Entry(N, p, B) = N[x]
<1>1. /\ Len(p) \in Nat /\ Len(p) >= 1 /\ Len(t) = Len(p) - 1 /\ Len(t) \in Nat
      /\ DOMAIN p = 1 .. Len(p) /\ DOMAIN t = 1 .. Len(t)
      /\ \A j \in 1 .. Len(t) : t[j] = p[j + 1]
      /\ x = p[1]
      /\ t = <<>> <=> Len(t) = 0
  <2>1. Len(p) \in Nat /\ Len(p) >= 1 /\ DOMAIN p = 1 .. Len(p) /\ x = p[1]
    BY EmptySeq
  <2>2. /\ t \in Seq(S) /\ Len(t) = Len(p) - 1 /\ DOMAIN t = 1 .. Len(t)
        /\ \A j \in 1 .. Len(t) : t[j] = p[j + 1]
    BY <2>1
  <2>3. t = <<>> <=> Len(t) = 0
    BY <2>2, EmptySeq
  <2> QED BY <2>1, <2>2, <2>3
<1>2. ASSUME NEW j \in DOMAIN t
      PROVE  L[t[j]] \subseteq IF j = Len(t) THEN B ELSE N[t[j + 1]]
  <2>1. /\ j + 1 \in DOMAIN p /\ t[j] = p[j + 1]
        /\ (j = Len(t) <=> j + 1 = Len(p))
        /\ j # Len(t) => t[j + 1] = p[(j + 1) + 1]
    BY <1>1, <1>2
  <2>2. L[p[j + 1]] \subseteq IF j + 1 = Len(p) THEN B ELSE N[p[(j + 1) + 1]]
    BY <2>1 DEF Flow
  <2> QED BY <2>1, <2>2
<1>3. L[p[1]] \subseteq Entry(N, t, B)
  <2>1. L[p[1]] \subseteq IF 1 = Len(p) THEN B ELSE N[p[1 + 1]]
    BY <1>1 DEF Flow
  <2>2. CASE Len(t) = 0
    BY <1>1, <2>1, <2>2 DEF Entry
  <2>3. CASE Len(t) # 0
    <3>1. t # <<>> /\ t[1] = p[1 + 1] /\ 1 # Len(p)
      BY <1>1, <2>3
    <3> QED BY <2>1, <3>1 DEF Entry
  <2> QED BY <2>2, <2>3
<1> QED BY <1>1, <1>2, <1>3 DEF Flow, Entry

(* One instruction before a program.                                       *)
LEMMA FlowHead ==
  ASSUME NEW S, NEW N, NEW L, NEW B, NEW p \in Seq(S), p # <<>>,
         Flow(N, L, Tail(p), B), L[Head(p)] \subseteq Entry(N, Tail(p), B)
  PROVE  Flow(N, L, p, B)
<1> DEFINE t == Tail(p)
<1>1. /\ Len(p) \in Nat /\ Len(p) >= 1 /\ DOMAIN p = 1 .. Len(p) /\ Head(p) = p[1]
  BY EmptySeq
<1>2. /\ t \in Seq(S) /\ Len(t) = Len(p) - 1 /\ DOMAIN t = 1 .. Len(t)
      /\ \A j \in 1 .. Len(t) : t[j] = p[j + 1]
  BY <1>1
<1>3. t = <<>> <=> Len(t) = 0
  BY <1>2, EmptySeq
<1>4. Flow(N, L, t, B) /\ L[p[1]] \subseteq Entry(N, t, B)
  BY <1>1
<1> HIDE DEF t
<1>5. ASSUME NEW j \in 1 .. Len(p)
      PROVE  L[p[j]] \subseteq IF j = Len(p) THEN B ELSE N[p[j + 1]]
  <2>1. CASE j = 1 /\ Len(p) = 1
    BY <1>2, <1>3, <1>4, <2>1 DEF Entry
  <2>2. CASE j = 1 /\ Len(p) # 1
    <3>1. t # <<>> /\ t[1] = p[1 + 1]
      BY <1>1, <1>2, <1>3, <2>2
    <3> QED BY <1>4, <2>2, <3>1 DEF Entry
  <2>3. CASE j # 1
    <3> DEFINE i == j - 1
    <3>1. /\ i \in 1 .. Len(t) /\ j = i + 1 /\ i \in Nat /\ Len(t) \in Nat
          /\ (i = Len(t) <=> j = Len(p))
      BY <1>1, <1>2, <1>5, <2>3
    <3> HIDE DEF i
    <3>2. t[i] = p[j]
      BY <1>2, <3>1
    <3>3. ASSUME i # Len(t)
          PROVE  t[i + 1] = p[j + 1]
      <4>1. i + 1 \in 1 .. Len(t)
        BY <3>1, <3>3
      <4> QED BY <1>2, <3>1, <4>1
    <3>4. L[t[i]] \subseteq IF i = Len(t) THEN B ELSE N[t[i + 1]]
      BY <1>2, <1>4, <3>1 DEF Flow
    <3> QED BY <3>1, <3>2, <3>3, <3>4
  <2> QED BY <2>1, <2>2, <2>3
<1> QED BY <1>1, <1>5 DEF Flow

(* An annotated program still fits where less is asked of it.              *)
LEMMA FlowWeaken ==
  ASSUME NEW S, NEW N, NEW L, NEW B, NEW C, NEW p \in Seq(S),
         Flow(N, L, p, B), B \subseteq C
  PROVE  Flow(N, L, p, C) /\ Entry(N, p, B) \subseteq Entry(N, p, C)
  BY DEF Flow, Entry

(* The empty program.                                                      *)
LEMMA FlowNone ==
  ASSUME NEW N, NEW L, NEW B
  PROVE  Flow(N, L, <<>>, B) /\ Entry(N, <<>>, B) = B
  BY DEF Flow, Entry

(* A program of one instruction.                                           *)
LEMMA FlowOne ==
  ASSUME NEW N, NEW L, NEW B, NEW a, L[a] \subseteq B
  PROVE  Flow(N, L, <<a>>, B) /\ Entry(N, <<a>>, B) = N[a]
<1>1. DOMAIN <<a>> = {1} /\ Len(<<a>>) = 1 /\ <<a>>[1] = a /\ <<a>> # <<>>
  OBVIOUS
<1> QED BY <1>1 DEF Flow, Entry

(* A program of two instructions.                                          *)
LEMMA FlowTwo ==
  ASSUME NEW N, NEW L, NEW B, NEW a, NEW b,
         L[a] \subseteq N[b], L[b] \subseteq B
  PROVE  Flow(N, L, <<a, b>>, B) /\ Entry(N, <<a, b>>, B) = N[a]
<1> DEFINE p == <<a, b>>
<1>1. DOMAIN p = {1, 2} /\ Len(p) = 2 /\ p[1] = a /\ p[2] = b /\ p # <<>>
  OBVIOUS
<1> HIDE DEF p
<1>2. L[p[1]] \subseteq N[p[1 + 1]] /\ L[p[2]] \subseteq B
  BY <1>1
<1>3. Flow(N, L, p, B) /\ Entry(N, p, B) = N[a]
  BY <1>1, <1>2 DEF Flow, Entry
<1> QED BY <1>3 DEF p
=============================================================================
