----------------------------- MODULE CliService -----------------------------
(***************************************************************************)
(* What a CLI class promises its user, without prompts, replies or         *)
(* buffers: enter_mode and exec_command as they are documented.            *)
(*                                                                         *)
(* A user makes one call at a time.  The appliance stands at some place    *)
(* (a mode, and an interface where there is one), and leaves it only on    *)
(* behalf of a call.  enter_mode ends at the place asked for; exec_command *)
(* has its command run at the place asked for, once, or a second time      *)
(* after the class replaced the session.  A call may always fail.  The     *)
(* promise holds while the session can be trusted: connected, and no       *)
(* answer was given up on it.  A call that asks for no place in particular *)
(* sends its command to the appliance as it stands: that it was run is     *)
(* promised if the appliance stood at an empty prompt.                     *)
(***************************************************************************)
EXTENDS Naturals

CONSTANTS
  Places,    \* where an appliance can be
  MayRetry   \* the class replaces a failed session and repeats the command

VARIABLES
  phase,     \* "busy" during a call, then how it ended: "ok" or "failed"
  call,      \* the call: its kind, the places it may end or run at,
             \* whether it goes to one or begins at an empty prompt, how
             \* often its command ran, whether the command was repeated
  at,        \* where the appliance is
  clear,     \* it is at an empty prompt: what it is sent next is a command
  trusted    \* the session is connected and in step

here == <<at, clear>>
vars == <<phase, call, here, trusted>>

Call(kind, goal) ==
  [kind |-> kind, goal |-> goal, ready |-> goal # Places \/ clear,
   runs |-> 0, retried |-> FALSE]

Init == /\ phase = "ok" /\ ~trusted /\ at \in Places /\ clear \in BOOLEAN
        /\ call = Call("other", Places)

(* The appliance goes anywhere, and may be left at a prompt that is not    *)
(* empty.                                                                  *)
Anywhere == at' \in Places /\ clear' \in BOOLEAN

(* Trust is lost at any time, and with it all knowledge of where the       *)
(* appliance is.                                                           *)
KeepOrLose == \/ UNCHANGED <<here, trusted>>
              \/ ~trusted' /\ Anywhere

Invoke == /\ phase # "busy" /\ phase' = "busy"
          /\ \/ \E goal \in {{p} : p \in Places} \cup {Places},
                   kind \in {"enter", "exec"} : call' = Call(kind, goal)
             \/ call' = Call("other", Places)
          /\ UNCHANGED <<here, trusted>>

(* close(), and settings that take no exchange with the appliance.         *)
Manage == /\ phase # "busy" /\ phase' = "ok"
          /\ call' = Call("other", Places)
          /\ KeepOrLose

Open == /\ phase = "busy" /\ ~trusted
        /\ trusted' /\ Anywhere
        /\ UNCHANGED <<phase, call>>

Move == /\ phase = "busy" /\ Anywhere
        /\ UNCHANGED <<phase, call, trusted>>

Run == /\ phase = "busy" /\ call.kind = "exec"
       /\ call.runs <= IF call.retried THEN 1 ELSE 0
       /\ trusted /\ ~call.retried => at \in call.goal
       /\ call' = [call EXCEPT !.runs = @ + 1]
       /\ Anywhere
       /\ UNCHANGED <<phase, trusted>>

Retry == /\ MayRetry /\ phase = "busy" /\ call.kind = "exec" /\ ~call.retried
         /\ call' = [call EXCEPT !.retried = TRUE]
         /\ ~trusted' /\ Anywhere
         /\ UNCHANGED phase

Kept == CASE call.kind = "enter" -> at \in call.goal
          [] call.kind = "exec"  -> call.ready => call.runs >= 1
          [] OTHER               -> TRUE

Return == /\ phase = "busy" /\ phase' \in {"ok", "failed"}
          /\ KeepOrLose
          /\ phase' = "ok" /\ trusted' => Kept
          /\ UNCHANGED call

Lose == ~trusted' /\ Anywhere /\ UNCHANGED <<phase, call>>

Next == Invoke \/ Manage \/ Open \/ Move \/ Run \/ Retry \/ Return \/ Lose

Spec == Init /\ [][Next]_vars
=============================================================================
