------------------------------ MODULE Delivery ------------------------------
(***************************************************************************)
(* What SendBatch (src/notifications/notifications.cpp) promises whoever   *)
(* calls it: the lines it has selected are dealt with one at a time, each  *)
(* is put on record before its first message and once only, gets no more   *)
(* messages than there are attempts, and the answer is Ok only when        *)
(* Telegram has taken a message for every line.  A call may fail at any    *)
(* moment; what has been sent stays sent.                                  *)
(*                                                                         *)
(* Tokens, batches, statements and other components do not occur here.     *)
(* Notifications implements this.                                          *)
(***************************************************************************)
EXTENDS Naturals

CONSTANTS
    Call,       \* calls of SendBatch
    Line,       \* what one pass of the loop is about
    Tries,      \* attempts for one message
    NULL

VARIABLES
    state,      \* how far a call is
    lines,      \* the lines it has selected
    messages,   \* the messages that reached the chat, for each line on record
    current     \* the line whose message Telegram has not confirmed, or NULL

vars == <<state, lines, messages, current>>

Init ==
    /\ state = [c \in Call |-> "waiting"]
    /\ lines = [c \in Call |-> {}]
    /\ messages = [c \in Call |-> [l \in {} |-> 0]]
    /\ current = [c \in Call |-> NULL]

Begin(c) ==
    /\ state[c] = "waiting"
    /\ state' = [state EXCEPT ![c] = "sending"]
    /\ \E L \in SUBSET Line : lines' = [lines EXCEPT ![c] = L]
    /\ UNCHANGED <<messages, current>>

\* A line that is not on record yet is put there.
Record(c) ==
    /\ state[c] = "sending" /\ current[c] = NULL
    /\ \E l \in lines[c] \ DOMAIN messages[c] :
        /\ current' = [current EXCEPT ![c] = l]
        /\ messages' = [messages EXCEPT
              ![c] = [x \in DOMAIN messages[c] \cup {l} |->
                          IF x = l THEN 0 ELSE messages[c][x]]]
    /\ UNCHANGED <<state, lines>>

\* One more message for the current line reaches the chat.
Arrives(c) ==
    /\ messages[c][current[c]] < Tries
    /\ messages' = [messages EXCEPT
          ![c] = [messages[c] EXCEPT ![current[c]] = messages[c][current[c]] + 1]]

\* An attempt that reaches the chat: Telegram says so, or its answer is lost.
Message(c) ==
    /\ state[c] = "sending" /\ current[c] # NULL
    /\ Arrives(c)
    /\ \/ current' = [current EXCEPT ![c] = NULL]
       \/ UNCHANGED current
    /\ UNCHANGED <<state, lines>>

\* Ok, after all lines.
Finish(c) ==
    /\ state[c] = "sending" /\ current[c] = NULL
    /\ DOMAIN messages[c] = lines[c]
    /\ state' = [state EXCEPT ![c] = "Ok"]
    /\ UNCHANGED <<lines, messages, current>>

\* The call is refused, fails or is cut short; a message may be on its way.
Fail(c) ==
    /\ state[c] \in {"waiting", "sending"}
    /\ state' = [state EXCEPT ![c] = "Failed"]
    /\ current' = [current EXCEPT ![c] = NULL]
    /\ (current[c] # NULL /\ Arrives(c)) \/ UNCHANGED messages
    /\ UNCHANGED lines

Next == \E c \in Call : Begin(c) \/ Record(c) \/ Message(c) \/ Finish(c) \/ Fail(c)

Spec == Init /\ [][Next]_vars
=============================================================================
