--------------------------- MODULE MC_TelegramBot ---------------------------
(***************************************************************************)
(* Small instances of TelegramBot for TLC.                                 *)
(***************************************************************************)
EXTENDS TelegramBot

\* The commands that change a subscription.
Switching == {"send_notifications", "stop_notifications"}

\* What a chat that never asks to stop may write: what is only answered, and
\* updates without a text or a message, too.
NeverStopping == {"send_notifications", "help", "no_text", "no_message"}
=============================================================================
