--------------------------------- MODULE Setup ---------------------------------
(***************************************************************************)
(* The setup loop with which every run of MainBoard/script.lua begins: it  *)
(* waits for the web action that names a game, looking at one event and    *)
(* one action every 100 ms.  The games conjoin these actions with what     *)
(* they leave unchanged.                                                   *)
(***************************************************************************)
EXTENDS ScriptInput, Buttons

VARIABLE pc  \* where the script is

\* The global reset button returns from the script, which luaLoop runs again:
\* it comes back to the setup loop, past the web action of this turn.
SetupEvent ==
  /\ pc = "setup"
  /\ \/ HasEvent /\ PopEvent
     \/ FindNone
  /\ pc' = IF HasEvent /\ resolveButton(Head(events).button).t = GlobalReset
           THEN "setup" ELSE "setupWeb"

SetupWeb(game) ==
  /\ pc = "setupWeb"
  /\ getWebAction
  /\ pc' = IF webAction = game THEN "setupClear" ELSE "setup"

SetupClear ==
  /\ pc = "setupClear"
  /\ clearButtonEvents
  /\ pc' = "wait"

SetupLoop(game) == SetupEvent \/ SetupWeb(game) \/ SetupClear
================================================================================
