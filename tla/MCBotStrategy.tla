---------------------------- MODULE MCBotStrategy ----------------------------
(* Nine cards of three colours, two for each player; the bot sits South.    *)
EXTENDS BotStrategy

Red(value) == [colour |-> "H", value |-> value]

(* A bot that has just connected remembers nothing; another one has seen    *)
(* two cards of the last trick.                                             *)
Remembered == {NoTurnCards,
               [NoTurnCards EXCEPT ![West] = Red("1"), ![East] = [colour |-> "C", value |-> "10"]]}
==============================================================================
