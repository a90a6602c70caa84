----------------------------- MODULE MCTelegram -----------------------------
(* Telegram with two servers and Redis, in production and in development.  *)
EXTENDS Telegram, TLC

MCConfigs == {
  [token |-> TRUE, secret |-> TRUE, url |-> TRUE, redis |-> TRUE, production |-> TRUE],
  [token |-> TRUE, secret |-> TRUE, url |-> FALSE, redis |-> TRUE, production |-> FALSE],
  [token |-> TRUE, secret |-> FALSE, url |-> TRUE, redis |-> FALSE, production |-> FALSE]}
=============================================================================
