------------------------------ MODULE MCCliProxy ------------------------------
(* Small instances of CliProxy for TLC: Codex, with config.toml and auth.json. *)
EXTENDS CliProxy

CONSTANTS o1, o2, key1, key2, ph, none

TwoFiles == <<"config", "auth">>
ButLastWrite == {"read", "backup", "build", "apply", "restore"}
OnlyFlag == {"flag"}
=============================================================================
