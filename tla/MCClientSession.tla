-------------------------- MODULE MCClientSession --------------------------
(* Small instances of ClientSession for TLC. *)
EXTENDS ClientSession

PlainInfo == [headers |-> TRUE, max_payload |-> 1, lame_duck |-> FALSE]

OneInfo  == {PlainInfo}

OneMessage == {[headers |-> TRUE, size |-> 1]}
=============================================================================
