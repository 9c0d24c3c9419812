---------------------------- MODULE MCResolver ----------------------------
(* One socket, and one pid: of a program with a name, then of one without. *)
EXTENDS Resolver

CONSTANTS socket, pid, game

OneKey == {socket}
OnePid == {pid}
OneProgram == {game}

=============================================================================
