---------------------------- MODULE MCGameSession ----------------------------
(* GameSession on small instances. *)
EXTENDS SessionInvariant

(* Every turn is one in which PacMan eats a pellet. *)
OnePellet == {<<"FILE", "VIEW">>}
=============================================================================
