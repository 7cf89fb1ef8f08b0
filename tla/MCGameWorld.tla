---------------------------- MODULE MCGameWorld ----------------------------
(***************************************************************************)
(* GameWorld with three systems in a world, whose requirements are a chain *)
(* with a shared end, a cycle of two with a third outside it, or a system  *)
(* that requires itself.                                                   *)
(***************************************************************************)
EXTENDS GameWorld

Systems == {"player", "entity", "data"}

RootOrder == <<"player", "data">>

Graph(player, data, entity) ==
    [s \in Systems |-> CASE s = "player" -> player [] s = "data" -> data [] OTHER -> entity]

Graphs == {
    Graph(<<"data", "entity">>, <<"entity">>, << >>),
    Graph(<<"data">>, <<"player", "entity">>, << >>),
    Graph(<<"entity">>, << >>, <<"entity", "data">>)}

EventHandlers == [event \in Event |->
    CASE event = "on_start_begin" -> {"World", "data"}
      [] event = "on_start" -> {"player", "entity"}
      [] event \in {"on_step_begin", "on_world_start"} -> {"Controller"}
      [] event = "on_input_set" -> {"data"}
      [] event = "on_step" -> {"World", "Client", "Debug", "player", "data"}
      [] event = "on_step_end" -> {"entity"}
      [] event = "on_draw" -> {"player"}]
=============================================================================
