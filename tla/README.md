# A verification of the Overworld engine and LD50

LD50 is a small survival game in Lua on "Overworld", a 2D engine of its own: a
C++ client (`client/src/od`) for windows, drawing, textures and the spatial
index of entities, and Lua modules (`engine/engine`) for simulations, entities,
images, cameras and input. The game is in `ld50/`. This directory holds TLA+
models of the parts that keep state, the TLC runs that check them on small
instances, and proofs, checked by TLAPS, of what holds for every instance.

Everything runs on one thread. What makes this system hard is not parallelism:
it is caches that must follow what they cache (chunks, vertices, textures,
sprites, listener lists), arrays that are swapped and shrunk while positions
into them are held, events that re-enter the code that sends them, calls that
fail half way, and long mixes of legal calls that no unit test makes.

## Inventory

| Part | State it keeps | Operations | Uses | What makes it correct |
|---|---|---|---|---|
| Entity index, `entity_index.cpp`, its bindings | entities and vertices by id; a 32 by 32 wrapping grid of chunks, each with colliders and their ids | set, set_collider, set_bounds, set_tags, set_sprite, get (adds), first, all, count, init, destroy | arrays, bounds, tagsets | every entity is in the chunks it covers; no update stops half way; a search with room meets each entity once, and no search what is not there (the first is proved, the second is refuted: see the findings) |
| Texture atlas, `atlas.cpp`, `texture_atlas.cpp` | one growing image; regions by id; free boxes; a texture | set region, reset region, init, destroy | image, texture, window | boxes never overlap; pictures survive growth; the texture is the image |
| Arrays, `core/array.cpp` | count, capacity, allocation | set_count, ensure_count, extend, swap_pop, swap | allocation | they are sequences, whatever their capacity |
| Tagsets, `tagset.cpp` | bits | set, get, intersects | | set and get agree |
| Windows, `window.cpp`, and what they own: textures, render textures, renderers | native window and context; list of resources; cached current context | init, destroy, bind of a scope, swap; init, destroy and swap of resources | SDL, OpenGL | the current context is the one meant; everything made is deleted once; no resource outlives its window |
| Entities, `entity.lua` | entities by id, free ids, ids by entity, entities by tag and positions by id and tag; an entity index | index, add, set, destroy, tag, untag, set_bounds, find... | entity index; broadcasts on_entity_tag, _untag, _index | the maps are inverse to each other and the index follows them, listeners that call back included |
| Simulations, `sim.lua`, `game.lua`, `world.lua` | status, stopping, step, systems by name and in order, cached listeners; the game's world | require, start, step, broadcast, stop, finalize, run; set and replace the world | every system | dependencies hear first; finalized once; a stopped world is replaced before it is stepped again |
| Images, `image.lua` | images by name, allocations by file, a reindex flag | index, set, load, entity_index | texture atlas, entities | every sprite shows the image its entity names |
| Player, weather, fire, puddle, tree | attributes, resources, dialog stack, turn, night, rain | step, end_turn, the dialog actions | entities, templates, controller | attributes stay in range; the night and the rain end; the dead stay asked |
| Controller, `controller.lua` | which inputs are held | on_world_start, on_step_begin: send the world the inputs that changed | the world of the game | it reaches a world that is started |
| Animation, cameras, templates, text | timers, positions, caches | step, draw | entities, images | |

The other parts (audio, files, timers, fonts, PNG reading, formatting, matrices,
bindings that only convert arguments, the Lua schema library) compute or do I/O
and keep no state worth a model; `PROJECT.json` lists each with its reason.

How they interact: a game requires systems, and makes a world with systems of
its own; each step of the game steps the world; systems of the world call the
entity system, which writes the C++ index and broadcasts to the others; the
image system listens and writes sprites to the index, with places it got from
the atlas; drawing reads the index's vertices and the atlas's texture.

The hazards (`PROJECT.json`, "hazards") are listed at the lines where they bite,
with the properties that would catch them.

## What is modelled

### Entity index: `EntityIndex`, `EntitySearch`, `EntityStore`

`EntityIndex` has the state of `odEntityIndex`: `entities` and
`entity_vertices`, functions on 0..n-1 as the C++ arrays are, and `chunks`, per
chunk the two parallel arrays `colliders` and `entity_ids`. `ok` turns false
when an `OD_CHECK` of an update fails. An action is a whole call as Lua makes
it: `SetCollider`, `Set`, `SetSprite`, `GetOrAdd` (also what the reading
bindings do to an id that does not exist), `SetBounds`, `SetTags`, and `Reset`
(the init and destroy bindings build a fresh index). `Store` is the sequence of
`odEntityIndex_set_collider_impl`: clear the old chunks that the new bounds are
judged not to contain, stop if one does not hold the entity, put the collider in
the new chunks, store, recompute the vertices. `ContainsChunk` and `ChunkRange`
are as the code has them, inaccuracies included. Vertices are kept as the inputs
they are computed from, bounds and sprite. `Destroy` and `ReuseSpec` add
`odEntityIndex_destroy`, which the C++ client uses and Lua does not.

`EntitySearch` is `odEntityIndex_search` (`Search`), in the order of the chunk
iteration, with its deduplication and cap, and the bindings `first` and `all`.

`EntityStore` is the abstraction: a table from ids to entities, each write whole
and at once. `ImplementsStore` says the index implements it.

`Geometry` and `Arrays` have `odBounds` and what is used of `odTrivialArray`.

### Texture atlas: `TextureAtlas`, `PictureTable`

`atlas` is the `odAtlas` (image, regions, free regions), `texture` the image last
uploaded, or that there is none or OpenGL reported an error for it, and `ok`
whether a call failed that neither the window nor OpenGL failed. A pixel is a
picture and a place in it, so that "the region holds its picture" is exact to
the pixel. The operators between the constants and the actions are the functions
of `atlas.cpp` from the atlas before to the atlas after; the actions are the
calls of `odTextureAtlas`, and `DestroyWindow` for what `odWindow_destroy` does
to a texture. `DebugChecks` chooses the build: only a debug build evaluates the
check in `odImage_get`.

`PictureTable` is the abstraction: a table from regions to pictures, where a
call changes its own region only.

### Entities of a world: `EntityWorld`, `EntityTable`

`world` is a record of the fields of `Entity.WorldSys`, under the names the code
has for them, shortened: `entities` lists Lua tables by id, `fields` is what is
in the tables, and `free`, `id_of`, `tagged`, `places` and `index` are derived.
Tables have an identity (`Object`), because the code's maps are keyed by it and a
reused id gets a new one. An operation is a function from the record before to
the record after, because `tag` and `untag` broadcast in the middle and the
listeners (`puddle.lua`, `tree.lua`) call `set` from there: `Heard` is what they
do, with `Refreshed` as the inner `index`, which has no resource tag left to add
or remove and so is heard by nobody. `index` is the plain store that
`EntityIndex` implements (`ImplementsStore`), in reads by id. Actions are the
calls; `Start` and `IndexNext` are `index_all` on the state a world starts with,
an id at a time, with nothing else between. Destroying an entity that has the
resource tag is left out: the listener would call `set` on an id that `find` no
longer knows, an error, and the game destroys only fires and shelters.

`EntityTable` is the abstraction: live ids, their tags as the tag arrays give
them and their bounds as the spatial index has them; a call changes one row.

### Games and their worlds: `GameWorld`, `SimulationLife`

The simulations of `sim.lua`, with the listeners that `world.lua`, `client.lua`,
`controller.lua` and `debug.lua` give a game. All is one thread of calls inside calls, so the
state has the stack `calls`, and an action is a call up to the next call it
makes: `Start`, `Run`, `Step`, `Finalize`, `Require` and `OnInit` (`Sim:require`
before and after the `on_init` it calls), `EndBroadcast`, `Set` (`GameSys:set`,
which finalizes the world there is), `WorldStarts`, `WorldSteps`, `StepWorld`,
`ClientSteps`, `DebugSteps`, and `ControllerReads`, which sends the inputs that
changed into the world, from inside `GameSys:set` (`on_world_start`) and before the
world steps (`on_step_begin`), also to a world already asked to stop. A broadcast keeps in `rest` the listeners it has
yet to call, as they were when it began: that is the cached list a broadcast
walks while listeners are added. What listeners of a world may do to simulations
is `Quiet`, `StopWorld`, `StopGame` and `Raise`; `Raise` drops the calls above
the nearest `broadcast_pcall` (`Unwound`), or ends the program where there is
none. Saving and loading a world make one or raise an error; the state copied is
not modelled. Which systems require which is a choice of `Init`
(`Requirements`), and so is the order in which `pairs` visits those of the game, of which
`World` alone comes first as the others require it (`GameOrders`, six).

`SimulationLife` is the abstraction: a simulation is made, started and finalized
once, and of the worlds one at a time is started.

### Player, weather and fires: `Survival`

A step of the world is `Player:on_step`, an answer to the dialog on top of
`dialogs`, a walk or nothing, and then the loop of `Fire:on_step`. What takes
turns goes through `Turn`, one turn of the loop of `end_turn` with the two
broadcasts in it: to the weather, which starts or ends the rain, and from there
back to player and fires. `Recover` is the condition of the loops of rest, cool
off and warm up. `Burn` is one turn of the loop over the live array of fires:
destroying one moves the last into its place, and the loop goes on behind it.
`NewWorld` is the replacement of a world that was asked to stop (`GameWorld` has
how). What is near the player, what is carried, hunger, thirst and temperature
decide which answers are offered and what a turn does to the health; here any of
them is possible. `phase` says where in the step the calls are.

### Windows and what is made in them: `Windows`

`windows` and `resources` are the fields of `odWindow` and `odWindowResource`
that point at each other, `cached` the static of `odWindow_set_context_impl`,
`current` what SDL has (external). Scopes are opened inside others, so this
module too has the calls under way: a call on a resource is a list of steps, and
`End` in the list is the destructor of the scope. `InitWindow` has one outcome
for each number of the calls to SDL and GLEW that succeed, `Destroy` is
`odWindow_destroy`, `StepWindow` makes a context current past the cache.
`InitResource` and `DestroyResource` begin the calls on textures, render textures
(a texture with a framebuffer) and renderers; they may come at any time, because
in Lua the garbage collector makes the latter. A native window and its context
have one number. Assumed of SDL: `SDL_GL_MakeCurrent` does not fail, and a number
is not used again.

## What the runs show

| Run | Result | Instance |
|---|---|---|
| `index_shared` | the type, chunk arrays parallel, entities in all their chunks, no failed check, fresh vertices, local updates, refinement of the table | 4 by 4 chunks of 2 by 2 pixels, two entities, a tag, two sprites, three bounds: none, two chunks, and the chunk to their right |
| `index_scattered` | no entity twice as it is now, and none missed while the results have room; first finds something | two entities, a tag, three bounds: none, four chunks, and a box over the edge of the world; searches from and to anywhere |
| `index_ghosts` | finding: a search reports what is not there | as `index_shared` |
| `index_wide` | finding: a search as wide as the grid misses a column | one entity |
| `index_reuse` | finding: a destroyed index keeps ids | one entity |
| `atlas` | type, boxes apart, whole pictures, white pixel, fresh texture, refinement of the table | two regions, two pictures (symmetric) in sizes 1x1 and 2x2, an image up to 4 high |
| `atlas_debug` | finding: a debug build refuses a legal picture | 1x1 and 3x1 |
| `entities` | type; tag arrays exact; places inverse to them; ids agree; index and images follow; live entities keep their ids; indexing again changes nothing; refinement of the table | three ids, four tables (symmetric), a resource tag and another, bounds or none |
| `worlds` | type; no assertion of the simulations fails; events reach the world of the game only, while it is started; dependencies hear first; errors stay local; a game asked to stop ends; a stopped world is replaced; refinement of the life | three worlds, two errors, up to two inputs at once, three systems that require each other in a chain, in a cycle, or one itself |
| `survival` | type; the dead are asked; night and rain are those of the turn; recovery ends; due fires go out | days of four turns, actions of one, two and three turns begun in the first twelve, health of 3, four dialogs |
| `windows` | type; windows and resources list each other; scopes restore the context | two windows opened three times in all, a render texture, a renderer |
| `windows_cache` | finding: a call is made in the context of another window | as `windows` |

Why these bounds are enough to meet the interesting cases. Four chunks per axis
is the least at which a range can be one, two and three long, end at the edge,
wrap, and leave a chunk untouched. Two entities in one chunk make `swap_pop`
move the other one. With the bounds of nothing, one and two chunks, every way to
enter, keep and leave chunks occurs, the ghosts too. Two entities are also the
least at which the copies of one can use up the cap of a search, which is 2 then, and
hide the other; with one entity the cap is 1 and the search does not deduplicate. In the atlas, a 2x2 region
reset and refilled with a 1x1 splits both ways; a height of 4 lets the image grow
in both directions and more than once. Three entities are the least at which
`untag` moves one, leaves another alone and both can be untagged next; a fourth
table is the one that takes a freed id. Three worlds are the least at which one
is replaced, the next one too, and the last has none to follow it (`StopWorld`
needs a world left); two errors let a replacement fail and the next attempt fail
again; with two inputs, one can still be on its way when the other has stopped the
world or raised an error. Three systems are the least with a cycle and a system outside it. Three
fires are the least at which the loop skips one and there is one behind it; days
of four turns give a night in which to begin, sleep through and wake from, twelve
turns two rains and a dry time between, and a health of 3 both a warning and a
death in the middle of an action. Two windows are the least at which the cache
can be wrong, and the third opening replaces one that has resources. The bounds
(`MaxEntityId` of both modules, `MaxRegionId`, `MaxHeight`, `MaxTurn`,
`MaxDialogs`, `MaxWorlds`, `MaxErrors`, `MaxInputs`, `MaxNatives`) replace arrays and counters
that grow without limit; `MaxHeight`, `MaxTurn`, `MaxErrors` and `MaxNatives` are
guards, the others bound the ids called with or given out, and a message beyond
`MaxDialogs` is lost.

Fairness. `worlds` and `survival` check liveness under `WF_vars(Next)`: the
program is one thread that runs while a call has something left to do, as the
loop of `Sim:run` does, and every call of the model returns, raises or is
followed by another. No action of its own is fair: nothing forces a player to
answer or a listener to be quiet. In these two runs the program may end (the game
is finalized, or the player quits, or the last turn is reached), so they turn the
deadlock check off; the others have it on, and their properties are of the calls
in any order.

### Findings

- `index_ghosts`: `odEntityChunkIterator_contains_chunk_coords` treats the
  exclusive end of a range as inside, and everything as inside an empty or
  wrapping range. An entity that moves, or is destroyed (its bounds become
  empty), stays in chunks it left, and searches there report it. The TODO list
  suspects this. A consequence: `find_all_in` asks for as many results as there are
  entities (`bindings_entity_index.cpp:796`) and a stale copy counts as one, so that it
  may take the place of another entity, which is then missed. In a world of 2 by 2
  pixel chunks, entity 0 moves from (4,0,6,1) to (1,0,3,1), entity 1 is at (4,0,6,1),
  and a search of (0,0,6,2) answers with entity 0 twice.
  `SearchReportsEachEntityOnce` states what is left: that this is the only way to
  miss one.
- `index_wide`: the case for bounds as wide as the grid covers all columns but one.
- `index_reuse`: `odEntityIndex_destroy` forgets `entity_ids`.
- `atlas_debug`: `odImage_get` compares x with the height.
- `windows_cache`: `odWindow_set_context_impl` skips the binding of the context it
  bound last, although `odWindow_step` and the making of a context have made
  another current since. With two windows open, what is made for one goes to the
  other. With one window, as in the game, the cache is right
  (proved: `OneWindowIsReached`).

Read, not run: `odWindow_destroy` (`window.cpp:303`) sets the native window and
the context to null before it looks whether to delete them, so it deletes
neither; they stay until SDL is quit, with the last window or never once there is
sound (`StartAudio`). Nothing in the engine looks at them again.

## What is proved

The modules `EntityIndexProofs`, `EntitySearchProofs`, `TextureAtlasProofs`,
`EntityWorldProofs`, `GameWorldProofs`, `SurvivalProofs` and `WindowsProofs` prove,
for every value of the constants that satisfies their assumptions, what the runs
check on instances; `ArrayLemmas` has the lemmas about sequences that several of
them cite. Every safety invariant and every action property of a passing run is proved.

Sequences. `Selected`, what an append loop keeps of an array, is a recursive
function and not `SelectSeq`, whose theorems take an operator. A recursive
function has to be shown to exist before its equation can be used. That is done
at every length by the least number that is a counterexample (`ArrayLemmas`), and
in the same way for `FlattenSeq` in `EntitySearchProofs`.

Entity index. The assumptions: a chunk has a positive width and the grid a
positive size, the zero bounds are among the bounds, no bounds are inside out.
The inductive invariant `IInv` joins the type, `ChunkArraysParallel`,
`VerticesFollowEntities`, `ok`, and that every entity is in the chunks its bounds
visit. The last one is why updates never fail although they skip chunks they
should clear: the chunks an update clears are a subset of those its entity
covers, and there it is found; skipping a chunk leaves a copy too many, never
one too few. `Invariance` is Spec => []IInv; `TypeCorrect`,
`ArraysStayParallel`, `ColliderIsInItsChunks`, `UpdatesNeverFail` and
`VerticesStayFresh` are its parts. `Refinement` shows that each call is a `Put`,
`Touch` or `Clear` of `EntityStore`, with `ok` from the invariant as the step that rules
the failing branch out.

Searches. Assumed: what the index assumes, and that search bounds are not inside
out. The invariant `SInv` joins `IInv` and that every copy in a chunk, one left
behind too, is in a chunk that the bounds in the copy visit, and no chunk has an
id twice. The last gives `UpdatesStayLocal`: an update swaps at most one copy out
of a chunk, which is its own. For `SearchesReportOnce` the chunk geometry is
needed: which chunks the iterator visits (`AxisRange`), that it visits each of
them once when the bounds have area and go less than the whole way round
(`VisitOrderVisits`), and that of the chunks that a search and an entity share
exactly one, in the first column and the first row they share, is not passed over
as seen before (`OverlapIsVisited`, `SeenButOnce`).
Ids that are unique in each chunk bound the hits by the number of copies, so that a
search with room never reaches its cap. A search capped at the number of entities
may; were all its results entities as they are now, they would be as many as there
are entities, none twice, so that none is missed (`SearchReportsOnce`). `FirstAlwaysFinds` is
simpler since a first search does not deduplicate: one shared chunk is enough.

Texture atlas. The assumptions: sizes are positive. `IInv` joins the type,
`RegionsAreApart` and `WhitePixelStaysWhite`; the argument is that the two
remainders `Split` makes and the corner it gives out are parts of one free box
and apart from each other, so that they are apart from whatever the box was
apart from (`PartsAreApart`, `SplitPieces`), that growth adds a box below
everything (`RowKeeps`), and that a blit to a region touches pixels of no other
(`DrawnKeeps`). These hold in every build. Without debug checks, `PicturesAreWhole`
adds that each region holds its picture and the texture is the image, and
`Refinement` that the atlas implements `PictureTable`.

Entities of a world. Assumed: `MaxEntityId` is positive, the resource tag and the
tags indexed are tags, the empty bounds are bounds. The inductive invariant says, of the
ids indexed so far, that the arrays of tags and the places in them are inverse to
each other, that ids by table and tables by id are inverse and no table has two
ids, that every indexed entity agrees with its table (places, row of the spatial
index, free id), and that every table has the image of its resource tag
(`Consistent`). The start, which indexes one id after the other, is in it: the ids
indexed are part of the formula. The argument goes through the calls in the
order in which `index` makes them, each a lemma: registering, removing outdated
tags, the listener that calls back and the indexing inside it, adding tags,
writing the collider. Each says that it keeps the invariant of the entity it is
about and touches no other (`Others`), so that one lemma (`OneChanged`) ends all
of the calls. `ReindexDoesNothing` needs no listener to be called, which is what
the agreement of places and tags gives. All properties of the run `entities` are
proved.

Survival. Assumed: the named assumptions on the calendar, the health and the
costs, no number in particular. `IInv` joins the type, `TheDeadAreAsked`,
`SkyFollowsTurns` and that turns are counted down from at least one
(`TurnsAreCounted`), which is why the count ends at zero, where the night is
looked at, and does not pass it. That the dead stay asked rests on `Dismiss` being closed to them and on
turns pushing only messages.

Windows. Assumed: kinds are disjoint, windows finite. `IInv` joins the type,
`WindowsListTheirResources` (`ListsAgree`), that `users` counts the windows and
the mixer that use SDL, that the calls under way are nested as scopes are, and
`CacheOrScopes`: the cache is right, or every scope under way found the context
that is current, nothing having been bound since. In the first case the end of a
scope binds what it found, in the second it is there already. So `ScopesRestore`
holds, and `CallsReachTheirWindow`, which needs the cache to be right, does not.
It does as long as no two native windows are open, which is the case in the game:
`OneWindowIsReached` is Spec /\ []OneOpen => []CallsReachTheirWindow. `OneReached`
joins to `IInv` that the open window is current, cached, and what every scope
under way found, and that resources are registered only with native windows; SDL
is not quit under it, as it is a user itself.

Games and worlds. Assumed: the bounds and the kinds of the constants, no
requirement in particular, so that they may be circular. The stack of calls is
what makes `AssertionsHold` hard: a listener deep inside a step may stop its
world, raise an error or, for the game, replace the world. `IInv` says which
calls may be under way above which (`Over`: above a listener of a world there
are only broadcasts of that world, and above the making of a world only the rest
of its making), that every call under way, not only the one at the top, keeps
what it asserted when it was made (`Fine`), that a new world is being made or
started, and that a world that is being made is set in the end (`WorldsAwaited`).
Each action pushes calls on a part of the stack; an error takes the stack from
its catching broadcast on, which is a part again. `CallsAreRight`,
`WorldsHearWhileLive`, `ErrorsCostOneListener` and the refinement,
`WorldsLiveInTurn`, follow. `DependenciesListenFirst` needs a second invariant,
`DInv`, of the systems whose `on_init` is under way: what such a system requires
is registered, or is among the calls made by it that are yet to come, above its
registration. `TypeCorrect` adds to `IInv` that `rest`, which listeners are
computed into by `Selected`, has the calls it is declared to have.

Only model-checked is liveness (`GameEnds`, `StoppedWorldIsReplaced`,
`RecoveryEnds`, `DueFiresGoOut`), which is out of the prover's reach with ENABLED,
on which fairness rests. What the runs refute is not proved: the five properties of
the runs that expect a violation.

## Not modelled

- Images, animation, cameras, templates and text in Lua, and which inputs are held:
  what they keep follows the entities, and `EntityWorld` has the broadcasts they listen to.
  A hazard remains there without a property: `Image.WorldSys:set` changes the
  place of an image and does not ask for the sprites to be written again.
- Tagsets as bits, and the capacities of arrays: here a tagset is a set and an
  array a sequence. `odTagset_set` is an exclusive or (`tagset.cpp:43`) and
  `odTrivialArray_swap` mixes count and capacity (`array.cpp:50`); no caller is
  affected.
- Moves and swaps of window resources (`texture.cpp:22`), which nothing calls.
- In `Windows`, that the initialisation of a renderer opens a scope in a scope of
  the same window, and the returns on OpenGL errors once a name is made, which leave
  a renderer with some of its names or a render texture without its framebuffer: here
  a making that reaches OpenGL succeeds.
- Audio, music, files, timers, fonts, matrices, the conversion of arguments, the
  schema library, logging: they compute, do I/O, or keep no state that another
  part depends on.
- The vendored libraries (libpng, Lua, SDL, GLEW and others under `client/lib`),
  which are most of the lines of the repository and not its own.
