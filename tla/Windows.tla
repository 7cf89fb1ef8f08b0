------------------------------ MODULE Windows ------------------------------
(***************************************************************************)
(* Windows, their OpenGL contexts and what is made in them: window.cpp,    *)
(* texture.cpp, render_texture.cpp, renderer.cpp and sdl.cpp of            *)
(* client/src/od/platform.                                                 *)
(*                                                                         *)
(* OpenGL works on one context at a time, SDL's current one.  Each call    *)
(* that needs a window's context opens an odWindowScope, which makes it    *)
(* current and at its end what was current before; a static in             *)
(* odWindow_set_context_impl remembers the context bound last, and binding *)
(* that one again does nothing.  Scopes are opened inside others, so the   *)
(* state has the calls under way, innermost first, a step each.            *)
(*                                                                         *)
(* SDL and OpenGL are external; SDL_GL_MakeCurrent, which fails for what   *)
(* SDL does not have, never fails here.  A native window and the context   *)
(* made for it have the same number, never used again; 0 is neither.       *)
(***************************************************************************)
EXTENDS Integers, Sequences, FiniteSets, Arrays

CONSTANTS
    Window,         \* odWindow objects
    Texture,        \* odTexture objects
    RenderTexture,  \* odRenderTexture objects: a texture and a framebuffer
    Renderer,       \* odRenderer objects
    MaxNatives      \* bound on the native windows made

Resource == Texture \cup RenderTexture \cup Renderer

ASSUME KindsAssumption ==
    /\ Texture \cap RenderTexture = {}
    /\ Renderer \cap (Texture \cup RenderTexture) = {}
ASSUME BoundsAssumption == MaxNatives \in Nat /\ IsFiniteSet(Window)

nil == "nil"

ASSUME NilAssumption == nil \notin Window

VARIABLES
    windows,
    resources,
    current,         \* external: SDL's current window and context
    users,           \* odSDL_init_counter
    cached,          \* render_context_native_cached
    is_initialized,  \* the static of odWindow_gl_init
    audio,           \* the mixer, a user of SDL for good, was made
    made,            \* native windows made so far
    calls            \* the calls under way

vars == <<windows, resources, current, users, cached, is_initialized, audio, made, calls>>

Native == 0 .. MaxNatives
Name == {"texture", "fbo", "program"}

WindowState == [native: Native, context: Native, open: BOOLEAN, sdl: BOOLEAN,
                resources: Seq(Resource)]
ResourceState == [window: Window \cup {nil}, names: SUBSET Name]
Scope == [native: Native, old: Native]
Step == {"destroy", "delete", "unregister", "register", "create", "generate",
         "use", "paint", "end"}
Call == [step: Step, resource: Resource \cup {nil}, name: Name,
         window: Window \cup {nil}, scope: Scope]

TypeOK ==
    /\ windows \in [Window -> WindowState]
    /\ resources \in [Resource -> ResourceState]
    /\ current \in [native: Native, context: Native]
    /\ users \in 0 .. Cardinality(Window) + 1
    /\ cached \in Native
    /\ is_initialized \in BOOLEAN /\ audio \in BOOLEAN
    /\ made \in Native
    /\ calls \in Seq(Call)

-----------------------------------------------------------------------------
Closed == [native |-> 0, context |-> 0, open |-> FALSE, sdl |-> FALSE, resources |-> << >>]

NoScope == [native |-> 0, old |-> 0]

Of(step, r, name) ==
    [step |-> step, resource |-> r, name |-> name, window |-> nil, scope |-> NoScope]

Idle == calls = << >>
Top == Head(calls)
Return == Tail(calls)
At(step) == ~Idle /\ Top.step = step

\* The names OpenGL gives the objects of a resource; a renderer's are one here.
NamesOf(r) ==
    IF r \in Renderer THEN {"program"}
    ELSE IF r \in RenderTexture THEN {"texture", "fbo"} ELSE {"texture"}

\* odRenderer_check_valid, odTexture_check_valid and odRenderTexture_check_valid.
Ready(r) == resources[r].window # nil /\ resources[r].names = NamesOf(r)

HasContext(w) == w # nil /\ windows[w].native # 0 /\ windows[w].context # 0

\* odWindow_set_context_impl that does not remember what it bound (a mutated form).
SetContextForgotten(native, context) ==
    /\ current' = IF cached = context THEN current ELSE [native |-> native, context |-> context]
    /\ cached' = cached

\* odWindow_set_context_impl
SetContext(native, context) ==
    /\ current' = IF cached = context THEN current ELSE [native |-> native, context |-> context]
    /\ cached' = context

\* odWindowScope_bind, with its end among the calls to come.
Bind(w) == SetContext(windows[w].native, windows[w].context)

End(w) ==
    [Of("end", nil, "texture") EXCEPT
        !.scope = [native |-> windows[w].native, old |-> current.context]]

\* odWindowResource_destroy
Unlisted(list, r) ==
    IF \E i \in 1 .. Len(list) : list[i] = r
      THEN SwapPop(list, CHOOSE i \in 1 .. Len(list) : list[i] = r)
      ELSE list

\* Unregistered that leaves the resource in the list (a mutated form).
UnregisteredThere(state, r) == state

Unregistered(state, r) ==
    IF resources[r].window = nil THEN state
    ELSE [state EXCEPT ![resources[r].window].resources = Unlisted(@, r)]
-----------------------------------------------------------------------------
(***************************************************************************)
(* A window.                                                               *)
(***************************************************************************)
\* UsersWithout that keeps SDL for a window that is gone (a mutated form).
UsersStill(w) == users

\* odSDL_destroy_reentrant of the window.
UsersWithout(w) == IF windows[w].sdl THEN users - 1 ELSE users

\* SDL_Quit for the last user, with all windows of SDL.
CurrentWithout(w) ==
    IF windows[w].sdl /\ UsersWithout(w) = 0 THEN [native |-> 0, context |-> 0] ELSE current

\* What odWindow_destroy tells the resources.
Told(w) ==
    [r \in Resource |->
        IF \E i \in 1 .. Len(windows[w].resources) : windows[w].resources[i] = r
          THEN [resources[r] EXCEPT !.window = nil]
          ELSE resources[r]]

\* odWindow_destroy.  It forgets the native window and the context first and so
\* deletes neither.
Destroy(w) ==
    /\ Idle
    /\ windows' = [windows EXCEPT ![w] = Closed]
    /\ resources' = Told(w)
    /\ users' = UsersWithout(w)
    /\ current' = CurrentWithout(w)
    /\ UNCHANGED <<cached, is_initialized, audio, made, calls>>

\* odWindow_init: odWindow_destroy, then as many of the calls of SDL and GLEW as
\* succeed: SDL_Init, which only the first user makes; SDL_CreateWindow;
\* SDL_GL_CreateContext, which makes the context current; glewInit, which is made until
\* it succeeds once.
InitWindow(w) ==
    \E done \in 0 .. 4 :
        LET n == made + 1
            left == UsersWithout(w)
        IN  /\ Idle
            /\ done = 0 => left = 0
            /\ done = 3 => ~is_initialized
            /\ done >= 2 => n <= MaxNatives
            /\ windows' = [windows EXCEPT ![w] =
                    [native |-> IF done >= 2 THEN n ELSE 0,
                     context |-> IF done >= 3 THEN n ELSE 0,
                     open |-> done = 4,
                     sdl |-> done >= 1,
                     resources |-> << >>]]
            /\ resources' = Told(w)
            /\ users' = IF done >= 1 THEN left + 1 ELSE left
            /\ made' = IF done >= 2 THEN n ELSE made
            /\ current' = IF done >= 3 THEN [native |-> n, context |-> n] ELSE CurrentWithout(w)
            /\ cached' = IF done >= 3 THEN n ELSE cached
            /\ is_initialized' = (is_initialized \/ done = 4)
            /\ UNCHANGED <<audio, calls>>

\* odWindow_step, which does not look at the cache; a step in which the window is
\* closed is Destroy.
StepWindow(w) ==
    /\ Idle /\ windows[w].open
    /\ current' = [native |-> windows[w].native, context |-> windows[w].context]
    /\ UNCHANGED <<windows, resources, users, cached, is_initialized, audio, made, calls>>

\* The one odAudioMixer, made with the first sound.  It keeps SDL also if SDL_mixer
\* fails.
StartAudio ==
    /\ Idle /\ ~audio
    /\ audio' = TRUE
    /\ users' \in {users + 1} \cup (IF users = 0 THEN {0} ELSE {})
    /\ UNCHANGED <<windows, resources, current, cached, is_initialized, made, calls>>
-----------------------------------------------------------------------------
(***************************************************************************)
(* A resource.                                                             *)
(***************************************************************************)
ResourceCalls == <<windows, resources, users, is_initialized, audio, made>>

\* odTexture_destroy and odRenderer_destroy, the last part of odRenderTexture_destroy.
Freeing(r) == <<Of("destroy", r, IF r \in Renderer THEN "program" ELSE "texture")>>

\* odTexture_init and odRenderer_init, the first part of odRenderTexture_init.
Making(r, w) ==
    Freeing(r)
      \o <<[Of("register", r, "texture") EXCEPT !.window = w],
           Of("create", r, IF r \in Renderer THEN "program" ELSE "texture")>>

DestroyResource(r) ==
    /\ Idle
    /\ calls' = IF r \in RenderTexture THEN <<Of("destroy", r, "fbo")>> ELSE Freeing(r)
    /\ UNCHANGED <<current, cached, ResourceCalls>>

InitResource(r, w) ==
    /\ Idle
    /\ calls' = IF r \in RenderTexture
                  THEN <<Of("destroy", r, "fbo")>> \o Making(r, w) \o <<Of("create", r, "fbo")>>
                  ELSE Making(r, w)
    /\ UNCHANGED <<current, cached, ResourceCalls>>

\* The beginning of a destruction, odWindowScope_try_bind.
TryBind ==
    /\ At("destroy")
    /\ LET r == Top.resource
           w == resources[r].window
           rest == <<Of("delete", r, Top.name),
                     IF Top.name = "fbo" THEN Freeing(r)[1] ELSE Of("unregister", r, Top.name)>>
       IN  IF HasContext(w)
             THEN Bind(w) /\ calls' = rest \o <<End(w)>> \o Return
             ELSE calls' = rest \o Return /\ UNCHANGED <<current, cached>>
    /\ UNCHANGED ResourceCalls

\* Deletes the object, if the scope was bound, and forgets its name.
Delete ==
    /\ At("delete")
    /\ resources' = [resources EXCEPT ![Top.resource].names = @ \ {Top.name}]
    /\ calls' = Return
    /\ UNCHANGED <<windows, current, users, cached, is_initialized, audio, made>>

Unregister ==
    /\ At("unregister")
    /\ windows' = Unregistered(windows, Top.resource)
    /\ resources' = [resources EXCEPT ![Top.resource].window = nil]
    /\ calls' = Return
    /\ UNCHANGED <<current, users, cached, is_initialized, audio, made>>

\* odWindowResource_init.  What fails ends the init, which has no scope yet.
Register ==
    /\ At("register")
    /\ LET r == Top.resource
           w == Top.window
       IN  IF windows[w].native = 0
             THEN calls' = << >> /\ UNCHANGED <<windows, resources>>
             ELSE /\ windows' = [Unregistered(windows, r) EXCEPT ![w].resources = Append(@, r)]
                  /\ resources' = [resources EXCEPT ![r].window = w]
                  /\ calls' = Return
    /\ UNCHANGED <<current, users, cached, is_initialized, audio, made>>

\* odWindowScope_bind of an init.
BindToCreate ==
    /\ At("create")
    /\ LET w == resources[Top.resource].window
       IN  IF HasContext(w)
             THEN /\ Bind(w)
                  /\ calls' = <<Of("generate", Top.resource, Top.name), End(w)>> \o Return
             ELSE calls' = << >> /\ UNCHANGED <<current, cached>>
    /\ UNCHANGED ResourceCalls

Generate ==
    /\ At("generate")
    /\ resources' = [resources EXCEPT ![Top.resource].names = @ \cup {Top.name}]
    /\ calls' = Return
    /\ UNCHANGED <<windows, current, users, cached, is_initialized, audio, made>>

\* odRenderer_clear and odRenderer_draw_vertices, as far as the scope of the renderer.
Draw(r) ==
    /\ Idle /\ Ready(r)
    /\ LET w == resources[r].window
       IN  /\ Bind(w)
           /\ calls' = <<Of("use", r, "program"), Of("paint", r, "program"), End(w)>>
    /\ UNCHANGED ResourceCalls

\* odRenderer_bind, a scope in the scope.
Use ==
    /\ At("use")
    /\ LET w == resources[Top.resource].window
       IN  Bind(w) /\ calls' = <<Of("paint", Top.resource, "program"), End(w)>> \o Return
    /\ UNCHANGED ResourceCalls

\* The calls of OpenGL that draw.
Paint ==
    /\ At("paint")
    /\ calls' = Return
    /\ UNCHANGED <<current, cached, ResourceCalls>>

\* odWindowScope::~odWindowScope
EndScope ==
    /\ At("end")
    /\ IF Top.scope.old # 0 THEN SetContext(Top.scope.native, Top.scope.old)
       ELSE UNCHANGED <<current, cached>>
    /\ calls' = Return
    /\ UNCHANGED ResourceCalls
-----------------------------------------------------------------------------
Init ==
    /\ windows = [w \in Window |-> Closed]
    /\ resources = [r \in Resource |-> [window |-> nil, names |-> {}]]
    /\ current = [native |-> 0, context |-> 0]
    /\ users = 0 /\ cached = 0
    /\ is_initialized = FALSE /\ audio = FALSE
    /\ made = 0
    /\ calls = << >>

Next ==
    \/ \E w \in Window : InitWindow(w) \/ Destroy(w) \/ StepWindow(w)
    \/ StartAudio
    \/ \E r \in Resource : DestroyResource(r) \/ \E w \in Window : InitResource(r, w)
    \/ \E r \in Renderer : Draw(r)
    \/ TryBind \/ Delete \/ Unregister \/ Register \/ BindToCreate \/ Generate
    \/ Use \/ Paint \/ EndScope

Spec == Init /\ [][Next]_vars
-----------------------------------------------------------------------------
\* A window lists a resource exactly if the resource names the window, once, whatever
\* was destroyed first: no window tells a resource that is gone, none goes without
\* telling one that is left.
WindowsListTheirResources ==
    \A w \in Window, r \in Resource :
        Cardinality({i \in 1 .. Len(windows[w].resources) : windows[w].resources[i] = r})
            = IF resources[r].window = w THEN 1 ELSE 0

\* A scope leaves the context current that it found, scopes inside it included, although
\* the cache it goes by knows nothing of the steps of windows before it.  Only the
\* context: which native window is bound with it is not kept here.
ScopesRestoreContext ==
    [][EndScope /\ Top.scope.old # 0 => current'.context = Top.scope.old]_vars

\* What odWindowScope_bind asserts: while a scope is bound, SDL has the window and the
\* context of it current, so that what OpenGL makes, deletes and draws is that window's.
CallsReachTheirWindow ==
    ~Idle /\ Top.step \in {"delete", "generate", "paint"} =>
        LET w == resources[Top.resource].window
        IN  HasContext(w) =>
                current = [native |-> windows[w].native, context |-> windows[w].context]
=============================================================================
