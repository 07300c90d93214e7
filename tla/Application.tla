---------------------------- MODULE Application ----------------------------
(***************************************************************************)
(* A program with SdlSurfaces and Backends: create() is given an           *)
(* SdlSurface and makes a VkSurfaceKHR for the window it owns at that      *)
(* moment. create(), ~Backend() and the calls of SdlSurface run on one     *)
(* thread, SDL's video thread. The program destroys a window only when no  *)
(* Backend has a VkSurfaceKHR for it, as the order of the declarations in  *)
(* tests/backend_test.hpp makes it; everything else is in any order.       *)
(***************************************************************************)
EXTENDS Backend

CONSTANT Surfaces

VARIABLES existing_instance, window, shown, forgotten

Sdl == INSTANCE SdlSurface

sdlVars == <<existing_instance, window, shown, forgotten>>
vkVars == <<volk_init, pc, self, given, backend, live, made_for, abandoned,
            handles>>
appVars == <<sdlVars, vkVars>>

AppInit == Sdl!Init /\ Init

(* Some Backend has a VkSurfaceKHR for the window.                         *)
InUse(w) ==
  \E b \in Backends : LET id == backend[b].has["surface"]
                      IN  id # Null /\ made_for[id] = w

OpenWindow(s, w) ==
  /\ pc = "idle"
  /\ Sdl!Create(s, w)
  /\ UNCHANGED vkVars

MoveWindow(dst, src) ==
  /\ pc = "idle"
  /\ Sdl!Move(dst, src)
  /\ UNCHANGED vkVars

CloseWindow(s) ==
  /\ pc = "idle"
  /\ ~InUse(window[s])
  /\ Sdl!Destroy(s)
  /\ UNCHANGED vkVars

CreateBackend(s) ==
  /\ CallCreate(window[s])
  /\ UNCHANGED sdlVars

BackendSteps ==
  /\ InitStage \/ DestroyStage \/ Client
  /\ UNCHANGED sdlVars

AppNext ==
  \/ \E s \in Surfaces, w \in Windows : OpenWindow(s, w)
  \/ \E dst, src \in Surfaces : MoveWindow(dst, src)
  \/ \E s \in Surfaces : CloseWindow(s)
  \/ \E s \in Surfaces : CreateBackend(s)
  \/ BackendSteps

AppSpec == AppInit /\ [][AppNext]_appVars

----------------------------------------------------------------------------
(* The types of both parts.                                                *)
AppTypeOK == Sdl!TypeOK /\ TypeOK

(* Of all SdlSurfaces at most one owns a window, and the flag is then set: *)
(* no second one can be created next to it.                                *)
OneInstance == Sdl!OneInstance

(* Every window SDL has belongs to the one SdlSurface, or was forgotten.   *)
WindowsOwned == Sdl!WindowsOwned

(* The flag is down again when the instance is gone, unless its window was *)
(* forgotten.                                                              *)
FlagReleased == Sdl!FlagReleased

(* create() reports "There already is an active instance of SdlSurface."   *)
(* only when there is one.                                                 *)
RefusalTellsTruth == Sdl!RefusalTellsTruth

(* A VkSurfaceKHR that is still to be destroyed has its window, whichever  *)
(* SdlSurface came to own it, and in whatever way create() or ~Backend()   *)
(* of another Backend went meanwhile.                                      *)
WindowOutlivesSurface ==
  \A id \in Ids :
    Object("surface", id) \in live \ abandoned => made_for[id] \in shown
=============================================================================
