-------------------------- MODULE ApplicationProofs --------------------------
(***************************************************************************)
(* What a program of SdlSurfaces and Backends does, for any number of      *)
(* either, of windows and of names.                                        *)
(*                                                                         *)
(* The program's steps are steps of SdlSurface and steps of Backend, whose *)
(* inductive invariant carries over. On top of it come the accounting of   *)
(* windows (SdlInv) and what joins the two parts: a window that create()   *)
(* was given stays until create() is over.                                 *)
(***************************************************************************)
EXTENDS Application, BackendProofs

USE BackendAssumption

----------------------------------------------------------------------------
(* A window that an SdlSurface owns is shown, and nobody has forgotten it. *)
OwnedShown ==
  \A s \in Surfaces : window[s] # Null =>
    window[s] \in shown /\ window[s] \notin forgotten

SdlInv ==
  /\ Sdl!TypeOK
  /\ OneInstance
  /\ WindowsOwned
  /\ FlagReleased
  /\ OwnedShown

(* init() works for a window that is there.                                *)
GivenShown == given # Null => pc \in InitStages /\ given \in shown

AppInv ==
  /\ BInv
  /\ SdlInv
  /\ GivenShown
  /\ WindowOutlivesSurface

----------------------------------------------------------------------------
(* The windows.                                                            *)

(* WindowsOwned, window by window.                                         *)
LEMMA WindowsOwnedPointwise ==
  ASSUME Sdl!TypeOK
  PROVE  WindowsOwned <=>
           \A w \in Windows :
             w \in shown <=> \/ \E s \in Surfaces : window[s] = w
                             \/ w \in forgotten
  BY DEF WindowsOwned, Sdl!WindowsOwned, Sdl!TypeOK, Sdl!Valid

(* Initially there are no windows.                                         *)
LEMMA SdlInit == Sdl!Init => SdlInv
  BY DEF Sdl!Init, SdlInv, Sdl!TypeOK, OneInstance, Sdl!OneInstance,
     WindowsOwned, Sdl!WindowsOwned, FlagReleased, Sdl!FlagReleased,
     OwnedShown, Sdl!Valid

(* SdlSurface::create() keeps the accounting of windows.                   *)
LEMMA OpenStep ==
  ASSUME SdlInv, NEW s \in Surfaces, NEW w \in Windows, Sdl!Create(s, w)
  PROVE  SdlInv'
<1> USE DEF SdlInv, OneInstance, FlagReleased
<1>1. /\ ~existing_instance /\ existing_instance'
      /\ w \notin shown
      /\ window[s] = Null
      /\ shown' = shown \cup {w}
      /\ forgotten' = forgotten
      /\ window' = [window EXCEPT ![s] = w]
  BY DEF Sdl!Create
<1>2. Sdl!TypeOK'
  BY <1>1 DEF Sdl!TypeOK
<1>3. /\ window'[s] = w
      /\ \A r \in Surfaces \ {s} : window'[r] = window[r]
  BY <1>1 DEF Sdl!TypeOK
<1>4. \A r \in Surfaces : window[r] = Null
  BY <1>1 DEF Sdl!OneInstance, Sdl!Valid
<1>5. Sdl!OneInstance'
  BY <1>1, <1>3, <1>4 DEF Sdl!OneInstance, Sdl!Valid
<1>6. Sdl!FlagReleased'
  BY <1>3 DEF Sdl!FlagReleased, Sdl!Valid
<1>7. OwnedShown'
  BY <1>1, <1>3, <1>4 DEF OwnedShown, Sdl!TypeOK
<1>8. WindowsOwned'
  <2>1. \A v \in Windows : v \in shown <=> v \in forgotten
    BY <1>4, WindowsOwnedPointwise
  <2>2. \A v \in Windows :
          v \in shown' <=> \/ \E r \in Surfaces : window'[r] = v
                           \/ v \in forgotten'
    BY <1>1, <1>3, <1>4, <2>1
  <2> QED
    BY <1>2, <2>2 DEF WindowsOwned, Sdl!WindowsOwned, Sdl!TypeOK, Sdl!Valid
<1> QED
  BY <1>2, <1>5, <1>6, <1>7, <1>8

(* So does a move of SdlSurfaces.                                          *)
LEMMA MoveWindowStep ==
  ASSUME SdlInv, NEW dst \in Surfaces, NEW src \in Surfaces, Sdl!Move(dst, src)
  PROVE  SdlInv'
<1> USE DEF SdlInv, OneInstance, FlagReleased
<1>1. /\ dst # src
      /\ window' = [window EXCEPT ![dst] = window[src], ![src] = Null]
      /\ forgotten' = forgotten \cup ({window[dst]} \ {Null})
      /\ UNCHANGED <<existing_instance, shown>>
  BY DEF Sdl!Move
<1>2. /\ window'[dst] = window[src]
      /\ window'[src] = Null
      /\ \A r \in Surfaces \ {dst, src} : window'[r] = window[r]
  BY <1>1 DEF Sdl!TypeOK
<1>3. Sdl!TypeOK'
  BY <1>1 DEF Sdl!TypeOK, OwnedShown
<1>4. Sdl!OneInstance'
  <2>1. \A r, q \in Surfaces :
          window[r] # Null /\ window[q] # Null => r = q /\ existing_instance
    BY DEF Sdl!OneInstance, Sdl!Valid
  <2>2. \A r \in Surfaces : window'[r] # Null =>
          \/ r = dst /\ window[src] # Null
          \/ r \notin {dst, src} /\ window[r] # Null
    BY <1>2
  <2>3. \A r, q \in Surfaces :
          window'[r] # Null /\ window'[q] # Null => r = q /\ existing_instance
    BY <2>1, <2>2
  <2> QED
    BY <1>1, <2>3 DEF Sdl!OneInstance, Sdl!Valid
<1>5. Sdl!FlagReleased'
  <2> SUFFICES ASSUME \A r \in Surfaces : window'[r] = Null, forgotten' = {}
               PROVE  ~existing_instance
    BY <1>1 DEF Sdl!FlagReleased, Sdl!Valid
  <2>1. window[src] = Null /\ window[dst] = Null /\ forgotten = {}
    BY <1>1, <1>2
  <2> QED
    BY <1>2, <2>1 DEF Sdl!FlagReleased, Sdl!Valid
<1>6. OwnedShown'
  <2>1. window[src] = Null \/ window[dst] = Null
    BY <1>1 DEF Sdl!OneInstance, Sdl!Valid
  <2>2. \A r \in Surfaces \ {dst, src} : window[r] = Null \/ window[dst] = Null
    BY DEF Sdl!OneInstance, Sdl!Valid
  <2> SUFFICES ASSUME NEW r \in Surfaces, window'[r] # Null
               PROVE  window'[r] \in shown /\ window'[r] \notin forgotten'
    BY <1>1 DEF OwnedShown
  <2>3. PICK q \in Surfaces : q # dst /\ window'[r] = window[q]
    BY <1>1, <1>2
  <2>4. window[dst] = Null
    BY <2>1, <2>2, <2>3
  <2>5. forgotten' = forgotten
    BY <1>1, <2>4
  <2> QED
    BY <2>3, <2>5 DEF OwnedShown
<1>7. WindowsOwned'
  <2>1. \A w \in Windows :
          w \in shown <=> \/ \E s \in Surfaces : window[s] = w
                          \/ w \in forgotten
    BY WindowsOwnedPointwise
  <2>2. \A w \in Windows : w \in forgotten' <=> w \in forgotten \/ window[dst] = w
    BY <1>1
  <2>3. \A w \in Windows :
          (\E s \in Surfaces : window[s] = w) \/ w \in forgotten <=>
            (\E s \in Surfaces : window'[s] = w) \/ w \in forgotten'
    BY <1>1, <1>2, <2>2
  <2> QED
    BY <1>1, <1>3, <2>1, <2>3
       DEF WindowsOwned, Sdl!WindowsOwned, Sdl!TypeOK, Sdl!Valid
<1> QED
  BY <1>3, <1>4, <1>5, <1>6, <1>7

(* So does ~SdlSurface().                                                  *)
LEMMA CloseStep ==
  ASSUME SdlInv, NEW s \in Surfaces, Sdl!Destroy(s)
  PROVE  SdlInv'
<1> USE DEF SdlInv, OneInstance, FlagReleased
<1>1. /\ window[s] # Null
      /\ shown' = shown \ {window[s]}
      /\ window' = [window EXCEPT ![s] = Null]
      /\ ~existing_instance'
      /\ forgotten' = forgotten
      /\ existing_instance' = FALSE
  BY DEF Sdl!Destroy
<1>2. \A r \in Surfaces : window'[r] = Null
  BY <1>1 DEF Sdl!TypeOK, Sdl!OneInstance, Sdl!Valid
<1>3. Sdl!TypeOK'
  BY <1>1 DEF Sdl!TypeOK, OwnedShown
<1>4. Sdl!OneInstance' /\ Sdl!FlagReleased' /\ OwnedShown'
  BY <1>1, <1>2 DEF Sdl!OneInstance, Sdl!FlagReleased, Sdl!Valid, OwnedShown
<1>5. WindowsOwned'
  <2>1. \A w \in Windows :
          w \in shown <=> \/ \E r \in Surfaces : window[r] = w
                          \/ w \in forgotten
    BY WindowsOwnedPointwise
  <2>2. \A r \in Surfaces : window[r] # Null => r = s
    BY <1>1 DEF Sdl!OneInstance, Sdl!Valid
  <2>3. window[s] \notin forgotten
    BY <1>1 DEF OwnedShown
  <2>4. \A w \in Windows : w \in shown' <=> w \in forgotten
    BY <1>1, <2>1, <2>2, <2>3
  <2> QED
    BY <1>1, <1>2, <1>3, <2>4
       DEF WindowsOwned, Sdl!WindowsOwned, Sdl!TypeOK, Sdl!Valid
<1> QED
  BY <1>3, <1>4, <1>5

(* Steps that leave the SdlSurfaces alone keep it.                         *)
LEMMA SdlUnchanged == SdlInv /\ UNCHANGED sdlVars => SdlInv'
  BY DEF SdlInv, sdlVars, Sdl!TypeOK, OneInstance, Sdl!OneInstance,
     WindowsOwned, Sdl!WindowsOwned, FlagReleased, Sdl!FlagReleased,
     OwnedShown, Sdl!Valid

----------------------------------------------------------------------------
(* The program's steps, seen from either part.                             *)

(* A step of the program is one of SdlSurface, or leaves it alone.         *)
LEMMA SdlStepTaken == [AppNext]_appVars => [Sdl!Next]_(Sdl!vars)
  BY DEF AppNext, appVars, sdlVars, OpenWindow, MoveWindow, CloseWindow,
     CreateBackend, BackendSteps, Sdl!Next, Sdl!vars

(* A step of the program is one of Backend, or leaves it alone.            *)
LEMMA BackendStepTaken ==
  Sdl!TypeOK /\ [AppNext]_appVars => [Next]_vars
<1> SUFFICES ASSUME Sdl!TypeOK, [AppNext]_appVars PROVE [Next]_vars
  OBVIOUS
<1>1. ASSUME NEW s \in Surfaces, CreateBackend(s) PROVE Next
  BY <1>1 DEF CreateBackend, Sdl!TypeOK, Next
<1>2. CASE BackendSteps
  BY <1>2 DEF BackendSteps, Next
<1>3. CASE UNCHANGED vkVars
  BY <1>3 DEF vkVars, vars, call
<1> QED
  BY <1>1, <1>2, <1>3
     DEF AppNext, appVars, OpenWindow, MoveWindow, CloseWindow

(* Each step of the program keeps the accounting of windows.               *)
LEMMA SdlInvStep == SdlInv /\ [AppNext]_appVars => SdlInv'
  BY OpenStep, MoveWindowStep, CloseStep, SdlUnchanged
     DEF AppNext, appVars, OpenWindow, MoveWindow, CloseWindow, CreateBackend,
         BackendSteps

----------------------------------------------------------------------------
(* The window create() was given.                                          *)
LEMMA GivenStep ==
  ASSUME AppInv, [AppNext]_appVars
  PROVE  GivenShown'
<1> USE DEF AppInv, GivenShown, InitStages
<1>1. ASSUME UNCHANGED vkVars, pc = "idle" PROVE GivenShown'
  BY <1>1 DEF vkVars
<1>2. ASSUME NEW s \in Surfaces, CreateBackend(s) PROVE GivenShown'
  BY <1>2 DEF CreateBackend, CallCreate, SdlInv, OwnedShown, sdlVars
<1>3. CASE BackendSteps
  <2>1. shown' = shown
    BY <1>3 DEF BackendSteps, sdlVars
  <2>2. CASE InitStage
    BY <2>1, <2>2
       DEF InitStage, LoadVulkan, CreateInstance, CreateSurface, CreateDevice,
           CreatePool, ReturnBackend, InitFails, Destruct
  <2>3. CASE DestroyStage
    BY <2>1, <2>3
       DEF DestroyStage, DestroyDevice, DestroySurface, DestroyMessenger,
           DestroyInstance, Nullify, DestroyObject
  <2>4. CASE Client
    BY <2>1, <2>4
       DEF Client, DestroyBackend, Destruct, MoveBackend, AcquireHandle,
           ReleaseHandles, call
  <2> QED
    BY <1>3, <2>2, <2>3, <2>4 DEF BackendSteps
<1>4. CASE UNCHANGED appVars
  BY <1>4 DEF appVars, sdlVars, vkVars
<1> QED
  BY <1>1, <1>2, <1>3, <1>4
     DEF AppNext, OpenWindow, MoveWindow, CloseWindow

(* A VkSurfaceKHR that somebody will destroy: while nothing is under       *)
(* construction or destruction, a Backend of the program has it.           *)
LEMMA SurfaceInUse ==
  ASSUME BInv, pc = "idle", NEW id \in Ids,
         Object("surface", id) \in live \ abandoned
  PROVE  InUse(made_for[id])
<1>1. "surface" \in Kinds
  BY DEF Kinds
<1>2. self.has["surface"] = Null
  BY <1>1 DEF BInv, SelfShape, Uniform
<1>3. PICK b \in Backends : backend[b].has["surface"] = id
  BY <1>1, <1>2 DEF BInv, Accounted
<1> QED
  BY <1>3 DEF InUse

(* No stage but CreateSurface makes one, or says what it is for.           *)
LEMMA SurfaceStep ==
  ASSUME TypeOK, InitStage \/ DestroyStage \/ Client, ~CreateSurface
  PROVE  /\ made_for' = made_for
         /\ \A id \in Ids :
              Object("surface", id) \in live' \ abandoned' =>
                Object("surface", id) \in live \ abandoned
<1>1. ASSUME NEW kinds \in SUBSET (Kinds \ {"surface"}), NEW n, Store(kinds, n)
      PROVE  \A id \in Ids :
               Object("surface", id) \in live' \ abandoned' =>
                 Object("surface", id) \in live \ abandoned
  BY <1>1 DEF Store, Object
<1>2. CASE InitStage
  <2>1. ASSUME NEW id \in Ids, CreateInstance(id)
        PROVE  /\ made_for' = made_for
               /\ \A i \in Ids :
                    Object("surface", i) \in live' \ abandoned' =>
                      Object("surface", i) \in live \ abandoned
    BY <1>1, <2>1 DEF CreateInstance, Kinds
  <2>2. ASSUME CreateDevice \/ CreatePool
        PROVE  /\ made_for' = made_for
               /\ \A i \in Ids :
                    Object("surface", i) \in live' \ abandoned' =>
                      Object("surface", i) \in live \ abandoned
    BY <1>1, <2>2 DEF CreateDevice, CreatePool, Kinds
  <2>3. ASSUME UNCHANGED <<made_for, live, abandoned>>
        PROVE  /\ made_for' = made_for
               /\ \A i \in Ids :
                    Object("surface", i) \in live' \ abandoned' =>
                      Object("surface", i) \in live \ abandoned
    BY <2>3
  <2> QED
    BY <1>2, <2>1, <2>2, <2>3
       DEF InitStage, LoadVulkan, ReturnBackend, InitFails, Destruct
<1>3. CASE DestroyStage
  BY <1>3
     DEF DestroyStage, DestroyDevice, DestroySurface, DestroyMessenger,
         DestroyInstance, Nullify, DestroyObject
<1>4. CASE Client
  BY <1>4
     DEF Client, DestroyBackend, Destruct, MoveBackend, AcquireHandle,
         ReleaseHandles, call
<1> QED
  BY <1>2, <1>3, <1>4

(* No step of the program closes a window that a VkSurfaceKHR needs.       *)
LEMMA OutlivesStep ==
  ASSUME AppInv, [AppNext]_appVars
  PROVE  WindowOutlivesSurface'
<1> USE DEF AppInv, WindowOutlivesSurface
<1>1. ASSUME UNCHANGED vkVars, shown \subseteq shown'
      PROVE  WindowOutlivesSurface'
  BY <1>1 DEF vkVars
<1>2. ASSUME NEW s \in Surfaces, CloseWindow(s) PROVE WindowOutlivesSurface'
  <2>1. /\ pc = "idle" /\ ~InUse(window[s])
        /\ shown' = shown \ {window[s]}
        /\ UNCHANGED vkVars
    BY <1>2 DEF CloseWindow, Sdl!Destroy
  <2> SUFFICES ASSUME NEW id \in Ids, Object("surface", id) \in live \ abandoned
               PROVE  made_for[id] \in shown'
    BY <2>1 DEF vkVars
  <2>2. InUse(made_for[id])
    BY <2>1, SurfaceInUse
  <2> QED
    BY <2>1, <2>2
<1>3. ASSUME NEW s \in Surfaces, CreateBackend(s) PROVE WindowOutlivesSurface'
  BY <1>3 DEF CreateBackend, CallCreate, sdlVars
<1>4. ASSUME CreateSurface, UNCHANGED sdlVars PROVE WindowOutlivesSurface'
  <2> DEFINE name == self.has["instance"]
  <2>1. /\ given \in shown /\ shown' = shown
        /\ abandoned' = abandoned
        /\ live' = live \cup {Object("surface", name)}
        /\ made_for' = [made_for EXCEPT ![name] = given]
    BY <1>4 DEF CreateSurface, Store, sdlVars, GivenShown
  <2>2. /\ name \in Ids
        /\ made_for \in [Ids -> Windows \cup {Null}]
    BY <1>4, SelfNamed DEF CreateSurface, BInv, TypeOK
  <2>3. \A id \in Ids : made_for'[id] = IF id = name THEN given ELSE made_for[id]
    BY <2>1, <2>2
  <2>4. \A id \in Ids : id # name /\ Object("surface", id) \in live' =>
          Object("surface", id) \in live
    BY <2>1 DEF Object
  <2> QED
    BY <2>1, <2>3, <2>4
<1>5. ASSUME BackendSteps, ~CreateSurface PROVE WindowOutlivesSurface'
  <2>1. TypeOK /\ shown' = shown
    BY <1>5 DEF BInv, BackendSteps, sdlVars
  <2> QED
    BY <1>5, <2>1, SurfaceStep DEF BackendSteps
<1>6. CASE UNCHANGED appVars
  BY <1>1, <1>6 DEF appVars, sdlVars
<1> QED
  BY <1>1, <1>2, <1>3, <1>4, <1>5, <1>6
     DEF AppNext, OpenWindow, MoveWindow, BackendSteps, Sdl!Create, Sdl!Move

(* Initially there is nothing.                                             *)
LEMMA AppInvInit == AppInit => AppInv
<1> SUFFICES ASSUME AppInit PROVE AppInv
  OBVIOUS
<1>1. BInv /\ SdlInv
  BY BInvInit, SdlInit DEF AppInit
<1>2. GivenShown /\ WindowOutlivesSurface
  BY DEF AppInit, Init, GivenShown, WindowOutlivesSurface
<1> QED
  BY <1>1, <1>2 DEF AppInv

(* Each step of the program keeps the inductive invariant.                 *)
LEMMA AppInvStep == AppInv /\ [AppNext]_appVars => AppInv'
<1> SUFFICES ASSUME AppInv, [AppNext]_appVars PROVE AppInv'
  OBVIOUS
<1>1. [Next]_vars
  BY BackendStepTaken DEF AppInv, SdlInv
<1>2. BInv'
  BY <1>1, BInvStep DEF AppInv
<1>3. SdlInv'
  BY SdlInvStep DEF AppInv
<1> QED
  BY <1>2, <1>3, GivenStep, OutlivesStep DEF AppInv

(* The inductive invariant of the whole program.                           *)
THEOREM AppInvCorrect == AppSpec => []AppInv
  BY AppInvInit, AppInvStep, PTL DEF AppSpec

(* The program is one of SdlSurfaces and one of Backends: what is proved   *)
(* of either holds of it.                                                  *)
THEOREM CompositionCorrect == AppSpec => Sdl!Spec /\ Spec
<1>1. AppInv => Sdl!TypeOK
  BY DEF AppInv, SdlInv
<1>2. AppInit => Sdl!Init /\ Init
  BY DEF AppInit
<1> QED
  BY <1>1, <1>2, AppInvCorrect, SdlStepTaken, BackendStepTaken, PTL
     DEF AppSpec, Spec, Sdl!Spec

(* In the program, too, Backends leak nothing, share nothing, destroy in   *)
(* the right order and keep the pools of handles that clients return in    *)
(* time, whatever happens to SdlSurfaces meanwhile.                        *)
THEOREM BackendsCorrect ==
  AppSpec => [](/\ EveryObjectOwned
                /\ SoleOwner
                /\ InstanceOutlives
                /\ HandlesStayValid)
  BY CompositionCorrect, EveryObjectOwnedCorrect, SoleOwnerCorrect,
     InstanceOutlivesCorrect, HandlesStayValidCorrect, PTL

(* Every reachable state of the program is well typed.                     *)
THEOREM AppTypeCorrect == AppSpec => []AppTypeOK
<1>1. AppInv => AppTypeOK
  BY DEF AppInv, SdlInv, BInv, AppTypeOK
<1> QED
  BY <1>1, AppInvCorrect, PTL

(* At most one SdlSurface has a window, and while one has, no other can be *)
(* created.                                                                *)
THEOREM OneInstanceCorrect == AppSpec => []OneInstance
<1>1. AppInv => OneInstance
  BY DEF AppInv, SdlInv
<1> QED
  BY <1>1, AppInvCorrect, PTL

(* No window is lost but those a move assignment overwrites.               *)
THEOREM WindowsOwnedCorrect == AppSpec => []WindowsOwned
<1>1. AppInv => WindowsOwned
  BY DEF AppInv, SdlInv
<1> QED
  BY <1>1, AppInvCorrect, PTL

(* The static flag is down when the instance is gone, unless its window    *)
(* was overwritten.                                                        *)
THEOREM FlagReleasedCorrect == AppSpec => []FlagReleased
<1>1. AppInv => FlagReleased
  BY DEF AppInv, SdlInv
<1> QED
  BY <1>1, AppInvCorrect, PTL

(* A VkSurfaceKHR has its window as long as it is there, also while it is  *)
(* being made or a failed create() undoes it.                              *)
THEOREM WindowOutlivesSurfaceCorrect == AppSpec => []WindowOutlivesSurface
<1>1. AppInv => WindowOutlivesSurface
  BY DEF AppInv
<1> QED
  BY <1>1, AppInvCorrect, PTL
=============================================================================
