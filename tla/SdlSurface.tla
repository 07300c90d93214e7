----------------------------- MODULE SdlSurface -----------------------------
(***************************************************************************)
(* surface/sdl_surface.cpp: the SdlSurface objects of a program and the    *)
(* flag that lets only one of them own a window.                           *)
(*                                                                         *)
(* valid_instance and window are set and cleared together, so an object is *)
(* the window it owns, or Null. A window whose last owner was overwritten  *)
(* is kept in forgotten.                                                   *)
(***************************************************************************)

CONSTANTS
  Surfaces,            (* the SdlSurface objects of the program            *)
  Windows,             (* SDL windows                                      *)
  Null                 (* no window                                        *)

VARIABLES
  existing_instance,   (* the static flag of that name                     *)
  window,              (* what each SdlSurface owns                        *)
  shown,               (* the windows SDL has                              *)
  forgotten            (* those no SdlSurface owns any more                *)

vars == <<existing_instance, window, shown, forgotten>>

Valid == {s \in Surfaces : window[s] # Null}

Init ==
  /\ existing_instance = FALSE
  /\ window = [s \in Surfaces |-> Null]
  /\ shown = {}
  /\ forgotten = {}

(* create() and init(). When there is an instance, or SDL_Init or          *)
(* SDL_CreateWindow fails, an error is returned and nothing has changed.   *)
Create_FlagNotTested(s, w) ==
  /\ window[s] = Null
  /\ w \notin shown
  /\ window' = [window EXCEPT ![s] = w]
  /\ shown' = shown \cup {w}
  /\ existing_instance' = TRUE
  /\ UNCHANGED forgotten

Create(s, w) ==
  /\ ~existing_instance
  /\ window[s] = Null
  /\ w \notin shown
  /\ window' = [window EXCEPT ![s] = w]
  /\ shown' = shown \cup {w}
  /\ existing_instance' = TRUE
  /\ UNCHANGED forgotten

(* The move constructor and the move assignment: a copy, then nullify() of *)
(* the source. What the destination owned is overwritten, and the flag is  *)
(* left alone.                                                             *)
Move_SourceKept(dst, src) ==
  /\ dst # src
  /\ window' = [window EXCEPT ![dst] = window[src]]
  /\ forgotten' = forgotten \cup ({window[dst]} \ {Null})
  /\ UNCHANGED <<existing_instance, shown>>

Move(dst, src) ==
  /\ dst # src
  /\ window' = [window EXCEPT ![dst] = window[src], ![src] = Null]
  /\ forgotten' = forgotten \cup ({window[dst]} \ {Null})
  /\ UNCHANGED <<existing_instance, shown>>

(* ~SdlSurface()                                                           *)
Destroy_FlagKept(s) ==
  /\ window[s] # Null
  /\ shown' = shown \ {window[s]}
  /\ window' = [window EXCEPT ![s] = Null]
  /\ UNCHANGED <<existing_instance, forgotten>>

Destroy(s) ==
  /\ window[s] # Null
  /\ shown' = shown \ {window[s]}
  /\ window' = [window EXCEPT ![s] = Null]
  /\ existing_instance' = FALSE
  /\ UNCHANGED forgotten

Next ==
  \/ \E s \in Surfaces, w \in Windows : Create(s, w)
  \/ \E dst, src \in Surfaces : Move(dst, src)
  \/ \E s \in Surfaces : Destroy(s)

Spec == Init /\ [][Next]_vars

----------------------------------------------------------------------------
(* The variables have their types, and a forgotten window is still shown:  *)
(* nobody is left to destroy it.                                           *)
TypeOK ==
  /\ existing_instance \in BOOLEAN
  /\ window \in [Surfaces -> Windows \cup {Null}]
  /\ shown \subseteq Windows
  /\ forgotten \subseteq shown

(* Of all SdlSurfaces at most one owns a window, and the flag is then set: *)
(* no second one can be created next to it.                                *)
OneInstance ==
  /\ \A s, r \in Valid : s = r
  /\ Valid # {} => existing_instance

(* Every window SDL has belongs to the one SdlSurface, or was forgotten.   *)
WindowsOwned == shown = {window[s] : s \in Valid} \cup forgotten

(* The flag is down again when the instance is gone, so that another can   *)
(* be created, unless its window was forgotten.                            *)
FlagReleased == Valid = {} /\ forgotten = {} => ~existing_instance

(* create() reports "There already is an active instance of SdlSurface."   *)
(* only when there is one.                                                 *)
RefusalTellsTruth == existing_instance => Valid # {}
=============================================================================
