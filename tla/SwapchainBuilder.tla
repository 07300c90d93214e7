-------------------------- MODULE SwapchainBuilder --------------------------
(***************************************************************************)
(* backends/vulkan/swapchain_builder.hpp and swapchain.hpp: how a          *)
(* Swapchain is put together from objects the driver may refuse at every   *)
(* step, how a failed build undoes what it made, and what moves and        *)
(* destruction do to the objects afterwards.                               *)
(*                                                                         *)
(* The driver is seen through the objects that exist: each vkCreate call   *)
(* succeeds, and adds one, or fails. VkImages come and go with their       *)
(* VkSwapchainKHR and are not counted. The builder's setters are           *)
(* abstracted to the one whose argument the code checks.                   *)
(***************************************************************************)
EXTENDS Naturals, Sequences

CONSTANTS
  Builds,        (* names for the objects of one build                     *)
  Places,        (* the Swapchain objects of the client                    *)
  MaxImages,     (* most images a swapchain gets                           *)
  SurfaceMin,    (* VkSurfaceCapabilitiesKHR::minImageCount                *)
  Null           (* VK_NULL_HANDLE; a moved-from or unborn Swapchain       *)

Kinds == {"swapchain", "image", "view", "render_finished",
          "image_available", "render_fence"}

Objects == [kind : Kinds, build : Builds, image : 0..MaxImages]

SwapchainImage ==
  [image : Objects, view : Objects, render_finished : Objects]

Swapchains ==
  [swapchain : Objects, images : Seq(SwapchainImage),
   image_available : Objects, render_fence : Objects]

(* VK_NULL_HANDLE is the handle of no object.                              *)
ASSUME BuilderAssumption ==
  /\ MaxImages \in Nat
  /\ SurfaceMin \in 1..MaxImages
  /\ Null \notin Builds \cup Objects \cup Swapchains

VARIABLES
  minImageCount,     (* infos.minImageCount                                *)
  pc,                (* the vk call build() is about to make, or "idle"    *)
  build,             (* the build that runs, or ran last                   *)
  image_count,       (* local of build(): the number of images             *)
  images,            (* local of build(): the SwapchainImages so far       *)
  view,              (* local of build(): this image's view                *)
  image_available,   (* local of build(): the semaphore                    *)
  place,             (* what each Swapchain of the client holds, or Null   *)
  live,              (* the driver's objects                               *)
  image_total,       (* how many images each build's VkSwapchainKHR has    *)
  abandoned,         (* those a move assignment lost the last handle of    *)
  invalid            (* has an object been destroyed that does not exist?  *)

locals == <<build, image_count, images, view, image_available>>
driver == <<live, image_total, invalid>>
vars == <<minImageCount, pc, locals, place, driver, abandoned>>

Object(kind, b, i) == [kind |-> kind, build |-> b, image |-> i]

VkSwapchain(b) == Object("swapchain", b, 0)
VkImage(b, i) == Object("image", b, i)
ImageView(b, i) == Object("view", b, i)
RenderFinished(b, i) == Object("render_finished", b, i)
ImageAvailable(b) == Object("image_available", b, 0)
RenderFence(b) == Object("render_fence", b, 0)

(* The objects a list of SwapchainImages refers to. Destroying a null      *)
(* handle does nothing.                                                    *)
ObjectsOf(img) == {img.view, img.render_finished} \ {Null}

ObjectsOfAll(imgs) == UNION {ObjectsOf(imgs[i]) : i \in DOMAIN imgs}

NamedTwice(imgs) ==
  \E i, j \in DOMAIN imgs :
    i # j /\ ObjectsOf(imgs[i]) \intersect ObjectsOf(imgs[j]) # {}

(* The objects of a Swapchain.                                             *)
Owned(s) ==
  IF s = Null THEN {}
  ELSE {s.swapchain, s.image_available, s.render_fence} \cup
         ObjectsOfAll(s.images)

----------------------------------------------------------------------------
(* The driver.                                                             *)

Create(o) ==
  /\ live' = live \cup {o}
  /\ UNCHANGED <<image_total, invalid>>

(* vkDestroySwapchainKHR, then each image's view and semaphore, then the   *)
(* rest; the swapchain is the last in build_fallback(). One thread does it *)
(* without a return in between, so it is one step here, and what follows   *)
(* does not depend on the order.                                           *)
Destroy(imgs, others) ==
  LET gone == ObjectsOfAll(imgs) \cup (others \ {Null})
  IN  /\ live' = live \ gone
      /\ invalid' = (invalid \/ ~(gone \subseteq live) \/ NamedTwice(imgs))
      /\ UNCHANGED image_total

(* A surface that has a swapchain gets no second one: the builder never    *)
(* names an oldSwapchain.                                                  *)
WindowFree == \A o \in live : o.kind # "swapchain"

----------------------------------------------------------------------------
Init ==
  /\ minImageCount = SurfaceMin
  /\ pc = "idle"
  /\ build = Null
  /\ image_count = 0
  /\ images = <<>>
  /\ view = Null
  /\ image_available = Null
  /\ place = [p \in Places |-> Null]
  /\ live = {}
  /\ image_total = [b \in Builds |-> 0]
  /\ abandoned = {}
  /\ invalid = FALSE

(* set_min_image_count(): a count below the surface's minimum throws and   *)
(* changes nothing.                                                        *)
SetMinImageCount(count) ==
  /\ pc = "idle"
  /\ count >= SurfaceMin
  /\ minImageCount' = count
  /\ UNCHANGED <<pc, locals, place, driver, abandoned>>

(* reset_to_default(): DEFAULT_CREATE_INFOS asks for no image at all.      *)
ResetToDefault ==
  /\ pc = "idle"
  /\ minImageCount' = 0
  /\ UNCHANGED <<pc, locals, place, driver, abandoned>>

(* vkCreateSwapchainKHR: the driver makes n images, at least as many as    *)
(* are asked for. When it fails build() returns the error and nothing has  *)
(* changed.                                                                *)
CreateSwapchain(b, n) ==
  /\ pc = "idle"
  /\ WindowFree
  /\ \A o \in live : o.build # b
  /\ n >= minImageCount
  /\ live' = live \cup {VkSwapchain(b)}
  /\ image_total' = [image_total EXCEPT ![b] = n]
  /\ build' = b
  /\ images' = <<>>
  /\ view' = Null
  /\ image_available' = Null
  /\ image_count' = 0
  /\ pc' = "count"
  /\ UNCHANGED <<minImageCount, place, invalid, abandoned>>

(* build_fallback() and the return of the error.                           *)
Fallback(imgs, available) ==
  /\ Destroy(imgs, {available, VkSwapchain(build)})
  /\ pc' = "idle"
  /\ UNCHANGED <<minImageCount, locals, place, abandoned>>

(* vkGetSwapchainImagesKHR, for the number of images.                      *)
CountImages ==
  /\ pc = "count"
  /\ image_count' = image_total[build]
  /\ pc' = "images"
  /\ UNCHANGED <<minImageCount, build, images, view, image_available, place,
                 driver, abandoned>>

(* vkGetSwapchainImagesKHR, for the images.                                *)
GetImages ==
  /\ pc = "images"
  /\ pc' = "view"
  /\ UNCHANGED <<minImageCount, locals, place, driver, abandoned>>

ImagesRefused ==
  /\ pc \in {"count", "images"}
  /\ Fallback(<<>>, Null)

(* vkCreateImageView, for the image the loop is at.                        *)
Next_i == Len(images) + 1

CreateView ==
  /\ pc = "view"
  /\ Create(ImageView(build, Next_i))
  /\ view' = ImageView(build, Next_i)
  /\ pc' = "semaphore"
  /\ UNCHANGED <<minImageCount, build, image_count, images, image_available,
                 place, abandoned>>

ViewRefused ==
  /\ pc = "view"
  /\ Fallback(images, Null)

(* vkCreateSemaphore, for that image, whose handles are then kept.         *)
CreateSemaphore_OneMore ==
  /\ pc = "semaphore"
  /\ Create(RenderFinished(build, Next_i))
  /\ images' = Append(images,
                 [image |-> VkImage(build, Next_i),
                  view |-> view,
                  render_finished |-> RenderFinished(build, Next_i)])
  /\ pc' = IF Len(images') > image_count THEN "available" ELSE "view"
  /\ UNCHANGED <<minImageCount, build, image_count, view, image_available,
                 place, abandoned>>

CreateSemaphore_OneLess ==
  /\ pc = "semaphore"
  /\ Create(RenderFinished(build, Next_i))
  /\ images' = Append(images,
                 [image |-> VkImage(build, Next_i),
                  view |-> view,
                  render_finished |-> RenderFinished(build, Next_i)])
  /\ pc' = IF Len(images') + 1 >= image_count THEN "available" ELSE "view"
  /\ UNCHANGED <<minImageCount, build, image_count, view, image_available,
                 place, abandoned>>

CreateSemaphore ==
  /\ pc = "semaphore"
  /\ Create(RenderFinished(build, Next_i))
  /\ images' = Append(images,
                 [image |-> VkImage(build, Next_i),
                  view |-> view,
                  render_finished |-> RenderFinished(build, Next_i)])
  /\ pc' = IF Len(images') = image_count THEN "available" ELSE "view"
  /\ UNCHANGED <<minImageCount, build, image_count, view, image_available,
                 place, abandoned>>

(* The view of this image is not in images yet: build() puts it there for  *)
(* the fallback to find.                                                   *)
SemaphoreRefused_ViewForgotten ==
  /\ pc = "semaphore"
  /\ Fallback(images, Null)

SemaphoreRefused ==
  /\ pc = "semaphore"
  /\ Fallback(Append(images, [image |-> Null, view |-> view,
                              render_finished |-> Null]), Null)

(* vkCreateSemaphore, for image_available.                                 *)
CreateImageAvailable ==
  /\ pc = "available"
  /\ Create(ImageAvailable(build))
  /\ image_available' = ImageAvailable(build)
  /\ pc' = "fence"
  /\ UNCHANGED <<minImageCount, build, image_count, images, view, place,
                 abandoned>>

ImageAvailableRefused ==
  /\ pc = "available"
  /\ Fallback(images, Null)

(* vkCreateFence, and the Swapchain is returned into p.                    *)
CreateFence(p) ==
  /\ pc = "fence"
  /\ place[p] = Null
  /\ Create(RenderFence(build))
  /\ place' = [place EXCEPT ![p] =
                 [swapchain |-> VkSwapchain(build),
                  images |-> images,
                  image_available |-> image_available,
                  render_fence |-> RenderFence(build)]]
  /\ pc' = "idle"
  /\ UNCHANGED <<minImageCount, locals, abandoned>>

FenceRefused ==
  /\ pc = "fence"
  /\ Fallback(images, image_available)

----------------------------------------------------------------------------
(* Swapchain's move constructor and move assignment: the source is         *)
(* nullified; a destination that owned objects forgets them.               *)
MoveSwapchain_SourceKept(dst, src) ==
  /\ pc = "idle"
  /\ dst # src
  /\ abandoned' = abandoned \cup Owned(place[dst])
  /\ place' = [place EXCEPT ![dst] = place[src]]
  /\ UNCHANGED <<minImageCount, pc, locals, driver>>

MoveSwapchain(dst, src) ==
  /\ pc = "idle"
  /\ dst # src
  /\ abandoned' = abandoned \cup Owned(place[dst])
  /\ place' = [place EXCEPT ![dst] = place[src], ![src] = Null]
  /\ UNCHANGED <<minImageCount, pc, locals, driver>>

(* ~Swapchain().                                                           *)
DestroySwapchain(p) ==
  /\ pc = "idle"
  /\ place[p] # Null
  /\ Destroy(place[p].images,
             Owned(place[p]) \ ObjectsOfAll(place[p].images))
  /\ place' = [place EXCEPT ![p] = Null]
  /\ UNCHANGED <<minImageCount, pc, locals, abandoned>>

BuildStep ==
  \/ \E b \in Builds, n \in 1..MaxImages : CreateSwapchain(b, n)
  \/ CountImages
  \/ GetImages
  \/ ImagesRefused
  \/ CreateView
  \/ ViewRefused
  \/ CreateSemaphore
  \/ SemaphoreRefused
  \/ CreateImageAvailable
  \/ ImageAvailableRefused
  \/ \E p \in Places : CreateFence(p)
  \/ FenceRefused

Next ==
  \/ BuildStep
  \/ \E count \in 0..MaxImages : SetMinImageCount(count)
  \/ ResetToDefault
  \/ \E dst, src \in Places : MoveSwapchain(dst, src)
  \/ \E p \in Places : DestroySwapchain(p)

Spec == Init /\ [][Next]_vars

----------------------------------------------------------------------------
(* The variables have their types, and the loop never runs past the images *)
(* the driver reported.                                                    *)
TypeOK ==
  /\ minImageCount \in 0..MaxImages
  /\ pc \in {"idle", "count", "images", "view", "semaphore", "available",
             "fence"}
  /\ build \in Builds \cup {Null}
  /\ pc # "idle" => build # Null
  /\ image_count \in 0..MaxImages
  /\ images \in Seq(SwapchainImage)
  /\ Len(images) <= image_count
  /\ {view, image_available} \subseteq Objects \cup {Null}
  /\ place \in [Places -> Swapchains \cup {Null}]
  /\ live \subseteq Objects
  /\ image_total \in [Builds -> 0..MaxImages]
  /\ abandoned \subseteq Objects
  /\ invalid \in BOOLEAN

(* The objects the build that is running has made so far.                  *)
InProgress ==
  IF pc = "idle" THEN {}
  ELSE {VkSwapchain(build)} \cup ObjectsOfAll(images) \cup
         (IF pc = "semaphore" THEN {view} ELSE {}) \cup
         (IF pc = "fence" THEN {image_available} ELSE {})

(* At every point, of a build or between builds, every object of the       *)
(* driver is reachable from the build that runs or from a Swapchain, or    *)
(* was lost to a move assignment: a build that fails, wherever it fails,   *)
(* leaves nothing behind.                                                  *)
EveryObjectOwned ==
  live = InProgress \cup abandoned \cup UNION {Owned(place[p]) : p \in Places}

(* No object is destroyed twice, or after it is gone.                      *)
NoInvalidDestroy == ~invalid

(* A Swapchain the client has got is whole: it has every image of its      *)
(* VkSwapchainKHR, at its place, and for each image its own view and its   *)
(* own semaphore; all its objects exist.                                   *)
Complete(s) ==
  /\ s.images # <<>>
  /\ Len(s.images) = image_total[s.swapchain.build]
  /\ \A i \in DOMAIN s.images :
       /\ s.images[i].image = VkImage(s.swapchain.build, i)
       /\ s.images[i].view = ImageView(s.swapchain.build, i)
       /\ s.images[i].render_finished = RenderFinished(s.swapchain.build, i)
  /\ Owned(s) \subseteq live

SwapchainsComplete ==
  \A p \in Places : place[p] # Null => Complete(place[p])

(* No two Swapchains share an object.                                      *)
SwapchainsDisjoint ==
  \A p, q \in Places :
    p # q => Owned(place[p]) \intersect Owned(place[q]) = {}

(* What the builder will ask for is what set_min_image_count() insists on: *)
(* at least VkSurfaceCapabilitiesKHR::minImageCount images.                *)
MinImageCountAllowed == minImageCount >= SurfaceMin
=============================================================================
