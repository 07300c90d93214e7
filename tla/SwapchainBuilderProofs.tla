----------------------- MODULE SwapchainBuilderProofs -----------------------
(***************************************************************************)
(* What build(), moves and destruction do to a Swapchain's objects, for    *)
(* any number of images, of Swapchains and of builds.                      *)
(*                                                                         *)
(* The inductive invariant, SInv, says what build() has made before each   *)
(* of its calls (BuildSoFar), what each Swapchain is made of (PlacesMade), *)
(* and that the objects of the running build, of each Swapchain and those  *)
(* lost are of different builds (BuildsApart): every object carries the    *)
(* name of its build, so that no two of them share one.                    *)
(***************************************************************************)
EXTENDS SwapchainBuilder, SequenceTheorems, TLAPS

USE BuilderAssumption

----------------------------------------------------------------------------
(* The list holds the images of build b in order, each with its own view   *)
(* and semaphore.                                                          *)
ImagesOf(imgs, b) ==
  \A i \in DOMAIN imgs :
    /\ imgs[i].image = VkImage(b, i)
    /\ imgs[i].view = ImageView(b, i)
    /\ imgs[i].render_finished = RenderFinished(b, i)

(* The locals of build() before each of its calls.                         *)
BuildSoFar ==
  /\ ImagesOf(images, build)
  /\ pc # "idle" => image_total[build] > 0
  /\ pc \notin {"idle", "count"} => image_count = image_total[build]
  /\ pc \in {"count", "images"} => images = <<>>
  /\ pc \in {"view", "semaphore"} => Len(images) < image_count
  /\ pc = "semaphore" => view = ImageView(build, Next_i)
  /\ pc \in {"available", "fence"} => Len(images) = image_count
  /\ pc = "fence" => image_available = ImageAvailable(build)

(* What CreateFence(p) makes of the objects of build b.                    *)
MadeOf(s, b) ==
  /\ s.swapchain = VkSwapchain(b)
  /\ s.images # <<>>
  /\ Len(s.images) = image_total[b]
  /\ ImagesOf(s.images, b)
  /\ s.image_available = ImageAvailable(b)
  /\ s.render_fence = RenderFence(b)

BuildOf(p) == place[p].swapchain.build

PlacesMade ==
  \A p \in Places : place[p] # Null => MadeOf(place[p], BuildOf(p))

BuildsApart ==
  /\ \A p, q \in Places :
       place[p] # Null /\ place[q] # Null /\ BuildOf(p) = BuildOf(q) => p = q
  /\ \A p \in Places : place[p] # Null /\ pc # "idle" => BuildOf(p) # build
  /\ \A o \in abandoned :
       /\ pc # "idle" => o.build # build
       /\ \A p \in Places : place[p] # Null => o.build # BuildOf(p)

SInv ==
  /\ TypeOK
  /\ BuildSoFar
  /\ PlacesMade
  /\ BuildsApart
  /\ EveryObjectOwned
  /\ NoInvalidDestroy

----------------------------------------------------------------------------
(* Objects and lists of them.                                              *)

(* Handles of different kinds, or of different images, differ.             *)
LEMMA Handles ==
  ASSUME NEW b \in Builds
  PROVE  /\ VkSwapchain(b) \in Objects /\ VkSwapchain(b).build = b
         /\ ImageAvailable(b) \in Objects /\ ImageAvailable(b).build = b
         /\ RenderFence(b) \in Objects /\ RenderFence(b).build = b
         /\ \A i \in 1..MaxImages :
              /\ VkImage(b, i) \in Objects
              /\ ImageView(b, i) \in Objects
              /\ RenderFinished(b, i) \in Objects
BY DEF VkSwapchain, VkImage, ImageView, RenderFinished, ImageAvailable,
   RenderFence, Object, Objects, Kinds

(* The handles of an image's objects tell build, kind and position.        *)
LEMMA ImageHandles ==
  ASSUME NEW b, NEW i, NEW j
  PROVE  /\ ImageView(b, i).build = b
         /\ RenderFinished(b, i).build = b
         /\ ImageView(b, i) # RenderFinished(b, j)
         /\ ImageView(b, i) = ImageView(b, j) => i = j
         /\ RenderFinished(b, i) = RenderFinished(b, j) => i = j
<1>1. /\ ImageView(b, i).kind = "view" /\ ImageView(b, i).image = i
      /\ RenderFinished(b, i).image = i
      /\ ImageView(b, j).image = j /\ RenderFinished(b, j).image = j
      /\ RenderFinished(b, j).kind = "render_finished"
      /\ ImageView(b, i).build = b
      /\ RenderFinished(b, i).build = b
  BY DEF ImageView, RenderFinished, Object
<1>2. ImageView(b, i) # RenderFinished(b, j)
  BY <1>1
<1>3. ImageView(b, i) = ImageView(b, j) => i = j
  BY <1>1
<1>4. RenderFinished(b, i) = RenderFinished(b, j) => i = j
  BY <1>1
<1> QED
  BY <1>1, <1>2, <1>3, <1>4

(* The objects of one image of a build.                                    *)
LEMMA ObjectsOfOne ==
  ASSUME NEW b, NEW s \in Seq(SwapchainImage), ImagesOf(s, b),
         NEW i \in DOMAIN s
  PROVE  /\ ObjectsOf(s[i]) = {ImageView(b, i), RenderFinished(b, i)}
         /\ ObjectsOf(s[i]) \subseteq Objects
<1>1. s[i] \in SwapchainImage
  OBVIOUS
<1>2. s[i].view \in Objects /\ s[i].render_finished \in Objects
  BY <1>1 DEF SwapchainImage
<1>3. s[i].view = ImageView(b, i) /\ s[i].render_finished = RenderFinished(b, i)
  BY DEF ImagesOf
<1>4. s[i].view # Null /\ s[i].render_finished # Null
  BY <1>2
<1> QED
  BY <1>2, <1>3, <1>4 DEF ObjectsOf

(* The objects of the images of a build are of that build, each once.      *)
LEMMA ObjectsOfImages ==
  ASSUME NEW b, NEW s \in Seq(SwapchainImage), ImagesOf(s, b)
  PROVE  /\ \A o \in ObjectsOfAll(s) : o \in Objects /\ o.build = b
         /\ ~NamedTwice(s)
<1>1. ASSUME NEW o \in ObjectsOfAll(s) PROVE o \in Objects /\ o.build = b
  <2>1. PICK i \in DOMAIN s : o \in ObjectsOf(s[i])
    BY DEF ObjectsOfAll
  <2> QED
    BY <2>1, ObjectsOfOne, ImageHandles
<1>2. ASSUME NEW i \in DOMAIN s, NEW j \in DOMAIN s, i # j
      PROVE  ObjectsOf(s[i]) \intersect ObjectsOf(s[j]) = {}
  BY <1>2, ObjectsOfOne, ImageHandles
<1> QED
  BY <1>1, <1>2 DEF NamedTwice

(* One more image at the end of the list.                                  *)
LEMMA OneMore ==
  ASSUME NEW S, NEW s \in Seq(S), NEW img
  PROVE  /\ DOMAIN Append(s, img) = DOMAIN s \cup {Len(s) + 1}
         /\ Len(s) + 1 \notin DOMAIN s
         /\ \A i \in DOMAIN s : Append(s, img)[i] = s[i]
         /\ Append(s, img)[Len(s) + 1] = img
         /\ ObjectsOfAll(Append(s, img)) = ObjectsOfAll(s) \cup ObjectsOf(img)
<1> DEFINE t == Append(s, img)
<1>1. /\ Len(s) \in Nat /\ DOMAIN s = 1..Len(s)
      /\ s \in Seq(S \cup {img}) /\ img \in S \cup {img}
  OBVIOUS
<1>2. /\ t \in Seq(S \cup {img}) /\ Len(t) = Len(s) + 1
      /\ \A i \in 1..Len(s) : t[i] = s[i]
      /\ t[Len(s) + 1] = img
  BY <1>1, AppendProperties
<1> HIDE DEF t
<1>3. DOMAIN t = DOMAIN s \cup {Len(s) + 1}
  BY <1>1, <1>2
<1>4. Len(s) + 1 \notin DOMAIN s
  BY <1>1
<1>5. ObjectsOfAll(t) = ObjectsOfAll(s) \cup ObjectsOf(img)
  <2>1. ASSUME NEW o \in ObjectsOfAll(t)
        PROVE  o \in ObjectsOfAll(s) \cup ObjectsOf(img)
    BY <1>1, <1>2, <1>3 DEF ObjectsOfAll
  <2>2. ASSUME NEW o \in ObjectsOfAll(s) PROVE o \in ObjectsOfAll(t)
    BY <1>1, <1>2, <1>3 DEF ObjectsOfAll
  <2>3. ASSUME NEW o \in ObjectsOf(img) PROVE o \in ObjectsOfAll(t)
    BY <1>2, <1>3 DEF ObjectsOfAll
  <2> QED
    BY <2>1, <2>2, <2>3
<1> QED
  BY <1>1, <1>2, <1>3, <1>4, <1>5 DEF t

----------------------------------------------------------------------------
(* Whose objects are whose.                                                *)

(* What a Swapchain of the client owns.                                    *)
LEMMA PlaceFacts ==
  ASSUME SInv, NEW p \in Places, place[p] # Null
  PROVE  /\ place[p] \in Swapchains
         /\ BuildOf(p) \in Builds
         /\ MadeOf(place[p], BuildOf(p))
         /\ place[p].images \in Seq(SwapchainImage)
         /\ \A o \in Owned(place[p]) : o \in Objects /\ o.build = BuildOf(p)
         /\ VkSwapchain(BuildOf(p)) \in Owned(place[p])
<1>1. place[p] \in Swapchains
  BY DEF SInv, TypeOK
<1>2. /\ place[p].swapchain \in Objects
      /\ place[p].images \in Seq(SwapchainImage)
  BY <1>1 DEF Swapchains
<1>3. BuildOf(p) \in Builds
  BY <1>2 DEF BuildOf, Objects
<1>4. MadeOf(place[p], BuildOf(p))
  BY DEF SInv, PlacesMade
<1>5. /\ place[p].swapchain = VkSwapchain(BuildOf(p))
      /\ place[p].image_available = ImageAvailable(BuildOf(p))
      /\ place[p].render_fence = RenderFence(BuildOf(p))
      /\ ImagesOf(place[p].images, BuildOf(p))
  BY <1>4 DEF MadeOf
<1>6. \A o \in ObjectsOfAll(place[p].images) :
        o \in Objects /\ o.build = BuildOf(p)
  BY <1>2, <1>5, ObjectsOfImages
<1>7. Owned(place[p]) = {VkSwapchain(BuildOf(p)), ImageAvailable(BuildOf(p)),
                         RenderFence(BuildOf(p))} \cup
                          ObjectsOfAll(place[p].images)
  BY <1>5 DEF Owned
<1> QED
  BY <1>1, <1>2, <1>3, <1>4, <1>6, <1>7, Handles

(* The objects of the running build.                                       *)
LEMMA InProgressFacts ==
  ASSUME SInv, pc # "idle"
  PROVE  /\ build \in Builds
         /\ \A o \in ObjectsOfAll(images) : o \in Objects /\ o.build = build
         /\ ~NamedTwice(images)
         /\ \A o \in InProgress : o \in Objects /\ o.build = build
         /\ \A o \in abandoned : o.build # build
         /\ \A p \in Places : \A o \in Owned(place[p]) : o.build # build
<1>1. build \in Builds /\ images \in Seq(SwapchainImage) /\ ImagesOf(images, build)
  BY DEF SInv, TypeOK, BuildSoFar
<1>2. /\ \A o \in ObjectsOfAll(images) : o \in Objects /\ o.build = build
      /\ ~NamedTwice(images)
  BY <1>1, ObjectsOfImages
<1>3. ASSUME NEW o \in InProgress PROVE o \in Objects /\ o.build = build
  <2>1. CASE o = VkSwapchain(build)
    BY <1>1, <2>1, Handles
  <2>2. CASE o \in ObjectsOfAll(images)
    BY <1>2, <2>2
  <2>3. CASE pc = "semaphore" /\ o = view
    <3>1. o = ImageView(build, Next_i)
      BY <2>3 DEF SInv, BuildSoFar
    <3>2. Next_i \in 1..MaxImages
      BY <2>3 DEF SInv, BuildSoFar, TypeOK, Next_i
    <3> QED
      BY <1>1, <3>1, <3>2, Handles, ImageHandles
  <2>4. CASE pc = "fence" /\ o = image_available
    <3>1. o = ImageAvailable(build)
      BY <2>4 DEF SInv, BuildSoFar
    <3> QED
      BY <1>1, <3>1, Handles
  <2> QED
    BY <2>1, <2>2, <2>3, <2>4 DEF InProgress
<1>4. \A o \in abandoned : o.build # build
  BY DEF SInv, BuildsApart
<1>5. ASSUME NEW p \in Places, NEW o \in Owned(place[p]) PROVE o.build # build
  <2>1. place[p] # Null
    BY <1>5 DEF Owned
  <2> QED
    BY <2>1, PlaceFacts DEF SInv, BuildsApart
<1> QED
  BY <1>1, <1>2, <1>3, <1>4, <1>5

----------------------------------------------------------------------------
(* The steps of build().                                                   *)

(* A step of a build that goes on and makes the objects new, or none.      *)
LEMMA GoesOn ==
  ASSUME SInv, pc # "idle", pc' # "idle",
         UNCHANGED <<build, image_total, place, abandoned>>,
         NEW new, live' = live \cup new, invalid' = invalid,
         InProgress' = InProgress \cup new,
         TypeOK', BuildSoFar'
  PROVE  SInv'
<1>1. PlacesMade' /\ BuildsApart'
  BY DEF SInv, PlacesMade, MadeOf, BuildsApart, BuildOf
<1>2. EveryObjectOwned'
  BY DEF SInv, EveryObjectOwned
<1> QED
  BY <1>1, <1>2 DEF SInv, NoInvalidDestroy

(* A build that fails and destroys what it has made.                       *)
LEMMA FallbackStep ==
  ASSUME SInv, pc # "idle", NEW imgs, NEW available,
         Fallback(imgs, available),
         ObjectsOfAll(imgs) \cup ({available, VkSwapchain(build)} \ {Null})
           = InProgress,
         ~NamedTwice(imgs)
  PROVE  SInv'
<1>1. /\ live' = live \ InProgress
      /\ invalid' = (invalid \/ ~(InProgress \subseteq live))
      /\ pc' = "idle"
      /\ UNCHANGED <<minImageCount, locals, image_total, place, abandoned>>
  BY DEF Fallback, Destroy
<1>2. InProgress \subseteq live
  BY DEF SInv, EveryObjectOwned
<1>3. TypeOK'
  BY <1>1, <1>2 DEF SInv, TypeOK, locals
<1>4. BuildSoFar'
  BY <1>1 DEF SInv, BuildSoFar, locals
<1>5. PlacesMade' /\ BuildsApart'
  BY <1>1 DEF SInv, PlacesMade, MadeOf, BuildsApart, BuildOf
<1>6. EveryObjectOwned'
  <2>1. InProgress' = {}
    BY <1>1 DEF InProgress
  <2>2. \A o \in InProgress : /\ o \notin abandoned
                              /\ \A p \in Places : o \notin Owned(place[p])
    BY InProgressFacts
  <2>3. live' = abandoned \cup UNION {Owned(place[p]) : p \in Places}
    BY <1>1, <2>2 DEF SInv, EveryObjectOwned
  <2> QED
    BY <1>1, <2>1, <2>3 DEF EveryObjectOwned
<1>7. NoInvalidDestroy'
  BY <1>1, <1>2 DEF SInv, NoInvalidDestroy
<1> QED
  BY <1>3, <1>4, <1>5, <1>6, <1>7 DEF SInv

LEMMA CreateSwapchainStep ==
  ASSUME SInv, NEW b \in Builds, NEW n \in 1..MaxImages, CreateSwapchain(b, n)
  PROVE  SInv'
<1>1. /\ pc = "idle" /\ pc' = "count"
      /\ \A o \in live : o.build # b
      /\ live' = live \cup {VkSwapchain(b)} /\ invalid' = invalid
      /\ build' = b /\ images' = <<>> /\ view' = Null /\ image_available' = Null
      /\ image_count' = 0
      /\ image_total' = [image_total EXCEPT ![b] = n]
      /\ UNCHANGED <<minImageCount, place, abandoned>>
  BY DEF CreateSwapchain
<1>2. TypeOK'
  BY <1>1, Handles DEF SInv, TypeOK
<1>3. BuildSoFar'
  BY <1>1 DEF SInv, TypeOK, BuildSoFar, ImagesOf
<1>4. abandoned \subseteq live /\ \A p \in Places : Owned(place[p]) \subseteq live
  BY DEF SInv, EveryObjectOwned
<1>5. ASSUME NEW p \in Places, place[p] # Null PROVE BuildOf(p) # b
  BY <1>1, <1>4, <1>5, PlaceFacts
<1>6. PlacesMade' /\ BuildsApart'
  <2>1. ASSUME NEW p \in Places, place[p] # Null
        PROVE  image_total'[BuildOf(p)] = image_total[BuildOf(p)]
    BY <1>1, <1>5, <2>1, PlaceFacts DEF SInv, TypeOK
  <2>2. PlacesMade'
    BY <1>1, <2>1 DEF SInv, PlacesMade, MadeOf, BuildOf
  <2> QED
    BY <1>1, <1>4, <1>5, <2>2 DEF SInv, BuildsApart, BuildOf
<1>7. EveryObjectOwned'
  <2>1. InProgress = {} /\ InProgress' = {VkSwapchain(b)}
    BY <1>1 DEF InProgress, ObjectsOfAll
  <2> QED
    BY <1>1, <2>1 DEF SInv, EveryObjectOwned
<1> QED
  BY <1>1, <1>2, <1>3, <1>6, <1>7 DEF SInv, NoInvalidDestroy

LEMMA CountImagesStep ==
  ASSUME SInv, CountImages PROVE SInv'
<1>1. /\ pc = "count" /\ pc' = "images" /\ images = <<>>
      /\ image_count' = image_total[build]
      /\ build \in Builds /\ image_total \in [Builds -> 0..MaxImages]
      /\ UNCHANGED <<minImageCount, build, images, view, image_available, place,
                     driver, abandoned>>
  BY DEF CountImages, SInv, TypeOK, BuildSoFar
<1>2. TypeOK'
  BY <1>1 DEF SInv, TypeOK, driver
<1>3. BuildSoFar'
  BY <1>1 DEF SInv, BuildSoFar, driver
<1>4. InProgress' = InProgress \cup {}
  BY <1>1 DEF InProgress
<1> QED
  BY <1>1, <1>2, <1>3, <1>4, GoesOn DEF driver

LEMMA GetImagesStep ==
  ASSUME SInv, GetImages PROVE SInv'
<1>1. /\ pc = "images" /\ pc' = "view"
      /\ UNCHANGED <<minImageCount, locals, place, driver, abandoned>>
  BY DEF GetImages
<1>2. TypeOK'
  BY <1>1 DEF SInv, TypeOK, driver, locals
<1>3. BuildSoFar'
  <2>1. image_count > 0 /\ Len(images) = 0
    BY <1>1 DEF SInv, BuildSoFar
  <2> QED
    BY <1>1, <2>1 DEF SInv, BuildSoFar, locals, driver
<1>4. InProgress' = InProgress \cup {}
  BY <1>1 DEF InProgress, locals
<1> QED
  BY <1>1, <1>2, <1>3, <1>4, GoesOn DEF driver, locals

LEMMA ImagesRefusedStep ==
  ASSUME SInv, ImagesRefused PROVE SInv'
<1>1. pc \in {"count", "images"} /\ images = <<>> /\ Fallback(<<>>, Null)
  BY DEF ImagesRefused, SInv, BuildSoFar
<1>2. ObjectsOfAll(<<>>) = {} /\ ~NamedTwice(<<>>)
  BY DEF ObjectsOfAll, NamedTwice
<1>3. VkSwapchain(build) # Null
  BY <1>1, Handles DEF SInv, TypeOK
<1>4. ObjectsOfAll(<<>>) \cup ({Null, VkSwapchain(build)} \ {Null}) = InProgress
  BY <1>1, <1>2, <1>3 DEF InProgress
<1> QED
  BY <1>1, <1>2, <1>4, FallbackStep

LEMMA CreateViewStep ==
  ASSUME SInv, CreateView PROVE SInv'
<1>1. /\ pc = "view" /\ pc' = "semaphore"
      /\ live' = live \cup {ImageView(build, Next_i)} /\ invalid' = invalid
      /\ view' = ImageView(build, Next_i)
      /\ UNCHANGED <<minImageCount, build, image_count, images, image_available,
                     image_total, place, abandoned>>
  BY DEF CreateView, Create
<1>2. build \in Builds /\ Next_i \in 1..MaxImages
  BY <1>1 DEF SInv, TypeOK, BuildSoFar, Next_i
<1>3. TypeOK'
  BY <1>1, <1>2, Handles DEF SInv, TypeOK
<1>4. BuildSoFar'
  BY <1>1 DEF SInv, BuildSoFar, Next_i
<1>5. InProgress' = InProgress \cup {ImageView(build, Next_i)}
  BY <1>1 DEF InProgress
<1> QED
  BY <1>1, <1>3, <1>4, <1>5, GoesOn

LEMMA ViewRefusedStep ==
  ASSUME SInv, ViewRefused PROVE SInv'
<1>1. pc = "view" /\ Fallback(images, Null)
  BY DEF ViewRefused
<1>2. VkSwapchain(build) # Null
  BY <1>1, Handles DEF SInv, TypeOK
<1>3. ObjectsOfAll(images) \cup ({Null, VkSwapchain(build)} \ {Null}) = InProgress
  BY <1>1, <1>2 DEF InProgress
<1>4. ~NamedTwice(images)
  BY <1>1, InProgressFacts
<1> QED
  BY <1>1, <1>3, <1>4, FallbackStep

LEMMA CreateSemaphoreStep ==
  ASSUME SInv, CreateSemaphore PROVE SInv'
<1> DEFINE img == [image |-> VkImage(build, Next_i),
                   view |-> view,
                   render_finished |-> RenderFinished(build, Next_i)]
<1>1. /\ pc = "semaphore"
      /\ live' = live \cup {RenderFinished(build, Next_i)} /\ invalid' = invalid
      /\ images' = Append(images, img)
      /\ pc' = IF Len(images') = image_count THEN "available" ELSE "view"
      /\ UNCHANGED <<minImageCount, build, image_count, view, image_available,
                     image_total, place, abandoned>>
  BY DEF CreateSemaphore, Create
<1>2. /\ build \in Builds /\ Next_i \in 1..MaxImages /\ Next_i <= image_count
      /\ images \in Seq(SwapchainImage) /\ image_count \in Nat
      /\ view = ImageView(build, Next_i) /\ ImagesOf(images, build)
  BY <1>1 DEF SInv, TypeOK, BuildSoFar, Next_i
<1>3. /\ VkImage(build, Next_i) \in Objects
      /\ ImageView(build, Next_i) \in Objects
      /\ RenderFinished(build, Next_i) \in Objects
  BY <1>2, Handles
<1>4. img \in SwapchainImage
  BY <1>2, <1>3 DEF SwapchainImage
<1>5. /\ img.image = VkImage(build, Next_i)
      /\ img.view = ImageView(build, Next_i)
      /\ img.render_finished = RenderFinished(build, Next_i)
      /\ ObjectsOf(img) = {view, RenderFinished(build, Next_i)}
  BY <1>2, <1>3 DEF ObjectsOf
<1> HIDE DEF img
<1>6. /\ images' \in Seq(SwapchainImage) /\ Len(images') = Next_i
      /\ DOMAIN images' = DOMAIN images \cup {Next_i}
      /\ \A i \in DOMAIN images : images'[i] = images[i]
      /\ images'[Next_i] = img
      /\ ObjectsOfAll(images') = ObjectsOfAll(images) \cup ObjectsOf(img)
  <2>1. images' \in Seq(SwapchainImage) /\ Len(images') = Next_i
    BY <1>1, <1>2, <1>4, AppendProperties DEF Next_i
  <2> QED
    BY <1>1, <1>2, <2>1, OneMore DEF Next_i
<1>7. TypeOK'
  BY <1>1, <1>2, <1>3, <1>6 DEF SInv, TypeOK
<1>8. BuildSoFar'
  <2>1. ImagesOf(images', build')
    BY <1>1, <1>2, <1>5, <1>6 DEF ImagesOf
  <2>2. pc' = "view" => Len(images') < image_count'
    BY <1>1, <1>2, <1>6
  <2>3. /\ pc' \in {"view", "available"}
        /\ pc' = "available" => Len(images') = image_count'
    BY <1>1
  <2>4. image_count' = image_total'[build'] /\ image_total'[build'] > 0
    BY <1>1 DEF SInv, BuildSoFar
  <2> QED
    BY <2>1, <2>2, <2>3, <2>4 DEF BuildSoFar
<1>9. InProgress' = InProgress \cup {RenderFinished(build, Next_i)}
  <2>1. InProgress = {VkSwapchain(build)} \cup ObjectsOfAll(images) \cup {view}
    BY <1>1 DEF InProgress
  <2>2. pc' \in {"view", "available"}
    BY <1>1
  <2>3. InProgress' = {VkSwapchain(build)} \cup ObjectsOfAll(images')
    BY <1>1, <2>2 DEF InProgress
  <2> QED
    BY <1>5, <1>6, <2>1, <2>3
<1>10. pc' # "idle"
  BY <1>1
<1> QED
  BY <1>1, <1>7, <1>8, <1>9, <1>10, GoesOn

LEMMA SemaphoreRefusedStep ==
  ASSUME SInv, SemaphoreRefused PROVE SInv'
<1>0. PICK img : img = [image |-> Null, view |-> view, render_finished |-> Null]
  OBVIOUS
<1>1. pc = "semaphore" /\ Fallback(Append(images, img), Null)
  BY <1>0 DEF SemaphoreRefused
<1>2. /\ build \in Builds /\ Next_i \in 1..MaxImages
      /\ images \in Seq(SwapchainImage)
      /\ view = ImageView(build, Next_i) /\ ImagesOf(images, build)
  BY <1>1 DEF SInv, TypeOK, BuildSoFar, Next_i
<1>3. /\ VkSwapchain(build) # Null /\ view # Null
  BY <1>2, Handles
<1>4. ObjectsOf(img) = {view}
  BY <1>0, <1>3 DEF ObjectsOf
<1> DEFINE t == Append(images, img)
<1>5. /\ DOMAIN t = DOMAIN images \cup {Next_i}
      /\ Next_i \notin DOMAIN images
      /\ \A i \in DOMAIN images : t[i] = images[i]
      /\ t[Next_i] = img
      /\ ObjectsOfAll(t) = ObjectsOfAll(images) \cup {view}
  BY <1>2, <1>4, OneMore DEF Next_i
<1> HIDE DEF t
<1>6. ObjectsOfAll(t) \cup ({Null, VkSwapchain(build)} \ {Null}) = InProgress
  BY <1>1, <1>3, <1>5 DEF InProgress
<1>7. ~NamedTwice(t)
  <2>1. ASSUME NEW i \in DOMAIN images
        PROVE  ObjectsOf(images[i]) \intersect {view} = {}
    <3>1. i # Next_i
      BY <1>5
    <3> QED
      BY <1>2, <3>1, ObjectsOfOne, ImageHandles
  <2>2. ASSUME NEW i \in DOMAIN t, NEW j \in DOMAIN t, i # j
        PROVE  ObjectsOf(t[i]) \intersect ObjectsOf(t[j]) = {}
    <3>1. CASE i \in DOMAIN images /\ j \in DOMAIN images
      <4>1. ~NamedTwice(images)
        BY <1>1, InProgressFacts
      <4> QED
        BY <1>5, <2>2, <3>1, <4>1 DEF NamedTwice
    <3>2. CASE i = Next_i \/ j = Next_i
      BY <1>4, <1>5, <2>1, <2>2, <3>2
    <3> QED
      BY <1>5, <3>1, <3>2
  <2> QED
    BY <2>2 DEF NamedTwice
<1> QED
  BY <1>1, <1>6, <1>7, FallbackStep DEF t

LEMMA CreateImageAvailableStep ==
  ASSUME SInv, CreateImageAvailable PROVE SInv'
<1>1. /\ pc = "available" /\ pc' = "fence"
      /\ live' = live \cup {ImageAvailable(build)} /\ invalid' = invalid
      /\ image_available' = ImageAvailable(build)
      /\ UNCHANGED <<minImageCount, build, image_count, images, view,
                     image_total, place, abandoned>>
  BY DEF CreateImageAvailable, Create
<1>2. build \in Builds
  BY <1>1 DEF SInv, TypeOK
<1>3. TypeOK'
  BY <1>1, <1>2, Handles DEF SInv, TypeOK
<1>4. BuildSoFar'
  BY <1>1 DEF SInv, BuildSoFar
<1>5. InProgress' = InProgress \cup {ImageAvailable(build)}
  BY <1>1 DEF InProgress
<1> QED
  BY <1>1, <1>3, <1>4, <1>5, GoesOn

LEMMA ImageAvailableRefusedStep ==
  ASSUME SInv, ImageAvailableRefused PROVE SInv'
<1>1. pc = "available" /\ Fallback(images, Null)
  BY DEF ImageAvailableRefused
<1>2. VkSwapchain(build) # Null
  BY <1>1, Handles DEF SInv, TypeOK
<1>3. ObjectsOfAll(images) \cup ({Null, VkSwapchain(build)} \ {Null}) = InProgress
  BY <1>1, <1>2 DEF InProgress
<1>4. ~NamedTwice(images)
  BY <1>1, InProgressFacts
<1> QED
  BY <1>1, <1>3, <1>4, FallbackStep

LEMMA FenceRefusedStep ==
  ASSUME SInv, FenceRefused PROVE SInv'
<1>1. pc = "fence" /\ Fallback(images, image_available)
  BY DEF FenceRefused
<1>2. VkSwapchain(build) # Null /\ image_available # Null
  BY <1>1, Handles DEF SInv, TypeOK, BuildSoFar
<1>3. ObjectsOfAll(images) \cup ({image_available, VkSwapchain(build)} \ {Null})
        = InProgress
  BY <1>1, <1>2 DEF InProgress
<1>4. ~NamedTwice(images)
  BY <1>1, InProgressFacts
<1> QED
  BY <1>1, <1>3, <1>4, FallbackStep

(* The build is whole: its objects are the new Swapchain's.                *)
LEMMA CreateFenceStep ==
  ASSUME SInv, NEW p \in Places, CreateFence(p) PROVE SInv'
<1>0. PICK s : s = [swapchain |-> VkSwapchain(build),
                    images |-> images,
                    image_available |-> image_available,
                    render_fence |-> RenderFence(build)]
  OBVIOUS
<1>1. /\ pc = "fence" /\ pc' = "idle" /\ place[p] = Null
      /\ live' = live \cup {RenderFence(build)} /\ invalid' = invalid
      /\ place' = [place EXCEPT ![p] = s]
      /\ UNCHANGED <<minImageCount, locals, image_total, abandoned>>
  BY <1>0 DEF CreateFence, Create
<1>2. /\ build \in Builds /\ image_available = ImageAvailable(build)
      /\ images \in Seq(SwapchainImage) /\ images # <<>>
      /\ Len(images) = image_total[build] /\ ImagesOf(images, build)
      /\ place \in [Places -> Swapchains \cup {Null}]
  BY <1>1 DEF SInv, TypeOK, BuildSoFar
<1>3. s \in Swapchains
  BY <1>0, <1>2, Handles DEF Swapchains
<1>4. /\ s.swapchain = VkSwapchain(build) /\ s.images = images
      /\ s.image_available = image_available
      /\ s.render_fence = RenderFence(build)
      /\ s # Null /\ s.swapchain.build = build
  BY <1>0, <1>2, <1>3, Handles
<1>5. /\ place' \in [Places -> Swapchains \cup {Null}]
      /\ place'[p] = s
      /\ \A q \in Places \ {p} : place'[q] = place[q]
  BY <1>1, <1>2, <1>3
<1>6. TypeOK'
  BY <1>1, <1>2, <1>5, Handles DEF SInv, TypeOK, locals
<1>7. BuildSoFar'
  BY <1>1, <1>2 DEF BuildSoFar, locals
<1>8. BuildOf(p)' = build /\ \A q \in Places \ {p} : BuildOf(q)' = BuildOf(q)
  BY <1>4, <1>5 DEF BuildOf
<1>9. PlacesMade'
  <2>1. MadeOf(s, build)
    BY <1>2, <1>4 DEF MadeOf
  <2> QED
    BY <1>1, <1>5, <1>8, <2>1 DEF SInv, PlacesMade, MadeOf
<1>10. BuildsApart'
  BY <1>1, <1>5, <1>8 DEF SInv, BuildsApart
<1>11. EveryObjectOwned'
  <2>1. InProgress = {VkSwapchain(build)} \cup ObjectsOfAll(images)
                       \cup {image_available}
    BY <1>1 DEF InProgress
  <2>2. InProgress' = {}
    BY <1>1 DEF InProgress
  <2>3. Owned(s) = InProgress \cup {RenderFence(build)}
    BY <1>4, <2>1 DEF Owned
  <2>4. Owned(place[p]) = {} /\ Owned(place'[p]) = InProgress \cup {RenderFence(build)}
    BY <1>1, <1>5, <2>3 DEF Owned
  <2>5. UNION {Owned(place'[q]) : q \in Places} =
          (UNION {Owned(place[q]) : q \in Places}) \cup Owned(place'[p])
    <3>1. ASSUME NEW o \in UNION {Owned(place'[q]) : q \in Places}
          PROVE  o \in (UNION {Owned(place[q]) : q \in Places}) \cup Owned(place'[p])
      BY <1>5
    <3>2. ASSUME NEW o \in (UNION {Owned(place[q]) : q \in Places}) \cup Owned(place'[p])
          PROVE  o \in UNION {Owned(place'[q]) : q \in Places}
      BY <1>5, <2>4
    <3> QED
      BY <3>1, <3>2
  <2> QED
    BY <1>1, <2>2, <2>4, <2>5 DEF SInv, EveryObjectOwned
<1> QED
  BY <1>1, <1>6, <1>7, <1>9, <1>10, <1>11 DEF SInv, NoInvalidDestroy

----------------------------------------------------------------------------
(* The steps between builds.                                               *)

(* Setting the builder touches no object.                                  *)
LEMMA SettingStep ==
  ASSUME SInv, minImageCount' \in 0..MaxImages,
         UNCHANGED <<pc, locals, place, driver, abandoned>>
  PROVE  SInv'
<1>1. TypeOK'
  BY DEF SInv, TypeOK, locals, driver
<1>2. BuildSoFar'
  BY DEF SInv, BuildSoFar, locals, driver, Next_i
<1>3. PlacesMade' /\ BuildsApart'
  BY DEF SInv, PlacesMade, MadeOf, BuildsApart, BuildOf, locals, driver
<1>4. EveryObjectOwned' /\ NoInvalidDestroy'
  BY DEF SInv, EveryObjectOwned, NoInvalidDestroy, InProgress, locals, driver
<1> QED
  BY <1>1, <1>2, <1>3, <1>4 DEF SInv

(* A destination that owned objects forgets them, the source becomes null. *)
LEMMA MoveSwapchainStep ==
  ASSUME SInv, NEW dst \in Places, NEW src \in Places, MoveSwapchain(dst, src)
  PROVE  SInv'
<1>1. /\ pc = "idle" /\ dst # src
      /\ abandoned' = abandoned \cup Owned(place[dst])
      /\ place' = [place EXCEPT ![dst] = place[src], ![src] = Null]
      /\ UNCHANGED <<minImageCount, pc, locals, driver>>
      /\ place \in [Places -> Swapchains \cup {Null}]
  BY DEF MoveSwapchain, SInv, TypeOK
<1>2. /\ place' \in [Places -> Swapchains \cup {Null}]
      /\ place'[dst] = place[src] /\ place'[src] = Null
      /\ \A q \in Places \ {dst, src} : place'[q] = place[q]
  BY <1>1
<1>3. ASSUME NEW o \in Owned(place[dst])
      PROVE  place[dst] # Null /\ o \in Objects /\ o.build = BuildOf(dst)
  <2>1. place[dst] # Null
    BY <1>3 DEF Owned
  <2> QED
    BY <2>1, PlaceFacts
<1>4. TypeOK'
  BY <1>1, <1>2, <1>3 DEF SInv, TypeOK, locals, driver
<1>5. BuildSoFar'
  BY <1>1 DEF SInv, BuildSoFar, locals
<1>6. /\ BuildOf(dst)' = BuildOf(src)
      /\ \A q \in Places \ {dst, src} : BuildOf(q)' = BuildOf(q)
  BY <1>2 DEF BuildOf
<1>7. PlacesMade'
  BY <1>1, <1>2, <1>6 DEF SInv, PlacesMade, MadeOf, driver
<1>8. BuildsApart'
  <2>1. ASSUME NEW p \in Places, NEW q \in Places, place'[p] # Null,
               place'[q] # Null, BuildOf(p)' = BuildOf(q)'
        PROVE  p = q
    BY <1>2, <1>6, <2>1 DEF SInv, BuildsApart
  <2>2. ASSUME NEW o \in abandoned', NEW p \in Places, place'[p] # Null
        PROVE  o.build # BuildOf(p)'
    <3>1. CASE o \in abandoned
      BY <1>2, <1>6, <2>2, <3>1 DEF SInv, BuildsApart
    <3>2. CASE o \in Owned(place[dst])
      <4>1. place[dst] # Null /\ o.build = BuildOf(dst)
        BY <1>3, <3>2
      <4> QED
        BY <1>1, <1>2, <1>6, <2>2, <4>1 DEF SInv, BuildsApart
    <3> QED
      BY <1>1, <2>2, <3>1, <3>2
  <2> QED
    BY <1>1, <2>1, <2>2 DEF BuildsApart
<1>9. EveryObjectOwned'
  <2>1. InProgress = {} /\ InProgress' = {}
    BY <1>1 DEF InProgress
  <2>2. Owned(Null) = {}
    BY DEF Owned
  <2>3. ASSUME NEW o
        PROVE  o \in abandoned' \cup UNION {Owned(place'[q]) : q \in Places}
                 <=> o \in abandoned \cup UNION {Owned(place[q]) : q \in Places}
    <3>1. ASSUME o \in abandoned \cup UNION {Owned(place[q]) : q \in Places}
          PROVE  o \in abandoned' \cup UNION {Owned(place'[q]) : q \in Places}
      <4>1. CASE o \in abandoned
        BY <1>1, <4>1
      <4>2. CASE \E q \in Places : o \in Owned(place[q])
        <5>1. PICK q \in Places : o \in Owned(place[q])
          BY <4>2
        <5>2. CASE q = dst
          BY <1>1, <5>1, <5>2
        <5>3. CASE q = src
          BY <1>2, <5>1, <5>3
        <5>4. CASE q \in Places \ {dst, src}
          BY <1>2, <5>1, <5>4
        <5> QED
          BY <5>2, <5>3, <5>4
      <4> QED
        BY <3>1, <4>1, <4>2
    <3>2. ASSUME o \in abandoned' \cup UNION {Owned(place'[q]) : q \in Places}
          PROVE  o \in abandoned \cup UNION {Owned(place[q]) : q \in Places}
      <4>1. CASE o \in abandoned'
        BY <1>1, <4>1
      <4>2. CASE \E q \in Places : o \in Owned(place'[q])
        <5>1. PICK q \in Places : o \in Owned(place'[q])
          BY <4>2
        <5>2. CASE q = dst
          BY <1>2, <5>1, <5>2
        <5>3. CASE q = src
          BY <1>2, <2>2, <5>1, <5>3
        <5>4. CASE q \in Places \ {dst, src}
          BY <1>2, <5>1, <5>4
        <5> QED
          BY <5>2, <5>3, <5>4
      <4> QED
        BY <3>2, <4>1, <4>2
    <3> QED
      BY <3>1, <3>2
  <2> QED
    BY <1>1, <2>1, <2>3 DEF SInv, EveryObjectOwned, driver
<1> QED
  BY <1>1, <1>4, <1>5, <1>7, <1>8, <1>9 DEF SInv, NoInvalidDestroy, driver

LEMMA DestroySwapchainStep ==
  ASSUME SInv, NEW p \in Places, DestroySwapchain(p) PROVE SInv'
<1> DEFINE gone == ObjectsOfAll(place[p].images) \cup
                     ((Owned(place[p]) \ ObjectsOfAll(place[p].images)) \ {Null})
<1>1. /\ pc = "idle" /\ place[p] # Null
      /\ live' = live \ gone
      /\ invalid' = (invalid \/ ~(gone \subseteq live)
                              \/ NamedTwice(place[p].images))
      /\ place' = [place EXCEPT ![p] = Null]
      /\ UNCHANGED <<minImageCount, pc, locals, image_total, abandoned>>
      /\ place \in [Places -> Swapchains \cup {Null}]
  BY DEF DestroySwapchain, Destroy, SInv, TypeOK
<1>2. gone = Owned(place[p])
  <2>1. ObjectsOfAll(place[p].images) \subseteq Owned(place[p])
    BY <1>1 DEF Owned
  <2>2. Null \notin Owned(place[p])
    BY <1>1, PlaceFacts
  <2> QED
    BY <2>1, <2>2
<1> HIDE DEF gone
<1>3. ~NamedTwice(place[p].images)
  BY <1>1, PlaceFacts, ObjectsOfImages DEF MadeOf
<1>4. Owned(place[p]) \subseteq live
  BY DEF SInv, EveryObjectOwned
<1>5. invalid' = invalid
  BY <1>1, <1>2, <1>3, <1>4 DEF SInv, NoInvalidDestroy, TypeOK
<1>6. /\ place' \in [Places -> Swapchains \cup {Null}]
      /\ place'[p] = Null
      /\ \A q \in Places \ {p} : place'[q] = place[q]
  BY <1>1
<1>7. TypeOK'
  BY <1>1, <1>5, <1>6 DEF SInv, TypeOK, locals
<1>8. BuildSoFar'
  BY <1>1 DEF SInv, BuildSoFar, locals
<1>9. PlacesMade' /\ BuildsApart'
  <2>1. \A q \in Places \ {p} : BuildOf(q)' = BuildOf(q)
    BY <1>6 DEF BuildOf
  <2> QED
    BY <1>1, <1>6, <2>1 DEF SInv, PlacesMade, MadeOf, BuildsApart
<1>10. EveryObjectOwned'
  <2>1. InProgress = {} /\ InProgress' = {} /\ Owned(Null) = {}
    BY <1>1 DEF InProgress, Owned
  <2>2. ASSUME NEW o \in Owned(place[p])
        PROVE  o \notin abandoned /\ \A q \in Places \ {p} : o \notin Owned(place[q])
    <3>1. o.build = BuildOf(p)
      BY <1>1, PlaceFacts
    <3>2. o \notin abandoned
      BY <1>1, <3>1 DEF SInv, BuildsApart
    <3>3. ASSUME NEW q \in Places \ {p}, o \in Owned(place[q]) PROVE FALSE
      <4>1. place[q] # Null
        BY <3>3, <2>1
      <4>2. o.build = BuildOf(q)
        BY <3>3, <4>1, PlaceFacts
      <4> QED
        BY <1>1, <3>1, <4>1, <4>2 DEF SInv, BuildsApart
    <3> QED
      BY <3>2, <3>3
  <2>3. ASSUME NEW o
        PROVE  o \in live' <=> o \in abandoned \cup UNION {Owned(place'[q]) : q \in Places}
    <3>1. o \in live <=> o \in abandoned \/ \E q \in Places : o \in Owned(place[q])
      BY <2>1 DEF SInv, EveryObjectOwned
    <3>2. o \in live' <=> o \in live /\ o \notin Owned(place[p])
      BY <1>1, <1>2
    <3>3. (\E q \in Places : o \in Owned(place'[q]))
            <=> (\E q \in Places \ {p} : o \in Owned(place[q]))
      BY <1>6, <2>1
    <3> QED
      BY <2>2, <3>1, <3>2, <3>3
  <2> QED
    BY <1>1, <2>1, <2>3 DEF EveryObjectOwned
<1> QED
  BY <1>5, <1>7, <1>8, <1>9, <1>10 DEF SInv, NoInvalidDestroy

----------------------------------------------------------------------------
(* Initially there is nothing.                                             *)
LEMMA InitSInv == Init => SInv
<1> SUFFICES ASSUME Init PROVE SInv
  OBVIOUS
<1> USE DEF Init
<1>1. TypeOK
  <2>1. SurfaceMin \in 0..MaxImages /\ 0 \in 0..MaxImages
    OBVIOUS
  <2>2. images \in Seq(SwapchainImage) /\ Len(images) <= image_count
    OBVIOUS
  <2>3. {view, image_available} \subseteq Objects \cup {Null}
    OBVIOUS
  <2>4. place \in [Places -> Swapchains \cup {Null}]
    OBVIOUS
  <2>5. live \subseteq Objects /\ abandoned \subseteq Objects
    OBVIOUS
  <2>6. invalid \in BOOLEAN
    OBVIOUS
  <2>7. pc \in {"idle", "count", "images", "view", "semaphore", "available", "fence"}
    OBVIOUS
  <2> HIDE DEF Init
  <2> QED
    BY <2>1, <2>2, <2>3, <2>4, <2>5, <2>6, <2>7, Zenon DEF TypeOK, Init
<1>2. BuildSoFar
  BY DEF BuildSoFar, ImagesOf
<1>3. PlacesMade /\ BuildsApart
  BY DEF PlacesMade, BuildsApart
<1>4. EveryObjectOwned /\ NoInvalidDestroy
  BY DEF EveryObjectOwned, NoInvalidDestroy, InProgress, Owned
<1> QED
  BY <1>1, <1>2, <1>3, <1>4 DEF SInv

(* Each step keeps the inductive invariant.                                *)
LEMMA NextSInv == SInv /\ [Next]_vars => SInv'
<1> SUFFICES ASSUME SInv, [Next]_vars PROVE SInv'
  OBVIOUS
<1>1. CASE BuildStep
  BY <1>1, CreateSwapchainStep, CountImagesStep, GetImagesStep,
     ImagesRefusedStep, CreateViewStep, ViewRefusedStep, CreateSemaphoreStep,
     SemaphoreRefusedStep, CreateImageAvailableStep, ImageAvailableRefusedStep,
     CreateFenceStep, FenceRefusedStep DEF BuildStep
<1>2. CASE \E count \in 0..MaxImages : SetMinImageCount(count)
  BY <1>2, SettingStep DEF SetMinImageCount
<1>3. CASE ResetToDefault
  BY <1>3, SettingStep DEF ResetToDefault
<1>4. CASE \E dst, src \in Places : MoveSwapchain(dst, src)
  BY <1>4, MoveSwapchainStep
<1>5. CASE \E p \in Places : DestroySwapchain(p)
  BY <1>5, DestroySwapchainStep
<1>6. CASE UNCHANGED vars
  BY <1>6, SettingStep DEF vars, SInv, TypeOK
<1> QED
  BY <1>1, <1>2, <1>3, <1>4, <1>5, <1>6 DEF Next

(* The inductive invariant holds in every reachable state.                 *)
THEOREM SInvCorrect == Spec => []SInv
<1>1. Init => SInv
  BY InitSInv
<1>2. SInv /\ [Next]_vars => SInv'
  BY NextSInv
<1> QED
  BY <1>1, <1>2, PTL DEF Spec

(* build() never keeps more images than the driver reported, and what it   *)
(* and the Swapchains hold has its type.                                   *)
THEOREM TypeCorrect == Spec => []TypeOK
<1>1. SInv => TypeOK
  BY DEF SInv
<1> QED
  BY <1>1, SInvCorrect, PTL

(* A build that fails leaves nothing behind, wherever it fails; only a     *)
(* move assignment loses objects.                                          *)
THEOREM EveryObjectOwnedCorrect == Spec => []EveryObjectOwned
<1>1. SInv => EveryObjectOwned
  BY DEF SInv
<1> QED
  BY <1>1, SInvCorrect, PTL

(* Nothing is destroyed twice, by a failed build, by a destructor or       *)
(* between them.                                                           *)
THEOREM NoInvalidDestroyCorrect == Spec => []NoInvalidDestroy
<1>1. SInv => NoInvalidDestroy
  BY DEF SInv
<1> QED
  BY <1>1, SInvCorrect, PTL

(* A Swapchain the client has got is whole, with all the images of its     *)
(* VkSwapchainKHR, and stays so however it is moved and whatever is built  *)
(* or destroyed beside it.                                                 *)
THEOREM SwapchainsCompleteCorrect == Spec => []SwapchainsComplete
<1>1. SInv => SwapchainsComplete
  <2> SUFFICES ASSUME SInv, NEW p \in Places, place[p] # Null
               PROVE  Complete(place[p])
    BY DEF SwapchainsComplete
  <2>1. MadeOf(place[p], BuildOf(p)) /\ Owned(place[p]) \subseteq live
    BY PlaceFacts DEF SInv, EveryObjectOwned
  <2> QED
    BY <2>1 DEF Complete, MadeOf, ImagesOf, BuildOf
<1> QED
  BY <1>1, SInvCorrect, PTL

(* No two Swapchains share an object, however they are moved.              *)
THEOREM SwapchainsDisjointCorrect == Spec => []SwapchainsDisjoint
<1>1. SInv => SwapchainsDisjoint
  <2> SUFFICES ASSUME SInv, NEW p \in Places, NEW q \in Places, p # q,
                      NEW o \in Owned(place[p]), o \in Owned(place[q])
               PROVE  FALSE
    BY DEF SwapchainsDisjoint
  <2>1. place[p] # Null /\ place[q] # Null
    BY DEF Owned
  <2>2. o.build = BuildOf(p) /\ o.build = BuildOf(q)
    BY <2>1, PlaceFacts
  <2> QED
    BY <2>1, <2>2 DEF SInv, BuildsApart
<1> QED
  BY <1>1, SInvCorrect, PTL
=============================================================================
