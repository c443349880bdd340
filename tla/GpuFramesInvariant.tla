------------------------- MODULE GpuFramesInvariant -------------------------
(***************************************************************************)
(* Why images stay exclusive in GpuFrames, and frames go forward: the      *)
(* inductive invariants from which its safety properties follow.           *)
(***************************************************************************)
EXTENDS GpuFrames

\* The connection: both ends agree on whether it is up, nothing is queued in
\* a socket that is not, and a hello offers every image but the displayed one.
Connection ==
  /\ client = "live" => link \in {"greeted", "up"}
  /\ link = "up" => client = "live"
  /\ link # "up" => toBridge = <<>> /\ toClient = <<>>
  /\ link \notin {"up", "hungup"} => acquired = {}
  /\ link = "greeted" =>
       /\ hello = Slots \ {leases.held}
       /\ leases.pending = NoSlot
       /\ leases.releases = {} /\ leases.accepted = {}

\* The leases alone: an image is on display or may be published again, and
\* only one that may be published again owes a RELEASE.
LeasesConsistent ==
  /\ leases.available = Slots \ OnDisplay
  /\ leases.held = leases.pending => leases.held = NoSlot
  /\ leases.releases \subseteq leases.available

\* The eyes sample only the image the leases hold, and only while drawing.
SamplesHeld ==
  /\ texture = leases.held
  /\ reading \subseteq {texture}
  /\ eyes # "drawing" => reading = {}

\* Six sets that share no image.
Apart(drawn, free, sent, display, owed, back) ==
  /\ free    \cap (drawn \cup sent \cup display \cup owed \cup back) = {}
  /\ drawn   \cap (sent \cup display \cup owed \cup back) = {}
  /\ sent    \cap (display \cup owed \cup back) = {}
  /\ display \cap (owed \cup back) = {}
  /\ owed    \cap back = {}

\* No queue names an image twice.
Distinct(queue) ==
  \A i, j \in DOMAIN queue : queue[i].slot = queue[j].slot => i = j

DistinctReleases(queue) ==
  \A i, j \in ReleasesOf(queue) : queue[i].slot = queue[j].slot => i = j

\* The images' round: while the connection is up the six places are disjoint
\* and complete; after a hangup what may be drawn into is not on display.
Round ==
  /\ link = "up" =>
       /\ Apart(acquired, pool.available, InFlight, OnDisplay, leases.releases,
                Returning)
       /\ Slots \subseteq acquired \cup pool.available \cup InFlight
                          \cup OnDisplay \cup leases.releases \cup Returning
  /\ link = "hungup" => (acquired \cup pool.available) \cap OnDisplay = {}
  /\ Distinct(toBridge)
  /\ DistinctReleases(toClient)

\* The pool recognizes the frame that comes back in a slot.
Recognized(slot, f) == slot \in pool.inherited \/ pool.frames[slot] = f

\* The frame numbers that go round with the images: a slot keeps the number it
\* was submitted under until it returns, unless it was inherited.
Numbered ==
  /\ \A slot \in OnDisplay \cup leases.releases : leases.frames[slot] # 0
  /\ \A i \in DOMAIN toBridge :
        toBridge[i].frame # 0 /\ Recognized(toBridge[i].slot, toBridge[i].frame)
  /\ \A i \in ReleasesOf(toClient) :
        toClient[i].frame # 0 /\ Recognized(toClient[i].slot, toClient[i].frame)
  /\ link = "up" =>
       \A slot \in OnDisplay \cup leases.releases :
          Recognized(slot, leases.frames[slot])

\* Everything that keeps an image exclusive on its way round; inductive
\* together with TypeOK.
ImagesExclusive ==
  Connection /\ LeasesConsistent /\ SamplesHeld /\ Round /\ Numbered

IInv == TypeOK /\ ImagesExclusive

-----------------------------------------------------------------------------
(* Why frames go forward, no acceptance is early and no socket fills.      *)

AcceptancesOf(queue) == {i \in DOMAIN queue : queue[i].kind = "accepted"}
AcceptedBy(queue) == {queue[i].slot : i \in AcceptancesOf(queue)}

\* A queue accepts an image once, and before it releases it.
AcceptsFirst(queue) ==
  /\ \A i, j \in AcceptancesOf(queue) : queue[i].slot = queue[j].slot => i = j
  /\ \A i \in AcceptancesOf(queue), j \in ReleasesOf(queue) :
        queue[i].slot = queue[j].slot => i < j

\* Until the renderer has read an image's acceptance, the image is not back.
HeardFirst ==
  /\ AcceptsFirst(toClient)
  /\ link = "up" =>
       /\ leases.accepted \cap (AcceptedBy(toClient) \cup Returning) = {}
       /\ (leases.accepted \cup AcceptedBy(toClient))
            \cap (acquired \cup pool.available \cup InFlight) = {}

\* A session starts counting at nothing; what is shown was published, and what
\* was published was presented.
SessionCounts ==
  /\ shown <= published
  /\ link \notin {"up", "hungup"} => frame = 0 /\ presented = 0
  /\ link = "greeted" => published = 0
  /\ link \in {"greeted", "up", "hungup"} => ~abandoned
  /\ link = "up" => presented <= published /\ published <= frame

\* The presents under way carry later and later frames.
PresentsForward ==
  /\ \A i, j \in DOMAIN toBridge : i < j => toBridge[i].frame < toBridge[j].frame
  /\ \A i \in DOMAIN toBridge :
        published < toBridge[i].frame /\ toBridge[i].frame <= frame

\* The image that waits is later than the one on screen, and no acceptance is
\* of a frame that has not been published.
LeasesForward ==
  /\ leases.pending # NoSlot =>
       /\ shown < leases.frames[leases.pending]
       /\ leases.frames[leases.pending] <= published
  /\ \A slot \in leases.accepted : leases.frames[slot] <= published
  /\ \A i \in AcceptancesOf(toClient) : toClient[i].frame <= published

\* A present id is not above the frame it was submitted with.
IdsForward ==
  \A slot \in Slots :
    pool.frames[slot] # 0 => presentIds[slot] <= pool.frames[slot]

FramesForward ==
  SessionCounts /\ PresentsForward /\ LeasesForward /\ IdsForward

\* What the sends rest on; inductive together with ImagesExclusive.
SInv == IInv /\ HeardFirst /\ FramesForward
=============================================================================
