-------------------------- MODULE RenderFrameQueue --------------------------
(***************************************************************************)
(* renderer/render_frame_queue.h: the bounded ring of frame slots between   *)
(* one producer (acquireWriteSlot, write, publish) and one consumer         *)
(* (waitForNext, read, releaseReadSlot), with waitUntilDrained and shutdown.*)
(*                                                                          *)
(* Each member function holds m_mutex from beginning to end except while it *)
(* is blocked, so it is one step per test of its wait predicate.  A thread  *)
(* whose test fails goes to sleep; notify_all wakes every sleeper, and a    *)
(* woken thread tests again.  Slots are written and read with no lock held, *)
(* through the references the functions return.                             *)
(*                                                                          *)
(* The queue has no caller in the repository yet.  The protocol assumed is  *)
(* the one its element accessors allow: publish follows acquireWriteSlot,   *)
(* releaseReadSlot follows a waitForNext that returned a frame, the         *)
(* producer may drain between two frames, and a third thread (owner) drains *)
(* or shuts down.  The 64-bit counters are natural numbers.                 *)
(***************************************************************************)
EXTENDS Integers, Sequences

CONSTANTS SlotCount,   \* slot_count, m_slots.size()
          MaxFrames    \* bound: how many frames the producer publishes

ASSUME QueueAssumption == SlotCount \in Nat \ {0} /\ MaxFrames \in Nat

Actors == {"producer", "consumer", "owner"}

VARIABLES
  published,    \* m_published
  consumed,     \* m_consumed
  isShutdown,   \* m_shutdown
  slots,        \* m_slots: the number of the frame in each slot, 0 at first
  pc,           \* where each actor is
  asleep,       \* the actors blocked in m_condition.wait
  slot,         \* the slot whose reference the producer or consumer holds
  got           \* history: the frames the consumer read

vars == <<published, consumed, isShutdown, slots, pc, asleep, slot, got>>

PcSet == {"idle", "acquire", "writing", "written", "next", "reading", "read",
          "drain", "stopped"}

TypeOK ==
  /\ published \in 0 .. MaxFrames
  /\ consumed \in 0 .. published
  /\ published - consumed <= SlotCount
  /\ isShutdown \in BOOLEAN
  /\ slots \in [0 .. SlotCount - 1 -> 0 .. MaxFrames]
  /\ pc \in [Actors -> PcSet]
  /\ asleep \subseteq Actors
  /\ slot \in [Actors -> 0 .. SlotCount - 1]
  /\ got \in Seq(0 .. MaxFrames)

Init ==
  /\ published = 0
  /\ consumed = 0
  /\ isShutdown = FALSE
  /\ slots = [i \in 0 .. SlotCount - 1 |-> 0]
  /\ pc = [a \in Actors |-> "idle"]
  /\ asleep = {}
  /\ slot = [a \in Actors |-> 0]
  /\ got = <<>>

-----------------------------------------------------------------------------
(* The wait predicates. *)

\* Fault: one slot too many.
CanWriteOneMore == isShutdown \/ published - consumed <= SlotCount

CanWrite == isShutdown \/ published - consumed < SlotCount

CanRead == isShutdown \/ published > consumed
IsDrained == isShutdown \/ published = consumed

\* m_condition.wait(lock, predicate), entered at pc `at': sleep if it fails.
Block(a, at) ==
  /\ pc' = [pc EXCEPT ![a] = at]
  /\ asleep' = asleep \cup {a}
  /\ UNCHANGED <<published, consumed, isShutdown, slots, slot, got>>

\* An actor that calls a function, or was woken inside it, tests its predicate.
Testing(a, at) == pc[a] \in {"idle", at} /\ a \notin asleep

NotifyAll == asleep' = {}

-----------------------------------------------------------------------------
(* The producer. *)

AcquireWriteSlot ==
  /\ Testing("producer", "acquire")
  /\ published < MaxFrames
  /\ \/ ~CanWrite /\ Block("producer", "acquire")
     \/ /\ CanWrite
        /\ isShutdown        \* throws: the producer ends
        /\ pc' = [pc EXCEPT !["producer"] = "stopped"]
        /\ UNCHANGED <<published, consumed, isShutdown, slots, asleep, slot, got>>
     \/ /\ CanWrite
        /\ ~isShutdown
        /\ pc' = [pc EXCEPT !["producer"] = "writing"]
        /\ slot' = [slot EXCEPT !["producer"] = published % SlotCount]
        /\ UNCHANGED <<published, consumed, isShutdown, slots, asleep, got>>

\* The caller fills the slot with its next frame.
Write ==
  /\ pc["producer"] = "writing"
  /\ slots' = [slots EXCEPT ![slot["producer"]] = published + 1]
  /\ pc' = [pc EXCEPT !["producer"] = "written"]
  /\ UNCHANGED <<published, consumed, isShutdown, asleep, slot, got>>

\* Fault: publish notifies nobody.
PublishSilently ==
  /\ pc["producer"] = "written"
  /\ published' = published + 1
  /\ pc' = [pc EXCEPT !["producer"] = "idle"]
  /\ UNCHANGED <<consumed, isShutdown, slots, asleep, slot, got>>

Publish ==
  /\ pc["producer"] = "written"
  /\ published' = published + 1
  /\ NotifyAll
  /\ pc' = [pc EXCEPT !["producer"] = "idle"]
  /\ UNCHANGED <<consumed, isShutdown, slots, slot, got>>

-----------------------------------------------------------------------------
(* The consumer: a loop over waitForNext that ends when it returns nullptr. *)

\* Fault: nullptr as soon as the queue is shut down, frames left or not.
NothingLeftOnceShutDown == isShutdown

\* The test that makes waitForNext return nullptr.
NothingLeft == isShutdown /\ published = consumed

\* Fault: the slot of the newest frame instead of the oldest.
NewestSlot == (published - 1) % SlotCount

ReadSlot == consumed % SlotCount

WaitForNext ==
  /\ Testing("consumer", "next")
  /\ \/ ~CanRead /\ Block("consumer", "next")
     \/ /\ CanRead
        /\ NothingLeft
        /\ pc' = [pc EXCEPT !["consumer"] = "stopped"]
        /\ UNCHANGED <<published, consumed, isShutdown, slots, asleep, slot, got>>
     \/ /\ CanRead
        /\ ~NothingLeft
        /\ pc' = [pc EXCEPT !["consumer"] = "reading"]
        /\ slot' = [slot EXCEPT !["consumer"] = ReadSlot]
        /\ UNCHANGED <<published, consumed, isShutdown, slots, asleep, got>>

\* The caller reads the frame.
Read ==
  /\ pc["consumer"] = "reading"
  /\ got' = Append(got, slots[slot["consumer"]])
  /\ pc' = [pc EXCEPT !["consumer"] = "read"]
  /\ UNCHANGED <<published, consumed, isShutdown, slots, asleep, slot>>

ReleaseReadSlot ==
  /\ pc["consumer"] = "read"
  /\ consumed' = consumed + 1
  /\ NotifyAll
  /\ pc' = [pc EXCEPT !["consumer"] = "idle"]
  /\ UNCHANGED <<published, isShutdown, slots, slot, got>>

-----------------------------------------------------------------------------
(* waitUntilDrained, and shutdown with the owner outside any other call. *)

WaitUntilDrained(a) ==
  /\ Testing(a, "drain")
  /\ \/ ~IsDrained /\ Block(a, "drain")
     \/ /\ IsDrained
        /\ pc' = [pc EXCEPT ![a] = "idle"]
        /\ UNCHANGED <<published, consumed, isShutdown, slots, asleep, slot, got>>

\* Fault: shutdown sets the flag and leaves the sleepers asleep.
ShutdownSilently ==
  /\ pc["owner"] = "idle" /\ ~isShutdown
  /\ isShutdown' = TRUE
  /\ UNCHANGED <<published, consumed, slots, pc, asleep, slot, got>>

Shutdown ==
  /\ pc["owner"] = "idle" /\ ~isShutdown
  /\ isShutdown' = TRUE
  /\ NotifyAll
  /\ UNCHANGED <<published, consumed, slots, pc, slot, got>>

\* A sleeper may wake for no reason (std::condition_variable).
WakeSpuriously(a) ==
  /\ a \in asleep
  /\ asleep' = asleep \ {a}
  /\ UNCHANGED <<published, consumed, isShutdown, slots, pc, slot, got>>

Produce == AcquireWriteSlot \/ Write \/ Publish
Consume == WaitForNext \/ Read \/ ReleaseReadSlot

Next ==
  \/ Produce
  \/ Consume
  \/ \E a \in {"producer", "owner"} : WaitUntilDrained(a)
  \/ Shutdown
  \/ \E a \in Actors : WakeSpuriously(a)

Spec == Init /\ [][Next]_vars

(***************************************************************************)
(* A call that has begun goes on when its thread is awake, a slot that was  *)
(* acquired is written and published, and the consumer keeps consuming.     *)
(* Nothing obliges the producer to produce or the owner to shut down, and   *)
(* no sleeper may count on a spurious wake-up.                              *)
(***************************************************************************)
Fairness ==
  /\ WF_vars(pc["producer"] # "idle" /\ Produce)
  /\ WF_vars(Consume)
  /\ \A a \in {"producer", "owner"} : WF_vars(pc[a] = "drain" /\ WaitUntilDrained(a))

FairSpec == Spec /\ Fairness

-----------------------------------------------------------------------------
(***************************************************************************)
(* The producer never fills the slot the consumer is reading: both use      *)
(* references into m_slots with no lock held.                               *)
(***************************************************************************)
NoSharedSlot ==
  pc["producer"] \in {"writing", "written"} /\ pc["consumer"] \in {"reading", "read"} =>
    slot["producer"] # slot["consumer"]

(***************************************************************************)
(* No wake-up is lost: whoever sleeps in m_condition.wait still has a       *)
(* reason to, because every change that could make its predicate true wakes *)
(* all sleepers.                                                            *)
(***************************************************************************)
NoLostWakeup ==
  \A a \in asleep :
    /\ pc[a] = "acquire" => ~CanWrite
    /\ pc[a] = "next" => ~CanRead
    /\ pc[a] = "drain" => ~IsDrained

(***************************************************************************)
(* The ring implements a bounded channel: the frames the consumer reads     *)
(* from the slots are those the producer published, in order, each once.    *)
(***************************************************************************)
Channel == INSTANCE FrameChannel
             WITH Capacity <- SlotCount, sent <- published, released <- consumed, received <- got
ChannelSpec == Channel!Spec

(***************************************************************************)
(* A frame published before shutdown reaches the consumer, even if shutdown *)
(* comes before it is read (waitForNext returns nullptr only when nothing   *)
(* is left).                                                                *)
(***************************************************************************)
PublishedFramesArrive ==
  \A n \in 1 .. MaxFrames : published >= n /\ ~isShutdown ~> Len(got) >= n

(***************************************************************************)
(* After shutdown nobody stays blocked: the consumer's loop ends, and a     *)
(* producer or owner inside a wait gets out of it.                          *)
(***************************************************************************)
ShutdownReleases ==
  isShutdown ~> /\ pc["consumer"] = "stopped"
                /\ pc["producer"] \notin {"acquire", "drain"}
                /\ pc["owner"] # "drain"

-----------------------------------------------------------------------------
(***************************************************************************)
(* The inductive invariant behind NoSharedSlot, NoLostWakeup and the        *)
(* refinement of FrameChannel.                                              *)
(***************************************************************************)
ProducerInv ==
  /\ pc["producer"] \in PcSet \ {"next", "reading", "read"}
  /\ pc["producer"] \in {"writing", "written"} =>
       /\ slot["producer"] = published % SlotCount
       /\ published < MaxFrames
       /\ published - consumed < SlotCount
  /\ pc["producer"] = "written" => slots[published % SlotCount] = published + 1

ConsumerInv ==
  /\ pc["consumer"] \in {"idle", "next", "reading", "read", "stopped"}
  /\ pc["consumer"] \in {"reading", "read"} =>
       /\ slot["consumer"] = consumed % SlotCount
       /\ consumed < published

\* The owner only ever drains and shuts down; who sleeps is inside a wait.
WaitingInv ==
  /\ pc["owner"] \in {"idle", "drain"}
  /\ \A a \in asleep : pc[a] \in {"acquire", "next", "drain"}

\* The published frames that are not released yet are in their slots.
SlotsInv ==
  \A k \in 0 .. MaxFrames : consumed <= k /\ k < published => slots[k % SlotCount] = k + 1

GotInv ==
  /\ Len(got) = IF pc["consumer"] = "read" THEN consumed + 1 ELSE consumed
  /\ \A i \in 1 .. Len(got) : got[i] = i

IInv ==
  /\ TypeOK
  /\ ProducerInv
  /\ ConsumerInv
  /\ WaitingInv
  /\ NoLostWakeup
  /\ SlotsInv
  /\ GotInv
=============================================================================
