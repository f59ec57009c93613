---------------------------- MODULE VulkanSelection ----------------------------
(***************************************************************************)
(* What the Vulkan bootstrap chooses from what a machine offers: the        *)
(* instance's extensions (vulkan_context.cpp), the GPU with its queue       *)
(* families and extensions (vulkan_device.cpp), and the swapchain's format, *)
(* present mode, extent, images and alpha (vulkan_swapchain.cpp).  Pure     *)
(* functions of records:                                                    *)
(*   loader   [api, extensions, validation_layer]                           *)
(*   gpu      [api, discrete, max_image, families, extensions, rendering,   *)
(*             storage, formats, modes], families a sequence of             *)
(*             [queues, graphics, present], formats a sequence of formats   *)
(*             in the surface's colour space                                *)
(*   surface  [current, min, max, min_images, max_images, alpha, usage]     *)
(* An API version is its minor number; an extent is one number.             *)
(***************************************************************************)
EXTENDS Naturals, Sequences, FiniteSets

None == 0           \* no family, no GPU
Unspecified == 0    \* a current extent that the swapchain decides

LeastOf(S) == IF S = {} THEN None ELSE CHOOSE i \in S : \A j \in S : i <= j

-----------------------------------------------------------------------------
\* What Vulkan promises of what a GPU and a surface report.
GpuPromised(gpu) ==
  /\ DOMAIN gpu.families = 1 .. Len(gpu.families) /\ Len(gpu.families) \in Nat
  /\ gpu.formats \in Seq({gpu.formats[i] : i \in DOMAIN gpu.formats})
  /\ gpu.max_image \in Nat

SurfacePromised(surface) ==
  /\ surface.min \in Nat /\ surface.max \in Nat /\ surface.min <= surface.max
  /\ surface.current = Unspecified \/ surface.current \in surface.min .. surface.max
  /\ surface.min_images \in Nat /\ surface.max_images \in Nat
  /\ surface.max_images = 0 \/ surface.max_images >= surface.min_images
  /\ surface.alpha \subseteq {"opaque", "pre_multiplied", "post_multiplied", "inherit"}

-----------------------------------------------------------------------------
\* The extensions the instance is created with; validation is dropped when
\* its layer or VK_EXT_debug_utils is missing.
ValidationEnabled(loader, wanted) ==
  wanted /\ loader.validation_layer /\ "debug_utils" \in loader.extensions

InstanceExtensions(loader, required, wanted) ==
  required \cup (IF ValidationEnabled(loader, wanted) THEN {"debug_utils"} ELSE {})

CanCreateInstance(loader, required, wanted) ==
  /\ loader.api >= 4
  /\ InstanceExtensions(loader, required, wanted) \subseteq loader.extensions

-----------------------------------------------------------------------------
Usable(gpu) == {i \in DOMAIN gpu.families : gpu.families[i].queues > 0}
Graphics(gpu) == {i \in Usable(gpu) : gpu.families[i].graphics}
Present(gpu) == {i \in Usable(gpu) : gpu.families[i].present}

\* Fault: the first graphics family is taken to present as well.
GraphicsFamilyForBoth(gpu) ==
  [graphics |-> LeastOf(Graphics(gpu)), present |-> LeastOf(Graphics(gpu))]

\* The first family that does both, else the first of each.
FindQueueFamilies(gpu) ==
  LET both == Graphics(gpu) \cap Present(gpu)
  IN  IF both # {} THEN [graphics |-> LeastOf(both), present |-> LeastOf(both)]
      ELSE [graphics |-> LeastOf(Graphics(gpu)), present |-> LeastOf(Present(gpu))]

\* gpu.rendering: the features of supportsRenderingFeatures.
Suitable(gpu) ==
  /\ gpu.api >= 3
  /\ FindQueueFamilies(gpu).graphics # None /\ FindQueueFamilies(gpu).present # None
  /\ "swapchain" \in gpu.extensions
  /\ gpu.rendering
  /\ gpu.formats # <<>> /\ gpu.modes # {}

DeviceScore(gpu) ==
  IF Suitable(gpu) THEN gpu.max_image + (IF gpu.discrete THEN 1000000 ELSE 0) ELSE 0

\* The first of the GPUs with the highest score, if that is not 0.
SelectDevice(gpus) ==
  LeastOf({i \in DOMAIN gpus : /\ DeviceScore(gpus[i]) > 0
                               /\ \A j \in DOMAIN gpus : DeviceScore(gpus[i]) >= DeviceScore(gpus[j])})

\* From API 1.2 on the format list is core.
MutableFormatEnabled(gpu) == "swapchain_mutable_format" \in gpu.extensions

DeviceExtensions(gpu) ==
  {"swapchain"} \cup (IF MutableFormatEnabled(gpu) THEN {"swapchain_mutable_format"} ELSE {})

-----------------------------------------------------------------------------
Srgb == [B8G8R8A8Unorm |-> "B8G8R8A8Srgb", R8G8B8A8Unorm |-> "R8G8B8A8Srgb"]
PreferredUnorm == <<"B8G8R8A8Unorm", "R8G8B8A8Unorm">>

Offers(formats, format) == \E i \in DOMAIN formats : formats[i] = format

\* gpu.storage: the UNORM formats with storage images, whose pairs are attachments.
MutablePairs(gpu) ==
  {i \in DOMAIN PreferredUnorm : /\ MutableFormatEnabled(gpu)
                                 /\ Offers(gpu.formats, PreferredUnorm[i])
                                 /\ PreferredUnorm[i] \in gpu.storage}

SrgbPairs(gpu) == {i \in DOMAIN PreferredUnorm : Offers(gpu.formats, Srgb[PreferredUnorm[i]])}

\* A UNORM image seen as sRGB, else an sRGB one, else whatever comes first.
ChooseSurfaceFormat(gpu) ==
  IF MutablePairs(gpu) # {}
  THEN LET unorm == PreferredUnorm[LeastOf(MutablePairs(gpu))]
       IN  [surface |-> unorm, view |-> Srgb[unorm], mutable |-> TRUE]
  ELSE IF SrgbPairs(gpu) # {}
  THEN LET srgb == Srgb[PreferredUnorm[LeastOf(SrgbPairs(gpu))]]
       IN  [surface |-> srgb, view |-> srgb, mutable |-> FALSE]
  ELSE [surface |-> gpu.formats[1], view |-> gpu.formats[1], mutable |-> FALSE]

\* toNvrhiFormat throws for every other format.
NvrhiFormats == {"R8G8B8A8Unorm", "R8G8B8A8Srgb", "B8G8R8A8Unorm", "B8G8R8A8Srgb"}

ChoosePresentMode(modes, vsync) ==
  IF ~vsync /\ "immediate" \in modes THEN "immediate"
  ELSE IF "mailbox" \in modes THEN "mailbox" ELSE "fifo"

Clamp(n, low, high) == IF n < low THEN low ELSE IF n > high THEN high ELSE n

ChooseExtent(surface, framebuffer) ==
  IF surface.current # Unspecified THEN surface.current
  ELSE Clamp(framebuffer, surface.min, surface.max)

\* One image more than the least, unless the surface has a limit there.
ImageCount(surface) ==
  IF surface.max_images > 0 /\ surface.max_images < surface.min_images + 1
  THEN surface.max_images ELSE surface.min_images + 1

AlphaChoices == <<"opaque", "pre_multiplied", "post_multiplied", "inherit">>

ChooseCompositeAlpha(surface) ==
  AlphaChoices[LeastOf({i \in DOMAIN AlphaChoices : AlphaChoices[i] \in surface.alpha})]

\* recreate gets as far as creating the swapchain.
CanCreateSwapchain(surface) ==
  /\ {"color_attachment", "transfer_dst"} \subseteq surface.usage
  /\ surface.alpha # {}

Swapchain(gpu, surface, framebuffer, vsync) ==
  LET families == FindQueueFamilies(gpu)
  IN  [format  |-> ChooseSurfaceFormat(gpu),
       mode    |-> ChoosePresentMode(gpu.modes, vsync),
       extent  |-> ChooseExtent(surface, framebuffer),
       images  |-> ImageCount(surface),
       alpha   |-> ChooseCompositeAlpha(surface),
       sharing |-> IF families.graphics = families.present THEN "exclusive" ELSE "concurrent"]
================================================================================
