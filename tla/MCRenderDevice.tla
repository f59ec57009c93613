----------------------------- MODULE MCRenderDevice -----------------------------
(* RenderDevice for TLC: a machine whose better GPU presents from a family of  *)
(* its own, one with an integrated GPU that does both and a window whose size *)
(* the swapchain decides, one that cannot present at all, and a minimised     *)
(* window.                                                                    *)
EXTENDS RenderDevice, TLC

Family(graphics, present, queues) == [graphics |-> graphics, present |-> present, queues |-> queues]

Gpu(discrete, families, formats, modes) ==
  [api |-> 3, discrete |-> discrete, max_image |-> 4096, families |-> families,
   extensions |-> {"swapchain", "swapchain_mutable_format"}, rendering |-> TRUE,
   storage |-> {"R8G8B8A8Unorm"}, formats |-> formats, modes |-> modes]

Loader(extensions) == [api |-> 4, extensions |-> extensions, validation_layer |-> TRUE]

Surface(current, max_images, alpha) ==
  [current |-> current, min |-> 1, max |-> 3, min_images |-> 2, max_images |-> max_images,
   alpha |-> alpha, usage |-> {"color_attachment", "transfer_dst"}]

Desktop ==
  [loader |-> Loader({"surface", "debug_utils"}), framebuffer |-> 2, vsync |-> TRUE,
   gpus |-> <<Gpu(FALSE, <<Family(TRUE, TRUE, 1)>>, <<"B8G8R8A8Srgb">>, {"fifo"}),
              Gpu(TRUE, <<Family(TRUE, TRUE, 0), Family(TRUE, FALSE, 1), Family(FALSE, TRUE, 1)>>,
                  <<"B8G8R8A8Unorm", "R8G8B8A8Unorm">>, {"fifo", "mailbox"})>>,
   surface |-> Surface(2, 2, {"opaque"})]

Laptop ==
  [loader |-> Loader({"surface"}), framebuffer |-> 9, vsync |-> FALSE,
   gpus |-> <<Gpu(FALSE, <<Family(FALSE, TRUE, 1), Family(TRUE, TRUE, 1)>>,
                  <<"R8G8B8A8Srgb">>, {"fifo"})>>,
   surface |-> Surface(Unspecified, 0, {"inherit", "post_multiplied"})]

Symmetric == Permutations(Devices) \cup Permutations(Resources) \cup Permutations(Addresses)

Server ==
  [Laptop EXCEPT !.gpus = <<Gpu(TRUE, <<Family(TRUE, FALSE, 1)>>, <<>>, {})>>]

Minimised == [Laptop EXCEPT !.framebuffer = 0]

Attribute(location, floats, offset) == [location |-> location, floats |-> floats, offset |-> offset]

Vertices(stride, attributes, count, data) ==
  [kind |-> "vertex", stride |-> stride, attributes |-> attributes, count |-> count, data |-> data]

Texture(width, height, mipmaps, data) ==
  [kind |-> "texture", width |-> width, height |-> height, texel |-> 4, mipmaps |-> mipmaps,
   data |-> data]

Cube(sizes, face) ==
  [kind |-> "cube", texel |-> 4,
   mips |-> [level \in DOMAIN sizes |-> [size |-> sizes[level], faces |-> [f \in 1 .. 6 |-> face[level]]]]]

\* Accepted and refused ones: wrapped products, missing rows and levels, and
\* sides of a texture that halve in different numbers of steps.
MCRequests ==
  {Vertices(20, <<Attribute(0, 3, 0), Attribute(1, 2, 12)>>, 3, 60),
   Vertices(20, <<Attribute(0, 3, 0), Attribute(1, 3, 12)>>, 3, 60),
   Vertices(32, <<Attribute(0, 4, 16)>>, 5, 32),
   [kind |-> "index", bytes |-> 2, count |-> 3, data |-> 6],
   [kind |-> "index", bytes |-> 4, count |-> 3, data |-> 6],
   Texture(9, 2, TRUE, 72), Texture(9, 2, FALSE, 72), Texture(5, 4, TRUE, 72),
   Texture(1, 1, TRUE, 4), Texture(32, 16, FALSE, 0),
   Cube(<<5, 2, 1>>, <<100, 16, 4>>), Cube(<<2, 1, 1>>, <<16, 4, 4>>), Cube(<<4, 2>>, <<64, 15>>)}

MCMachines == {Desktop, Laptop, Server, Minimised}
================================================================================
