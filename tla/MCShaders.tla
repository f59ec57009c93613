-------------------------------- MODULE MCShaders --------------------------------
(* Shaders for TLC: a material with a texture array, its sampler, push          *)
(* constants and a bindless set; a compute program like the mipmap shader; and  *)
(* programs the factory must refuse.                                            *)
EXTENDS Shaders

Parameter(name, set, slot, ranges) == [name |-> name, set |-> set, slot |-> slot, ranges |-> ranges]
Of(type, count) == [type |-> type, count |-> count, unbounded |-> FALSE, size |-> 0]
Unbounded(type) == [type |-> type, count |-> 0, unbounded |-> TRUE, size |-> 0]
Push(size) == [type |-> "PushConstant", count |-> 1, unbounded |-> FALSE, size |-> size]

Material ==
  <<Parameter("a", 0, 0, <<Of("SampledImage", 2)>>), Parameter("b", 0, 1, <<Of("Sampler", 1)>>),
    Parameter("push", 0, 0, <<Push(2)>>), Parameter("c", 1, 0, <<Unbounded("SampledImage")>>)>>

Mipmap ==
  <<Parameter("a", 0, 0, <<Of("SampledImage", 1)>>), Parameter("b", 0, 1, <<Of("StorageImage", 1)>>),
    Parameter("c", 1, 3, <<Of("StructuredBufferReadWrite", 1)>>), Parameter("push", 0, 0, <<Push(1), Push(1)>>)>>

Block ==
  <<Parameter("a", 0, 0, <<Of("SampledImage", 1), Of("SampledImage", 1)>>)>>

TwoPushes == <<Parameter("push", 0, 0, <<Push(1)>>), Parameter("other", 0, 0, <<Push(2)>>)>>

Mixed ==
  <<Parameter("a", 0, 0, <<Unbounded("SampledImage")>>), Parameter("b", 0, 1, <<Of("Sampler", 1)>>)>>

\* One name in two namespaces.
Twins ==
  <<Parameter("a", 0, 0, <<Of("SampledImage", 1)>>), Parameter("a", 0, 1, <<Of("SampledImage", 2)>>)>>

MCPrograms == {Material, Mipmap, Block, TwoPushes, Mixed, Twins}

Resource(name, kind, element) == [name |-> name, kind |-> kind, element |-> element]

Textures == <<Resource("a", "Texture", 0), Resource("a", "Texture", 1)>>

\* What the sets of Material and Mipmap want, in several orders; and too few,
\* too many, doubled ones and ones of the wrong kind.
MCResources ==
  {<<>>, Textures, <<Textures[1]>>, Textures \o <<Resource("b", "Sampler", 0)>>,
   <<Resource("b", "Sampler", 0), Textures[2], Textures[1]>>,
   <<Resource("b", "Sampler", 0), Textures[2], Textures[2]>>,
   Textures \o <<Resource("b", "Buffer", 0)>>, Textures \o <<Resource("b", "Sampler", 1)>>,
   <<Textures[1], Resource("b", "Sampler", 0)>>,
   <<Textures[1], Resource("b", "Texture", 0)>>, <<Resource("b", "Texture", 0), Textures[1]>>,
   <<Textures[1], Resource("b", "Texture", 0), Resource("b", "Texture", 0)>>,
   <<Textures[1], Textures[1], Resource("b", "Sampler", 0)>>,
   <<Resource("c", "Buffer", 0)>>, <<Resource("c", "Texture", 0)>>,
   <<Resource("c", "Buffer", 0), Textures[1]>>}
================================================================================
