------------------------------ MODULE ResourceData ------------------------------
(***************************************************************************)
(* What the four kinds of resources are made from, the checks a request     *)
(* must pass (vertex_buffer.cpp, index_buffer.cpp, texture_2d.cpp,          *)
(* texture_cube.cpp) and the commands that fill the new resource            *)
(* (nvrhi_resource_upload.cpp, nvrhi_mipmap.cpp).  Pure functions of a      *)
(* request:                                                                 *)
(*   vertex   [stride, attributes, count, data], an attribute being         *)
(*            [location, floats, offset]                                    *)
(*   index    [bytes, count, data]                                          *)
(*   texture  [width, height, texel, mipmaps, data]                         *)
(*   cube     [texel, mips], a mip being [size, faces], faces the sizes of  *)
(*            the six spans                                                 *)
(* with its kind; data is the size of the span in bytes, texel that of a    *)
(* texel.  A uint32_t wraps at Word, a size_t is less than Wide.            *)
(***************************************************************************)
EXTENDS Naturals, Sequences, SequencesExt

CONSTANTS Word, Wide

ASSUME WidthAssumption == Word \in Nat \ {0} /\ Wide \in Nat \ {0}

AtLeastOne(n) == IF n < 1 THEN 1 ELSE n

-----------------------------------------------------------------------------
AttributeSize(attribute) == 4 * attribute.floats

\* validateLayout, in uint32_t.
ValidLayout(stride, attributes) ==
  /\ stride # 0 /\ attributes # <<>>
  /\ \A i \in DOMAIN attributes :
       /\ (attributes[i].offset + AttributeSize(attributes[i])) % Word <= stride
       /\ \A j \in 1 .. i - 1 : attributes[j].location # attributes[i].location

AcceptsVertices(request) ==
  /\ ValidLayout(request.stride, request.attributes)
  /\ request.count # 0 /\ request.data # 0
  /\ request.data = (request.stride * request.count) % Word

AcceptsIndices(request) ==
  /\ request.count # 0 /\ request.data # 0
  /\ request.data = request.bytes * request.count

-----------------------------------------------------------------------------
\* The extents width and height go through as both are halved.
Halvings(width, height) ==
  LET extent[level \in 0 .. width + height] ==
        IF level = 0 THEN <<width, height>>
        ELSE LET above == extent[level - 1]
             IN  <<AtLeastOne(above[1] \div 2), AtLeastOne(above[2] \div 2)>>
  IN  extent

\* Fault: the loop ends at the first side of one texel.
MipLevelCountShort(width, height) ==
  LET extent == Halvings(width, height)
  IN  CHOOSE n \in 1 .. width + height :
        /\ extent[n - 1][1] = 1 \/ extent[n - 1][2] = 1
        /\ \A m \in 1 .. n - 1 : extent[m - 1][1] # 1 /\ extent[m - 1][2] # 1

MipLevelCount(width, height) ==
  LET extent == Halvings(width, height)
  IN  CHOOSE n \in 1 .. width + height :
        /\ extent[n - 1] = <<1, 1>>
        /\ \A m \in 1 .. n - 1 : extent[m - 1] # <<1, 1>>

MipLevels(request) ==
  IF request.kind = "cube" THEN Len(request.mips)
  ELSE IF request.mipmaps THEN MipLevelCount(request.width, request.height) ELSE 1

\* The first check on width keeps the product within size_t.
AcceptsTexels(request) ==
  /\ request.width # 0 /\ request.height # 0
  /\ request.width <= ((Wide - 1) \div request.height) \div request.texel
  /\ request.data = (request.width * request.height * request.texel) % Wide

FaceSize(request, level) ==
  (request.mips[level].size * request.mips[level].size * request.texel) % Wide

\* Sizes halve from the first level on; every face has its size, and all of
\* them together do not leave size_t.
AcceptsCube(request) ==
  /\ request.mips # <<>> /\ request.mips[1].size # 0
  /\ Len(request.mips) <= MipLevelCount(request.mips[1].size, 1)
  /\ \A level \in DOMAIN request.mips :
       /\ request.mips[level].size = Halvings(request.mips[1].size, 1)[level - 1][1]
       /\ request.mips[level].size <= ((Wide - 1) \div request.mips[level].size) \div request.texel
       /\ \A face \in 1 .. 6 : request.mips[level].faces[face] = FaceSize(request, level)
  /\ FoldFunction(+, 0, [level \in DOMAIN request.mips |-> 6 * FaceSize(request, level)]) < Wide

Accepts(request) ==
  CASE request.kind = "vertex"  -> AcceptsVertices(request)
    [] request.kind = "index"   -> AcceptsIndices(request)
    [] request.kind = "texture" -> AcceptsTexels(request)
    [] request.kind = "cube"    -> AcceptsCube(request)

-----------------------------------------------------------------------------
(* The command list that fills the resource. *)

Write(slice, level, pitch, data) ==
  [op |-> "write", slice |-> slice, level |-> level, pitch |-> pitch, data |-> data]

\* A mip level from the one before it, in groups of 8 by 8 threads.
Dispatch(level, width, height) ==
  [op |-> "dispatch", slice |-> 0, level |-> level,
   width |-> 8 * ((width + 7) \div 8), height |-> 8 * ((height + 7) \div 8)]

UploadBuffer(request) == <<Write(0, 0, request.data, request.data)>>

UploadTexture(request) == <<Write(0, 0, request.width * request.texel, request.data)>>

GenerateMipmaps(request) ==
  LET extent == Halvings(request.width, request.height)
  IN  [level \in 1 .. MipLevels(request) - 1 |->
         Dispatch(level, extent[level][1], extent[level][2])]

UploadCube(request) ==
  FlattenSeq([level \in DOMAIN request.mips |->
    [face \in 1 .. 6 |-> Write(face - 1, level - 1, request.mips[level].size * request.texel,
                               request.mips[level].faces[face])]])

Upload(request) ==
  CASE request.kind \in {"vertex", "index"} -> UploadBuffer(request)
    [] request.kind = "texture" -> UploadTexture(request) \o GenerateMipmaps(request)
    [] request.kind = "cube"    -> UploadCube(request)

-----------------------------------------------------------------------------
(* What a program may read of a resource, and what the commands give it.    *)

Overflows(request) ==
  \/ request.stride * request.count >= Word
  \/ \E i \in DOMAIN request.attributes :
       request.attributes[i].offset + AttributeSize(request.attributes[i]) >= Word

\* Every attribute of every vertex is in the buffer.
VerticesCovered(request) ==
  Overflows(request) \/
  \A v \in 0 .. request.count - 1, i \in DOMAIN request.attributes :
    v * request.stride + request.attributes[i].offset + AttributeSize(request.attributes[i])
      <= request.data

Base(request) ==
  IF request.kind = "cube" THEN <<request.mips[1].size, request.mips[1].size>>
  ELSE <<request.width, request.height>>

Slices(request) == IF request.kind = "cube" THEN 6 ELSE 1

\* n >> bits.
ShiftedRight(n, bits) ==
  LET shifted[b \in 0 .. bits] == IF b = 0 THEN n ELSE shifted[b - 1] \div 2 IN shifted[bits]

\* The extent Vulkan gives a level of an image.
LevelExtent(request, level) ==
  [side \in {1, 2} |-> AtLeastOne(ShiftedRight(Base(request)[side], level))]

\* A write reads its rows from the caller's span; a dispatch has a thread for
\* every texel and a level above it that is there already.
Fills(request, commands, i) ==
  LET command == commands[i]
      extent  == LevelExtent(request, command.level)
  IN  IF command.op = "write"
      THEN /\ command.pitch >= extent[1] * request.texel
           /\ command.pitch * extent[2] <= command.data
      ELSE /\ command.width >= extent[1] /\ command.height >= extent[2]
           /\ \E j \in 1 .. i - 1 :
                commands[j].slice = command.slice /\ commands[j].level = command.level - 1

TexelsCovered(request, commands) ==
  /\ \A i \in DOMAIN commands : Fills(request, commands, i)
  /\ \A slice \in 0 .. Slices(request) - 1, level \in 0 .. MipLevels(request) - 1 :
       \E i \in DOMAIN commands : commands[i].slice = slice /\ commands[i].level = level
  /\ \A i \in DOMAIN commands : commands[i].level < MipLevels(request)
  /\ request.kind = "texture" /\ request.mipmaps
       => LevelExtent(request, MipLevels(request) - 1) = [side \in {1, 2} |-> 1]

Covered(request, commands) ==
  CASE request.kind = "vertex"             -> VerticesCovered(request)
    [] request.kind = "index"              -> request.data >= request.bytes * request.count
    [] request.kind \in {"texture", "cube"} -> TexelsCovered(request, commands)
================================================================================
