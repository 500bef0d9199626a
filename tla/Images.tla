------------------------------- MODULE Images -------------------------------
(***************************************************************************)
(* How MxHidDevice finds its way through an image file: where the IVT is,  *)
(* which parts it downloads to which addresses, which registers it sets    *)
(* before, what it starts (RunPlugIn, RunDCD, LoadFirmware, LoadFitImage,  *)
(* RunMxMultiImg).  The calls it makes of the device, module Sdp, succeed  *)
(* or fail here.  Offsets and addresses are in bytes, modulo W.            *)
(***************************************************************************)
EXTENDS FitImage

CONSTANTS
  Files,        \* what the files hold, see Layout
  W,            \* the size of the address space, 2^32
  RamBase,      \* where a file is linked to
  RamBase2,     \* where the image behind a plugin is linked to
  InitialSize,  \* MX8_INITIAL_IMAGE_SIZE
  DcdBytesMax,  \* HAB_DCD_BYTES_MAX
  ScuWindow,    \* the addresses the SCU sees elsewhere, and how far
  ScuShift,
  TreeSize,     \* fdt_totalsize of a FIT, rounded
  MaxLoadables  \* bound: one more than a list in Files has

ASSUME ImagesAssumption ==
  /\ {W, InitialSize, DcdBytesMax, ScuShift, TreeSize, MaxLoadables} \subseteq Nat
  /\ W % 4 = 0 /\ {RamBase, RamBase2} \subseteq 0..W - 1 /\ ScuWindow \subseteq ScuShift..W - 1

VARIABLES
  file,          \* what the file holds
  words,         \* its contents, as Layout has them
  fit,           \* what a look into its FIT finds (the tree does not change)
  pc,            \* the step that is next
  ImgIVTOffset,
  par,           \* MxFunc: PhyRAMAddr4KRL, CodeOffset, ExecutingAddr, pIVT (its SelfAddr)
  next,          \* the index of the next image or loadable
  regs,          \* what RunDCD has sent
  loads          \* what has been downloaded

vars == <<file, words, fit, pc, ImgIVTOffset, par, next, regs, loads>>

-----------------------------------------------------------------------------
(* The files that the image tools write.                                    *)
(* dev         the part it is for: MX50, MX6, MX8QM, MX8QXP                 *)
(* hdmi        offsets of IVTs of HDMI firmware in front                    *)
(* at          the offset of the image's IVT, -1 without one                *)
(* kind        what it starts: the file's own code, or behind a plugin an   *)
(*             IVT, a legacy image or a FIT; or MX8 containers              *)
(* dcd         the commands of its DCD: a tag, and registers or arguments   *)
(* fit         what the FIT describes                                       *)
(* containers  two sequences of images: offset, addr, size                  *)
(* sig         the barker of its IVT                                        *)
(* size, beyond  of the file, and what a word behind it reads as            *)

IVT == 1075839185
IVT2 == 1092616401
MX8_IVT == 1128267985
MX8_IVT2 == 1127219422
Barkers == {IVT, IVT2, MX8_IVT, MX8_IVT2}
IH_MAGIC == 654645590
FDT_MAGIC == 654645591     \* any other number
DCD_TAG == 210
WRT_DAT == 204
CHK_DAT == 207
NOP_CMD == 192
IVT_OFFSET_SD == 1024
LegacyHeader == 64
PayloadAt == 64            \* the IVT's Reserved: the payload's distance, less IVT_OFFSET_SD

\* As TLC's @@, which the provers do not know.
f ++ g == [k \in DOMAIN f \cup DOMAIN g |-> IF k \in DOMAIN f THEN f[k] ELSE g[k]]

At(o, ws) == [k \in {o + 4 * (i - 1) : i \in DOMAIN ws} |-> ws[(k - o) \div 4 + 1]]
Header(tag, len) == tag * 65536 + len

Command(c) ==
  IF c.tag = WRT_DAT
  THEN <<Header(c.tag, 4 + 8 * Len(c.args))>> \o FlattenSeq(c.args)
  ELSE <<Header(c.tag, 4 + 4 * Len(c.args))>> \o c.args
DcdWords(dcd) ==
  LET body == FlattenSeq([i \in DOMAIN dcd |-> Command(dcd[i])])
  IN IF dcd = <<>> THEN <<>> ELSE <<Header(DCD_TAG, 4 + 4 * Len(body))>> \o body

\* An IVT at o, linked to base; its boot data and DCD follow it.
IvtAt(o, sig, base, reserved, dcd, boot) ==
  At(o, <<sig, base, reserved, IF dcd = <<>> THEN 0 ELSE base + o + 48, base + o + 32, base + o, 0, 0,
          boot[1], boot[2], boot[3], 0>>)
  ++ At(o + 48, DcdWords(dcd))

PluginBytes == 64
PayloadOffset(f) == f.at + PayloadAt + IVT_OFFSET_SD

ContainerAt(o, images) ==
  At(o, <<Len(images), 0, 0, 0>>)
  ++ At(o + 16, [i \in 1..10 * Len(images) |->
                   LET im == images[(i - 1) \div 10 + 1]
                   IN CASE i % 10 = 1 -> im.offset
                        [] i % 10 = 3 -> im.addr
                        [] i % 10 = 7 -> im.size
                        [] OTHER      -> 0])

MainWords(f) ==
  LET plugin == <<RamBase + f.at - IVT_OFFSET_SD, PluginBytes, 1>>
      with == f.at + PluginBytes
  IN CASE f.kind = "code" -> IvtAt(f.at, f.sig, RamBase, 0, f.dcd, <<RamBase, f.size, 0>>)
       [] f.kind = "ivt" ->
            IvtAt(f.at, f.sig, RamBase, 0, <<>>, plugin)
            ++ IvtAt(with, f.sig, RamBase2, 0, <<>>, <<RamBase2 + f.at - IVT_OFFSET_SD, f.size, 0>>)
       [] f.kind = "legacy" ->
            IvtAt(f.at, f.sig, RamBase, PayloadAt, <<>>, plugin)
            ++ At(PayloadOffset(f), <<IH_MAGIC, 0, 0, 0, RamBase2, RamBase2 + 4>>)
       [] f.kind = "fit" ->
            IvtAt(f.at, f.sig, RamBase, PayloadAt, <<>>, plugin)
            ++ At(PayloadOffset(f), <<FDT_MAGIC>>)
       [] f.kind = "containers" ->
            At(f.at, <<f.sig, 0, IF f.dcd = <<>> THEN 0 ELSE RamBase + f.at + 640, 0,
                       RamBase + f.at + 192, 0, RamBase + f.at, 0, 0, 0, 128, 0>>)
            ++ At(f.at + 640, DcdWords(f.dcd))
            ++ LET second == f.at + IF f.sig = MX8_IVT2 THEN 128 ELSE 64
               IN At(second, <<f.sig, 0, 0, 0, RamBase + f.at + 400, 0, RamBase + second, 0>>)
            ++ ContainerAt(f.at + 192, f.containers[1])
            ++ ContainerAt(f.at + 400, f.containers[2])
       [] OTHER -> At(0, f.noise)

HdmiWords(h) == IvtAt(h, IVT, RamBase, 0, <<>>, <<RamBase, 0, 16>>)

Layout(f) ==
  MainWords(f) ++ [k \in UNION {DOMAIN HdmiWords(h) : h \in f.hdmi} |->
                     HdmiWords(CHOOSE h \in f.hdmi : k \in DOMAIN HdmiWords(h))[k]]

\* The image of a name; the names in a list of the default configuration.
Named(f, name) == f.images[SelectInSeq(f.images, LAMBDA im : im.name = name)]
NamesOf(f, type) ==
  LET c == f.configs[SelectInSeq(f.configs, LAMBDA d : d.name = f.default)]
  IN c.lists[SelectInSeq(c.lists, LAMBDA l : l.type = type)].names

MaxImages == 4             \* MX8_MAX_IMAGES_COUNT

\* Where a DCD is; its commands write registers, check or wait, and its length fits into
\* the 16 bits of its header.
DcdOffset(f) == f.at + IF f.kind = "containers" THEN 640 ELSE 48
DcdMade(f) ==
  /\ f.kind \in {"code", "containers"}
  /\ Len(f.dcd) \in Nat /\ DOMAIN f.dcd = 1..Len(f.dcd)
  /\ \A i \in DOMAIN f.dcd :
       \/ f.dcd[i].tag = WRT_DAT /\ f.dcd[i].args \in Seq(Nat \X Nat)
       \/ f.dcd[i].tag = CHK_DAT /\ f.dcd[i].args \in Seq(Nat)
       \/ f.dcd[i].tag = NOP_CMD /\ f.dcd[i].args = <<>>
  /\ 4 * Len(DcdWords(f.dcd)) < 65536 /\ DcdOffset(f) + 4 * Len(DcdWords(f.dcd)) <= f.size

\* What the tools that write them see to: an image has its IVT at a step of 0x100, HDMI
\* firmware is in front of it and never in front of containers; what the headers speak
\* of is in the file and in RAM, and no address in them passes for a barker.
WellMade(f) ==
  /\ f.kind \in {"code", "ivt", "legacy", "fit", "containers"}
  /\ f.kind = "containers" <=> f.dev \in {"MX8QM", "MX8QXP"}
  /\ f.sig \in IF f.kind = "containers" THEN {MX8_IVT, MX8_IVT2} ELSE {IVT, IVT2}
  /\ f.size \in Nat /\ f.size < W /\ f.at \in Nat /\ f.at % 256 = 0
  /\ f.at + (CASE f.kind = "containers"      -> 1024
               [] f.kind \in {"legacy", "fit"} -> PayloadOffset(f) - f.at + LegacyHeader
               [] OTHER                       -> 256) <= f.size
  /\ \A h \in f.hdmi : h \in Nat /\ h % 256 = 0 /\ h < f.at
  /\ f.kind = "ivt" => RamBase + f.at - IVT_OFFSET_SD \notin {IVT, IVT2}
  /\ f.dcd # <<>> => DcdMade(f)
  /\ f.kind = "fit" => Len(NamesOf(f.fit, "loadables")) \in 0..MaxLoadables - 1
  /\ f.kind = "containers" =>
       /\ f.hdmi = {} /\ f.at < InitialSize
       /\ \A c \in {1, 2} :
            /\ f.containers[c] \in Seq([offset : IVT_OFFSET_SD..W - 1, addr : 0..W - 1, size : Nat])
            /\ Len(f.containers[c]) <= MaxImages

ASSUME FilesAssumption == \A f \in Files : f.kind # "none" => WellMade(f)

-----------------------------------------------------------------------------
(* Reading the file.                                                        *)

Word(o) ==
  LET k == ((o % W) \div 4) * 4
  IN IF k >= file.size THEN file.beyond ELSE IF k \in DOMAIN words THEN words[k] ELSE 0

Tag(w) == w \div 65536
Length(w) == w % 65536

\* An address that the header at o gives, as an offset in the file; whole words apart.
Place(o, addr, self) == o + (((addr - self) % W) \div 4) * 4

-----------------------------------------------------------------------------
(* The IVT (RunPlugIn, the loop).                                           *)

NoIvt == W - 1           \* -1 in an unsigned DWORD

\* Mutant: the search goes on behind the place it was asked to begin at.
GetIvtOffsetBehind(size, begin) ==
  FirstOf({o \in {begin + 256 * n : n \in 1..size \div 256} : o < size /\ Word(o) \in Barkers}, NoIvt)

GetIvtOffset(size, begin) ==
  FirstOf({o \in {begin + 256 * n : n \in 0..size \div 256} : o < size /\ Word(o) \in Barkers}, NoIvt)

\* The IVT at an offset; a missing one is read four bytes before the file.
Image(o) == Word(o + 4)
Reserved(o) == Word(o + 8)
DCDAddress(o) == Word(o + 12)
Self(o) == Word(o + 20)
BootAt(o) == Place((o \div 4) * 4, Word(o + 16), Self(o))
PluginFlag(o) == Word(BootAt(o) + 8)

Goes(to) == pc' = to /\ UNCHANGED <<file, words, fit>>
Parses(to) == Goes(to) /\ UNCHANGED <<next, regs, loads>>

FindIvt ==
  /\ pc = "search"
  /\ ImgIVTOffset' = GetIvtOffset(file.size, ImgIVTOffset)
  /\ Parses("headers") /\ UNCHANGED par

\* Mutant: the search for the next IVT starts at the one that is skipped.
ReadHeadersAgain ==
  LET o == ImgIVTOffset
      phys == (Self(o) - o) % W
  IN
  /\ pc = "headers"
  /\ par' = [PhyRAMAddr4KRL |-> phys, CodeOffset |-> (Image(o) - phys) % W,
             ExecutingAddr |-> Image(o), pIVT |-> Self(o)]
  /\ IF PluginFlag(o) \notin {0, 1}
     THEN Parses("search") /\ ImgIVTOffset' = o
     ELSE /\ UNCHANGED ImgIVTOffset
          /\ Parses(CASE PluginFlag(o) = 1 \/ Reserved(o) # 0 -> "plugin"
                      [] PluginFlag(o) = 0 /\ Reserved(o) = 0 /\ DCDAddress(o) # 0 -> "dcd"
                      [] OTHER -> "load")

\* The parameters without a plugin; an IVT with another plugin flag is skipped.
ReadHeaders ==
  LET o == ImgIVTOffset
      phys == (Self(o) - o) % W
  IN
  /\ pc = "headers"
  /\ par' = [PhyRAMAddr4KRL |-> phys, CodeOffset |-> (Image(o) - phys) % W,
             ExecutingAddr |-> Image(o), pIVT |-> Self(o)]
  /\ IF PluginFlag(o) \notin {0, 1}
     THEN Parses("search") /\ ImgIVTOffset' = (o + 256) % W
     ELSE /\ UNCHANGED ImgIVTOffset
          /\ Parses(CASE PluginFlag(o) = 1 \/ Reserved(o) # 0 -> "plugin"
                      [] PluginFlag(o) = 0 /\ Reserved(o) = 0 /\ DCDAddress(o) # 0 -> "dcd"
                      [] OTHER -> "load")

-----------------------------------------------------------------------------
(* Downloads: of `size' bytes from offset `from' to `addr'.                 *)

Load(from, size, addr) == [from |-> from, size |-> size, addr |-> addr]

Fails == Parses("failed") /\ UNCHANGED <<par, ImgIVTOffset>>

Downloads(load, to) ==
  /\ loads' = Append(loads, load)
  /\ Goes(to) /\ UNCHANGED <<ImgIVTOffset, regs>>

\* TransData and Jump
RunPlugIn ==
  LET o == ImgIVTOffset IN
  /\ pc = "plugin"
  /\ \/ Fails
     \/ Downloads(Load(o, Word(BootAt(o) + 4), Self(o)), "payload") /\ UNCHANGED <<par, next>>

\* What the plugin has prepared the memory for.
FindPayload ==
  LET o == ImgIVTOffset
      pI == o + Reserved(o) + IVT_OFFSET_SD
      second == FirstOf({d \in {32 + 4 * n : n \in 0..file.size \div 4} :
                           d + o < file.size /\ Word(o + d) \in {IVT, IVT2}}, NoIvt)
      s == o + second
      IVTOffset == Self(o) - Word(BootAt(o))
      phys == (Word(BootAt(s)) + IVTOffset - o) % W
  IN
  /\ pc = "payload"
  /\ UNCHANGED ImgIVTOffset
  /\ \/ /\ Reserved(o) # 0 /\ Word(pI) = IH_MAGIC
        /\ par' = [PhyRAMAddr4KRL |-> Word(pI + 16), ExecutingAddr |-> Word(pI + 20), pIVT |-> 0,
                   CodeOffset |-> Reserved(o) + LegacyHeader + IVT_OFFSET_SD]
        /\ Parses("load")
     \/ /\ Reserved(o) # 0 /\ Word(pI) = FDT_MAGIC
        /\ par' = [par EXCEPT !.CodeOffset = pI]
        /\ Parses("firmware")                         \* m_IsFitImage
     \/ Reserved(o) # 0 /\ Word(pI) \notin {IH_MAGIC, FDT_MAGIC} /\ Parses("failed") /\ UNCHANGED par
     \/ Reserved(o) = 0 /\ second = NoIvt /\ Parses("failed") /\ UNCHANGED par
     \/ /\ Reserved(o) = 0 /\ second # NoIvt
        /\ par' = [PhyRAMAddr4KRL |-> phys, CodeOffset |-> (Image(s) - phys) % W,
                   ExecutingAddr |-> Image(s), pIVT |-> Self(s)]
        /\ Parses("load")

LoadFirmware ==
  /\ pc = "load"
  /\ \/ Fails
     \/ /\ Downloads(Load(par.CodeOffset, (file.size - par.CodeOffset) % W, par.PhyRAMAddr4KRL), "done")
        /\ UNCHANGED <<par, next>>

-----------------------------------------------------------------------------
(* The DCD (RunDCD).                                                        *)

\* The word at an index of the DCD, and the bytes behind a command's header (a DWORD).
DcdWord(from, k) == Word(from + 4 * k)
ArgBytes(from, k) == (Length(DcdWord(from, k)) - 4) % W

\* The registers a write command names, and the words that the loop skips behind a header.
Registers(from, k) ==
  IF Tag(DcdWord(from, k)) # WRT_DAT THEN <<>>
  ELSE [i \in 1..ArgBytes(from, k) \div 8 |->
          <<DcdWord(from, k + 2 * i - 1), DcdWord(from, k + 2 * i)>>]

\* Mutant: a check command is skipped with one word too few.
SkippedShort(from, k) ==
  CASE Tag(DcdWord(from, k)) = WRT_DAT -> 2 * (ArgBytes(from, k) \div 8)
    [] Tag(DcdWord(from, k)) = CHK_DAT -> ArgBytes(from, k) \div 4 - 1
    [] OTHER                           -> 0

Skipped(from, k) ==
  CASE Tag(DcdWord(from, k)) = WRT_DAT -> 2 * (ArgBytes(from, k) \div 8)
    [] Tag(DcdWord(from, k)) = CHK_DAT -> ArgBytes(from, k) \div 4
    [] OTHER                           -> 0

\* The registers an i.MX50 is given.
DcdRegisters(from) ==
  LET count == Length(DcdWord(from, 0)) \div 4
      on[k \in Nat] == IF k >= count THEN <<>> ELSE Registers(from, k) \o on[k + 1 + Skipped(from, k)]
  IN on[1]

MultiDev == file.dev \in {"MX8QM", "MX8QXP"}

\* DCDWrite gets the registers, or the whole of the DCD in bytes.
RunDCD(from, to) ==
  LET size == Length(Word(from))
      max == IF MultiDev THEN 2 * DcdBytesMax ELSE DcdBytesMax
  IN \/ Fails
     \/ /\ Tag(Word(from)) = DCD_TAG /\ (file.dev = "MX50" \/ size <= max)
        /\ regs' = IF file.dev = "MX50" THEN DcdRegisters(from) ELSE <<<<from, size>>>>
        /\ Goes(to) /\ UNCHANGED <<par, ImgIVTOffset, next, loads>>

RunSingleDCD ==
  /\ pc = "dcd"
  /\ RunDCD(Place(ImgIVTOffset, DCDAddress(ImgIVTOffset), Self(ImgIVTOffset)), "load")

-----------------------------------------------------------------------------
(* A FIT (LoadFitImage).                                                    *)

Find(tree, images, configurations) ==
  [k \in ({"firmware", "fdt"} \X {0}) \cup ({"loadables"} \X (0..MaxLoadables)) |->
     ImageInfo(tree, FitGetImageNodeOffset(tree, images, configurations, k[1], k[2]))]

Exists(im, numbers) == im.node >= 0 /\ numbers \subseteq DOMAIN im.num
LoadImageOf(im, addr) ==
  Load(par.CodeOffset + TreeSize + im.num["data-offset"], im.num["data-size"], addr)

FitFirmware ==
  LET im == fit[<<"firmware", 0>>] IN
  /\ pc = "firmware"
  /\ \/ Fails
     \/ /\ Exists(im, {"load", "data-offset", "data-size"})
        /\ Downloads(LoadImageOf(im, im.num["load"]), "fdt") /\ UNCHANGED <<par, next>>

\* The device tree goes behind the firmware, whatever its own load address is.
FitFdt ==
  LET im == fit[<<"fdt", 0>>] IN
  /\ pc = "fdt"
  /\ \/ Fails
     \/ /\ Exists(im, {"data-offset", "data-size"})
        /\ Downloads(LoadImageOf(im, Last(loads).addr + Last(loads).size), "loadables")
        /\ UNCHANGED <<par, next>>

\* One round of the loop; the last loadable with an entry point is what is started.
FitLoadable ==
  LET im == fit[<<"loadables", next>>] IN
  /\ pc = "loadables"
  /\ \/ im.node < 0 /\ Parses("done") /\ UNCHANGED <<par, ImgIVTOffset>>
     \/ im.node >= 0 /\ Fails
     \/ /\ Exists(im, {"load", "data-offset", "data-size"})
        /\ Downloads(LoadImageOf(im, im.num["load"]), "loadables")
        /\ next' = next + 1
        /\ par' = IF Exists(im, {"entry"})
                  THEN [par EXCEPT !.ExecutingAddr = im.num["entry"], !.pIVT = 0] ELSE par

-----------------------------------------------------------------------------
(* Containers (RunMxMultiImg): 64-bit fields, of which the low word counts. *)

SelfV2(o) == Word(o + 24)
BootAtV2(o) == Place(o, Word(o + 16), SelfV2(o))
NrImages(o) == Word(BootAtV2(o))
SCUViewAddr(addr) == IF addr \in ScuWindow /\ file.dev = "MX8QM" THEN addr - ScuShift ELSE addr

\* The second IVT; pImg + ImgIVTOffset counts words.
IvtTwo(o) == IF Word(o) = MX8_IVT2 THEN 4 * o + (Word(o + 40) \div 4) * 4 ELSE o + 64

FindContainers ==
  LET o == GetIvtOffset(InitialSize, 0) IN
  /\ pc = "containers"
  /\ ImgIVTOffset' = o /\ UNCHANGED par
  /\ IF Word(o) \notin {MX8_IVT, MX8_IVT2} THEN Parses("failed")
     ELSE IF Word(o + 8) # 0 THEN Parses("multiDcd") ELSE Parses("initial")

RunMultiDCD ==
  /\ pc = "multiDcd"
  /\ RunDCD(Place(ImgIVTOffset, Word(ImgIVTOffset + 8), SelfV2(ImgIVTOffset)), "initial")

LoadInitial ==
  /\ pc = "initial"
  /\ \/ Fails
     \/ /\ Downloads(Load(0, InitialSize, (SCUViewAddr(SelfV2(ImgIVTOffset)) - ImgIVTOffset) % W), "images")
        /\ UNCHANGED <<par, next>>

\* The images of the first container, then those of the second, then Jump.
LoadImage ==
  LET o == ImgIVTOffset
      first == NrImages(o)
      last == first + NrImages(IvtTwo(o))
      info == 16 + IF next < first THEN BootAtV2(o) + 40 * next
                   ELSE BootAtV2(IvtTwo(o)) + 40 * (next - first)
  IN
  /\ pc = "images"
  /\ \/ Fails
     \/ /\ next < last
        /\ Downloads(Load((Word(info) - IVT_OFFSET_SD) % W, Word(info + 24), SCUViewAddr(Word(info + 8))), "images")
        /\ next' = next + 1 /\ UNCHANGED par
     \/ /\ next >= last
        /\ par' = [par EXCEPT !.ExecutingAddr = SelfV2(o)]
        /\ Parses("done") /\ UNCHANGED ImgIVTOffset

-----------------------------------------------------------------------------

Init ==
  /\ file \in Files
  /\ words = Layout(file) /\ \E tree \in {Tree(file.fit)} : fit = Find(tree, ImagesNode(tree), Configurations(tree))
  /\ pc = IF file.dev \in {"MX8QM", "MX8QXP"} THEN "containers" ELSE "search"
  /\ ImgIVTOffset = 0 /\ next = 0 /\ regs = <<>> /\ loads = <<>>
  /\ par = [PhyRAMAddr4KRL |-> 0, CodeOffset |-> 0, ExecutingAddr |-> 0, pIVT |-> 0]

Ended == pc \in {"done", "failed"} /\ UNCHANGED vars

Step ==
  \/ FindIvt \/ ReadHeaders \/ RunPlugIn \/ FindPayload \/ RunSingleDCD \/ LoadFirmware
  \/ FitFirmware \/ FitFdt \/ FitLoadable
  \/ FindContainers \/ RunMultiDCD \/ LoadInitial \/ LoadImage

Next == Step \/ Ended

\* The host thread runs on: every call it makes returns (HidDevice!CallsReturn).
Spec == Init /\ [][Next]_vars /\ WF_vars(Step)

-----------------------------------------------------------------------------
(* What the files ask for.                                                  *)

HasImage == file.kind # "none"

Plugin(f) == Load(f.at, PluginBytes, RamBase + f.at)

\* The images a FIT names, each at its load address, the device tree behind the firmware.
FitLoads(f) ==
  LET Data(im, addr) == Load(PayloadOffset(f) + TreeSize + im.offset, im.size, addr)
      firmware == Named(f.fit, NamesOf(f.fit, "firmware")[1])
      loadables == NamesOf(f.fit, "loadables")
      Loadable(i) == Named(f.fit, loadables[i])
  IN << Data(firmware, firmware.load),
        Data(Named(f.fit, NamesOf(f.fit, "fdt")[1]), firmware.load + firmware.size) >>
     \o [i \in 1..Len(loadables) |-> Data(Loadable(i), Loadable(i).load)]

\* The image of the last loadable that has an entry; without one the plugin's own.
FitEntry(f) ==
  LET names == NamesOf(f.fit, "loadables")
      with == {i \in 1..Len(names) : Named(f.fit, names[i]).entry # NoEntry}
  IN IF with = {} THEN RamBase ELSE Named(f.fit, names[Max(with)]).entry

Asked(f) ==
  CASE f.kind = "code"   -> << Load(0, f.size, RamBase) >>
    [] f.kind = "ivt"    -> << Plugin(f), Load(0, f.size, RamBase2) >>
    [] f.kind = "legacy" -> LET from == PayloadOffset(f) + LegacyHeader
                            IN << Plugin(f), Load(from, f.size - from, RamBase2) >>
    [] f.kind = "fit"    -> <<Plugin(f)>> \o FitLoads(f)
    [] f.kind = "containers" ->
         LET images == f.containers[1] \o f.containers[2]
         IN << Load(0, InitialSize, SCUViewAddr(RamBase + f.at) - f.at) >>
            \o [i \in 1..Len(images) |-> Load(images[i].offset - IVT_OFFSET_SD, images[i].size,
                                                SCUViewAddr(images[i].addr))]

EntryOf(f) ==
  CASE f.kind = "code"       -> RamBase
    [] f.kind = "ivt"        -> RamBase2
    [] f.kind = "legacy"     -> RamBase2 + 4
    [] f.kind = "fit"        -> FitEntry(f)
    [] f.kind = "containers" -> RamBase + f.at

\* Offsets in a legacy payload and in containers are counted from the IVT and used from
\* the start of the file (MxHidDevice.cpp:679, :761, :790).
IvtFirst(f) == f.kind \in {"legacy", "containers"} => f.at = 0

-----------------------------------------------------------------------------
(* Properties.                                                              *)

\* The IVT in use is the image's, not one of HDMI firmware in front of it, at whatever
\* step of 0x100 it is, and no part of the file is looked at before it is found
\* (MxHidDevice.cpp:425-441, :609-649).
FindsTheImage ==
  HasImage /\ pc \notin {"search", "headers", "containers"} => ImgIVTOffset = file.at

\* What a look into the tree has to find of an image.
Found(im, image) ==
  /\ im.node \in Nat
  /\ im.num["data-offset"] = image.offset /\ im.num["data-size"] = image.size
  /\ im.num["load"] = image.load
  /\ Exists(im, {"entry"}) <=> image.entry # NoEntry
  /\ Exists(im, {"entry"}) => im.num["entry"] = image.entry

\* Of a FIT's images those are found that the lists of its default configuration name,
\* each under its own index, and none behind the last (MxHidDevice.cpp:443-506).
FindsTheNamed ==
  LET Image_(type, i) == Named(file.fit, NamesOf(file.fit, type)[i])
      count == Len(NamesOf(file.fit, "loadables"))
  IN file.kind = "fit" =>
       /\ Found(fit[<<"firmware", 0>>], Image_("firmware", 1))
       /\ Found(fit[<<"fdt", 0>>], Image_("fdt", 1))
       /\ \A i \in 1..count : Found(fit[<<"loadables", i - 1>>], Image_("loadables", i))
       /\ fit[<<"loadables", count>>].node \in Int \ Nat

\* What is downloaded is what the file describes, part for part and in its order, and
\* nothing after a failure; a run that ends well has downloaded all of it and starts
\* the entry described, if a legacy image or a container has its IVT first in the file,
\* where both ways of counting offsets agree: through two IVTs, a legacy header, the
\* lists of a FIT's default configuration or two containers (MxHidDevice.cpp:517-600,
\* :668-725, :754-816).
RunsWhatIsAsked ==
  HasImage /\ IvtFirst(file) =>
    /\ IsPrefix(loads, Asked(file))
    /\ pc = "done" => loads = Asked(file) /\ par.ExecutingAddr = EntryOf(file)

\* The registers that a command of a DCD names.
Written(c) == IF c.tag = WRT_DAT THEN c.args ELSE <<>>

\* Before the image is downloaded an i.MX50 has got exactly the registers its write
\* commands name, in order, whatever checks and delays lie between them; the other
\* parts the whole table, which their ROM reads itself (MxHidDevice.cpp:303-398).
SetsRegisters ==
  HasImage /\ file.dcd # <<>> /\ pc \in {"load", "initial", "images", "done"} =>
    IF file.dev = "MX50" THEN regs = FlattenSeq([i \in DOMAIN file.dcd |-> Written(file.dcd[i])])
    ELSE /\ Len(regs) = 1 /\ regs[1][2] = 4 * Len(DcdWords(file.dcd))
         /\ \A i \in DOMAIN DcdWords(file.dcd) :
              Word(regs[1][1] + 4 * (i - 1)) = DcdWords(file.dcd)[i]

\* Parsing ends: HDMI firmware is skipped, lists of a FIT and containers run out.
ParsingEnds == <>(HasImage => pc \in {"done", "failed"})

\* "Can't find IVT header" (MxHidDevice.cpp:615): a file without an IVT is refused.
RefusesWithoutIvt == pc = "done" => HasImage
=============================================================================
