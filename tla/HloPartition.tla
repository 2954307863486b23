---------------------------- MODULE HloPartition ----------------------------
(***************************************************************************)
(* hlo_partition.cc: the colors of a module under compilation, the devices *)
(* each one stands for, and the matching of metadata names to colors.      *)
(*                                                                         *)
(* A color is a base name with the numbers before and after it: Allocate-  *)
(* Color makes a name unique by appending a number, MpmdUniquifyColors by  *)
(* prepending one.  A device list is a pair <<start, number of devices>>.  *)
(***************************************************************************)
EXTENDS Integers, Sequences, SequencesExt, TLC

CONSTANTS
  Devices,     \* the device list the module is compiled for
  TaskOptions  \* TaskOptions[matcher, name, backprop]: what the callback returns

Named(base) == [base |-> base, pre |-> <<>>, suf |-> <<>>]

NoColor == Named("")

\* The metadata of an instruction: the scope name the matchers see, "" if it has none.
NoMetadata == [name |-> "", backprop |-> FALSE]

Put(f, k, v) == (k :> v) @@ f

ValueOr(f, k, v) == IF k \in DOMAIN f THEN f[k] ELSE v

Empty == [x \in {} |-> NoColor]

\* f, evaluated once at every point of its domain.
Tabulated(f) == f @@ Empty

ColorConfig(devices, backprop) ==
  [devices |-> devices, backprop |-> backprop, noncritical |-> FALSE]

\* CreateDeviceList: an error, here NoDevices, unless the devices ascend.
NoDevices == <<0, 0>>

CreateDeviceList(devices) ==
  IF \E k \in 2..Len(devices) : devices[k] < devices[k-1] THEN NoDevices
  ELSE <<Head(devices), Len(devices)>>

\* HloPartition::Create.
EmptyPartition ==
  [colors |-> Empty, byDevices |-> Empty, matched |-> Empty,
   original |-> Empty, max_color |-> 0]

HasColor(p, c) == c \in DOMAIN p.colors

\* ConfigForColor stops the process when the color does not exist.
DevicesForColor(p, c) == p.colors[c].devices

OriginalColor(p, c) == IF c \in DOMAIN p.original THEN p.original[c] ELSE c

\* The outcome of a call that may fail: the partition, a color and a status.
Ok(p, c) == [p |-> p, color |-> c, ok |-> TRUE]
Error(p) == [p |-> p, color |-> NoColor, ok |-> FALSE]

(***************************************************************************)
(* AllocateColor: a name that is taken gets the value of a counter of      *)
(* colors as a suffix, whether or not that name is taken too.              *)
(***************************************************************************)
AllocateColor(p, name, config) ==
  LET unique == IF HasColor(p, name) THEN [name EXCEPT !.suf = Append(@, p.max_color)]
                ELSE name
      others == IF config.devices \in DOMAIN p.byDevices
                THEN p.byDevices[config.devices] ELSE <<>>
  IN  Ok([p EXCEPT !.max_color = @ + 1,
                   !.byDevices = Put(@, config.devices, Append(others, unique)),
                   !.colors    = Put(@, unique, config)], unique)

\* FindColor: the first color ever allocated for these devices.
FindColor(p, devices) ==
  IF devices \in DOMAIN p.byDevices THEN Head(p.byDevices[devices]) ELSE NoColor

FindOrAllocateDefaultColor(p, devices) ==
  IF FindColor(p, devices) # NoColor THEN Ok(p, FindColor(p, devices))
  ELSE AllocateColor(p, [Named("devices_") EXCEPT !.suf = devices], ColorConfig(devices, FALSE))

FindOrAllocateGlobalColor(p) == FindOrAllocateDefaultColor(p, Devices)

LoopIncrementColor == Named("loop_increment")

AllocateLoopIncrementColor(p) ==
  AllocateColor(p, LoopIncrementColor, ColorConfig(Devices, FALSE))

\* CloneColor enters the clone in colors_ only, not among the colors of its devices.
CloneColor(p, old, new) ==
  IF ~HasColor(p, old) \/ HasColor(p, new) THEN Error(p)
  ELSE Ok([p EXCEPT !.colors = Put(@, new, p.colors[old])], new)

(***************************************************************************)
(* Recolor: color_map takes new colors to old ones.  Only the new ones     *)
(* survive; the colors of a device list and of a matched name are left.    *)
(***************************************************************************)
Recolor(p, color_map) ==
  IF \E c \in DOMAIN color_map : ~HasColor(p, color_map[c]) THEN Error(p)
  ELSE Ok([p EXCEPT
    !.colors   = [c \in DOMAIN color_map |-> p.colors[color_map[c]]],
    !.original = [c \in DOMAIN p.original \cup DOMAIN color_map |->
                    IF c \in DOMAIN color_map THEN OriginalColor(p, color_map[c])
                    ELSE p.original[c]]], NoColor)

\* Mutant: submeshes of the same size are taken for the same.
SameMeshSize(p, c, d) == DevicesForColor(p, c)[2] = DevicesForColor(p, d)[2]

\* SameMesh, of two colors; loop dependent devices are not modelled.
SameMesh(p, c, d) == DevicesForColor(p, c) = DevicesForColor(p, d)

\* Mutant: the outermost context is asked first.
MatchersOutermostFirst(contexts) == FlattenSeq(contexts)

(***************************************************************************)
(* ComputeMetadataNameColor.  metadata is the scope name of an instruction  *)
(* and whether it belongs to the backward pass.                            *)
(* The innermost context with a matcher for the name wins, within a        *)
(* context the first one.                                                  *)
(***************************************************************************)
MatchersInOrder(contexts) == FlattenSeq(Reverse(contexts))

Matches(matcher, metadata) ==
  <<matcher, metadata.name, metadata.backprop>> \in DOMAIN TaskOptions

AllocateMetadataColor(p, metadata, options) ==
  LET devices == <<Head(options.devices), Len(options.devices)>>
  IN
  IF options.devices = <<>> THEN Error(p)
  ELSE IF HasColor(p, options.name)
  THEN IF DevicesForColor(p, options.name) # devices THEN Error(p)
       ELSE Ok(p, options.name)
  ELSE LET new == AllocateColor(p, options.name,
                                ColorConfig(devices, metadata.backprop))
       IN  Ok([new.p EXCEPT !.matched =
                 Put(@, <<metadata.name, metadata.backprop>>, new.color)], new.color)

ComputeMetadataNameColor(p, contexts, metadata) ==
  LET matchers == MatchersInOrder(contexts)
      first    == SelectInSeq(matchers, LAMBDA m : Matches(m, metadata))
      key      == <<metadata.name, metadata.backprop>>
  IN  IF metadata = NoMetadata \/ first = 0 THEN Ok(p, NoColor)
      ELSE IF key \in DOMAIN p.matched THEN Ok(p, p.matched[key])
      ELSE AllocateMetadataColor(p, metadata,
             TaskOptions[matchers[first], metadata.name, metadata.backprop])
=============================================================================
