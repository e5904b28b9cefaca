----------------------------- MODULE FpgaProbe -----------------------------
(***************************************************************************)
(* The life of a device in the RIFFA Linux driver: fpga_probe,             *)
(* allocate_chnls, fpga_remove, fpga_init and fpga_exit of riffa_driver.c, *)
(* with the table of the FPGAs in use.  Every call into the kernel may     *)
(* fail; each failure has its own list of what it gives back, in its own   *)
(* order.  A step acquires or releases one thing, because the interrupt    *)
(* handler may run between any two of them.                                *)
(***************************************************************************)
EXTENDS Integers, Sequences, Functions

CONSTANTS
  Devs,           \* the FPGA boards
  NUM_FPGAS,      \* places in fpgas
  NumChnls,       \* channels of a board, at most MAX_CHNLS (12)
  SpillMayFail    \* bound: may the allocation of the spill buffer fail

ASSUME ProbeAssumption ==
  /\ NUM_FPGAS \in Nat \ {0} /\ NumChnls \in Nat \ {0} /\ SpillMayFail \in BOOLEAN

VARIABLES
  module,     \* fpga_init's place, or what became of the module
  registered, \* what the module has registered with the kernel
  dev,        \* per board: what fpga_probe or fpga_remove is doing with it
  used,       \* used_fpgas: is the place taken
  fpgas       \* the board in a place, or None

table == <<used, fpgas>>
probeVars == <<module, registered, dev, table>>

None == "none"
Slots == 0 .. NUM_FPGAS - 1

\* st: "probe" while acquiring Acquisitions[at], "undo" while giving back what undo
\* lists, to become then; held: what the board has acquired.
Unbound ==
  [st |-> "unbound", at |-> 1, held |-> {}, undo |-> << >>, then |-> "unbound", id |-> -1]

ProbeInit ==
  /\ module = "absent" /\ registered = {}
  /\ dev = [d \in Devs |-> Unbound]
  /\ used = [s \in Slots |-> FALSE] /\ fpgas = [s \in Slots |-> None]

-----------------------------------------------------------------------------
(* What is acquired: a name and a channel, 0 for the board itself.         *)
Board(names) == [k \in 1 .. Len(names) |-> <<names[k], 0>>]
Parts(names, i) == [k \in 1 .. Len(names) |-> <<names[k], i>>]

\* The six parts of the first n channels, channel by channel.
EachChannel(names, n) ==
  [k \in 1 .. 6 * n |-> <<names[((k - 1) % 6) + 1], ((k - 1) \div 6) + 1>>]

Channels(n) ==
  EachChannel(<<"recv", "recv_msgs", "recv_buf", "send", "send_msgs", "send_buf">>, n)

Acquisitions ==
  Board(<<"device", "mask", "sc", "regions", "bar0_length", "bar0", "msi", "irq",
          "read_devctl", "write_devctl", "read_lnkctl", "write_lnkctl",
          "info", "recv_array", "send_array">>)
    \o Channels(NumChnls) \o Board(<<"spill", "slot">>)

\* Calls that only fail or not, and registers that are only set back (their
\* values are not state here).
Checks == { <<c, 0>> : c \in {"mask", "bar0_length", "read_devctl", "write_devctl",
                              "read_lnkctl", "write_lnkctl", "info", "slot"} }
Settings == { <<c, 0>> : c \in {"devctl", "lnkctl", "lnkctl_from_devctl"} }

(* What the failure of each gives back.                                    *)
PciUndo == <<"irq", "msi", "bar0", "regions", "device", "sc">>

PciFailure(name) ==
  Board(CASE name = "device" -> << >>
          [] name \in {"mask", "sc"} -> <<"device">>
          [] name = "regions" -> <<"device", "sc">>
          [] name \in {"bar0_length", "bar0"} -> <<"regions", "device", "sc">>
          [] name = "msi" -> <<"bar0", "regions", "device", "sc">>
          [] name = "irq" -> <<"msi", "bar0", "regions", "device", "sc">>)

ConfigFailure(name) ==
  Board(IF name = "write_lnkctl" THEN <<"devctl">> ELSE << >>) \o Board(PciUndo)

\* A bus that is no master, a link, a number of channels or a width out of range.
BothAndPciUndo == Board(<<"lnkctl", "devctl">>) \o Board(PciUndo)
InfoFailure == BothAndPciUndo

\* Both arrays are asked for before either is looked at.
ArrayFailure(held) ==
  Board(IF <<"recv_array", 0>> \in held THEN <<"recv_array">> ELSE << >>)
    \o Board(IF <<"send_array", 0>> \in held THEN <<"send_array">> ELSE << >>)
    \o BothAndPciUndo

\* allocate_chnls gives back the parts of the channel it could not complete...
PartUndo(part, i) ==
  Parts(CASE part = "recv" -> << >>
          [] part = "recv_msgs" -> <<"recv">>
          [] part = "recv_buf" -> <<"recv_msgs", "recv">>
          [] part = "send" -> <<"recv_buf", "recv_msgs", "recv">>
          [] part = "send_msgs" -> <<"send", "recv_buf", "recv_msgs", "recv">>
          [] part = "send_buf" -> <<"send_msgs", "send", "recv_buf", "recv_msgs", "recv">>,
        i)

\* ... and fpga_probe the channels before it.
ChannelsUndo(n) ==
  EachChannel(<<"send_buf", "recv_buf", "send_msgs", "recv_msgs", "send", "recv">>, n)
Arrays == Board(<<"recv_array", "send_array">>)

ChannelFailureKeeps(part, i) ==
  PartUndo(part, i) \o ChannelsUndo(i - 2) \o Arrays \o BothAndPciUndo
ChannelFailure(part, i) ==
  PartUndo(part, i) \o ChannelsUndo(i - 1) \o Arrays \o BothAndPciUndo

SpillFailure ==
  ChannelsUndo(NumChnls) \o Board(<<"lnkctl", "devctl">>) \o Arrays \o Board(PciUndo)

SlotFailure == ChannelsUndo(NumChnls) \o Arrays \o Board(<<"spill">>) \o BothAndPciUndo

FailureOf(r, held) ==
  CASE r[2] # 0 -> ChannelFailure(r[1], r[2])
    [] r[1] \in {"read_devctl", "write_devctl", "read_lnkctl", "write_lnkctl"} ->
         ConfigFailure(r[1])
    [] r[1] = "info" -> InfoFailure
    [] r[1] \in {"recv_array", "send_array"} -> ArrayFailure(held)
    [] r[1] = "spill" -> SpillFailure
    [] OTHER -> PciFailure(r[1])

-----------------------------------------------------------------------------
(* fpga_probe.                                                             *)
fpga_probe(d) ==
  /\ dev[d].st = "unbound" /\ "pci_driver" \in registered
  /\ dev' = [dev EXCEPT ![d] = [Unbound EXCEPT !.st = "probe"]]
  /\ UNCHANGED <<module, registered, table>>

At(d) == Acquisitions[dev[d].at]

Acquire(d) ==
  /\ dev[d].st = "probe" /\ At(d)[1] # "slot"
  /\ dev' = [dev EXCEPT
       ![d].at = @ + 1,
       ![d].held = @ \cup ({At(d)} \ Checks)]
  /\ UNCHANGED <<module, registered, table>>

GiveBack(d, list, then) ==
  dev' = [dev EXCEPT ![d].st = "undo", ![d].undo = list, ![d].then = then]

\* A failed allocation of the spill buffer is cleaned up, and the call goes on.
Fail(d) ==
  /\ dev[d].st = "probe" /\ At(d)[1] \notin {"slot", "recv_array"}
  /\ IF At(d)[1] = "spill"
     THEN /\ SpillMayFail
          /\ dev' = [dev EXCEPT ![d].st = "undo", ![d].undo = SpillFailure,
                                ![d].then = "probe", ![d].at = @ + 1]
     ELSE GiveBack(d, FailureOf(At(d), dev[d].held), "unbound")
  /\ UNCHANGED <<module, registered, table>>

\* That of the recv array is noticed after that of the send array.
FailRecvArray(d) ==
  /\ dev[d].st = "probe" /\ At(d)[1] = "recv_array"
  /\ \E held \in {dev[d].held, dev[d].held \cup {<<"send_array", 0>>}} :
       dev' = [dev EXCEPT ![d].held = held, ![d].st = "undo", ![d].then = "unbound",
                          ![d].undo = ArrayFailure(held)]
  /\ UNCHANGED <<module, registered, table>>

\* One release of a failed fpga_probe, or of fpga_remove.
Undo(d) ==
  /\ dev[d].st = "undo"
  /\ IF dev[d].undo = << >>
     THEN dev' = [dev EXCEPT ![d].st = dev[d].then]
     ELSE dev' = [dev EXCEPT ![d].held = @ \ {Head(dev[d].undo)}, ![d].undo = Tail(@)]
  /\ UNCHANGED <<module, registered, table>>

\* The first place of used_fpgas that was free, by an atomic exchange; the board
\* is stored there afterwards.
SaveFpga(d) ==
  /\ dev[d].st = "probe" /\ At(d)[1] = "slot"
  /\ LET free == { s \in Slots : ~used[s] }
     IN  IF free = {}
         THEN GiveBack(d, SlotFailure, "unbound") /\ used' = used
         ELSE LET s == CHOOSE t \in free : \A u \in free : t <= u
              IN  /\ used' = [used EXCEPT ![s] = TRUE]
                  /\ dev' = [dev EXCEPT ![d].st = "store", ![d].id = s]
  /\ UNCHANGED <<module, registered, fpgas>>

StoreFpga(d) ==
  /\ dev[d].st = "store"
  /\ fpgas' = [fpgas EXCEPT ![dev[d].id] = d]
  /\ dev' = [dev EXCEPT ![d].st = "bound"]
  /\ UNCHANGED <<module, registered, used>>

-----------------------------------------------------------------------------
(* fpga_remove: the second register it reads is the first one again.       *)
RemoveUndoIrqLate ==
  Board(<<"devctl", "lnkctl_from_devctl">>) \o ChannelsUndo(NumChnls) \o Arrays
    \o Board(<<"spill", "bar0", "irq", "sc", "msi", "regions", "device">>)
RemoveUndo ==
  Board(<<"devctl", "lnkctl_from_devctl">>) \o ChannelsUndo(NumChnls) \o Arrays
    \o Board(<<"spill", "irq", "bar0", "sc", "msi", "regions", "device">>)

fpga_removeLate(d) ==
  /\ dev[d].st = "bound"
  /\ GiveBack(d, RemoveUndo, "unbound")
  /\ UNCHANGED <<module, registered, table>>
fpga_remove(d) ==
  /\ dev[d].st = "bound"
  /\ used' = [used EXCEPT ![dev[d].id] = FALSE]
  /\ GiveBack(d, RemoveUndo, "unbound")
  /\ UNCHANGED <<module, registered, fpgas>>

-----------------------------------------------------------------------------
(* fpga_init and fpga_exit: a failure returns at once, with what it has    *)
(* registered, and the kernel goes on probing boards for it.               *)
fpga_init ==
  /\ module = "absent"
  /\ module' = "pci_driver"
  /\ used' = [s \in Slots |-> FALSE]
  /\ UNCHANGED <<registered, dev, fpgas>>

Register(what, next) ==
  /\ module = what
  /\ \/ registered' = registered \cup {what} /\ module' = next
     \/ registered' = registered /\ module' = IF registered = {} THEN "absent" ELSE "failed"
  /\ UNCHANGED <<dev, table>>

\* pci_unregister_driver waits for the fpga_remove of every board.
fpga_exit ==
  /\ module = "loaded"
  /\ \A d \in Devs : dev[d].st = "unbound"
  /\ module' = "absent" /\ registered' = {}
  /\ UNCHANGED <<dev, table>>

ProbeNext ==
  \/ fpga_init \/ fpga_exit
  \/ Register("pci_driver", "chrdev") \/ Register("chrdev", "class")
  \/ Register("class", "loaded")
  \/ \E d \in Devs : \/ fpga_probe(d) \/ Acquire(d) \/ Fail(d) \/ FailRecvArray(d)
                     \/ SaveFpga(d) \/ StoreFpga(d) \/ Undo(d) \/ fpga_remove(d)

ProbeSpec == ProbeInit /\ [][ProbeNext]_probeVars

-----------------------------------------------------------------------------
Everything == { Acquisitions[k] : k \in 1 .. Len(Acquisitions) } \ Checks

\* While the interrupt is registered the handler may run: the structure it is
\* given and the registers it reads are there, on every path out of fpga_probe
\* and all through fpga_remove.
HandlerMemory ==
  \A d \in Devs : <<"irq", 0>> \in dev[d].held =>
    {<<"sc", 0>>, <<"bar0", 0>>} \subseteq dev[d].held

\* Each of the lists of a failure gives back what the call acquired, each thing
\* once and nothing else; so does fpga_remove.
FreedOnce ==
  \A d \in Devs :
    /\ dev[d].st = "undo" =>
         /\ dev[d].held = { dev[d].undo[k] : k \in 1 .. Len(dev[d].undo) } \ Settings
         /\ IsInjective(dev[d].undo)
    /\ dev[d].st = "unbound" => dev[d].held = {}

\* A place in use, which is all that fpga_ioctl looks at, has a board of its own
\* with everything a transfer needs, and fpgas leads to it as soon as fpga_probe
\* has stored it: boards that are probed at once do not share a place, and a
\* removed one leaves its place before it is taken apart.
UsedIsComplete ==
  \A s \in Slots : used[s] =>
    \E d \in Devs :
      /\ { e \in Devs : dev[e].st \in {"store", "bound"} /\ dev[e].id = s } = {d}
      /\ dev[d].st = "bound" => fpgas[s] = d
      /\ dev[d].held = Everything

\* fpga_probe "returns 0 on success": a board it returned 0 for is complete.
SuccessIsComplete == \A d \in Devs : dev[d].st = "bound" => dev[d].held = Everything
=============================================================================
